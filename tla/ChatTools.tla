------------------------------- MODULE ChatTools ------------------------------
(***************************************************************************)
(* tdl chat (app/chat): ls lists the chats, fetched page by page while the *)
(* server reorders them, with the topics of forums; export writes the      *)
(* messages of a chat that are in a range; users writes the members of a   *)
(* channel, kind by kind.  Each is a single goroutine that asks the        *)
(* server, which is external; any request may fail.                        *)
(***************************************************************************)
EXTENDS Lists, Integers, FiniteSetsExt, Functions

CONSTANTS
  Chats,       \* the entries of the user's list of dialogs
  BareId,      \* their ids, without the kind of peer
  Folders,     \* entries that are no dialogs
  Lost,        \* channels of which the server sends no entity
  Forums,
  Blocked,     \* ids
  Unwanted,    \* dialogs the filter refuses
  ChatBatch,   \* batchSize
  MaxDate,     \* (bound) dates of the newest messages of dialogs
  MaxMoves,    \* (bound) dialogs that move while they are listed
  Topics,      \* ids that topics may have
  History,     \* for each message of the chat exported, its date
  XpService, XpNoFile, XpRefused, \* service messages; those without media; those the filter refuses
  Half,        \* 2^31: a request keeps 32 bits of an int
  MaxInt,      \* math.MaxInt, of 64 bits
  Kinds        \* users, admins, kicked, banned, bots

Ids  == DOMAIN History
Wrap == 2 * Half
Ints == -(MaxInt + 1)..MaxInt

ASSUME ChatToolsAssumption ==
  /\ IsFiniteSet(Chats) /\ BareId \in [Chats -> Nat]
  /\ ChatBatch \in Nat \ {0} /\ {MaxDate, MaxMoves} \subseteq Nat
  /\ IsFiniteSet(Topics) /\ Topics \subseteq Nat \ {0}
  /\ {Half, MaxInt} \subseteq Nat \ {0} /\ (MaxInt + 1) % Wrap = 0
  /\ History \in Seq(0..(Half - 1)) /\ Ids \subseteq 1..(Half - 1)
  /\ \A i, j \in Ids : i < j => History[i] =< History[j]

VARIABLES
  ctOp, ctPc,     \* the command, and where it stands
  clDate,         \* the date each entry stands at in the list (external)
  clMoved,        \* dialogs that moved while they were listed (history)
  clOffset,       \* the next page starts below this date
  clSeen, clElems, \* seen, allElems
  clCut,          \* the listing was broken off: the command goes on (an error is logged or printed)
  clTodo, clOut,  \* elements left to process, and the result
  clNoTopics,     \* forums whose topics could not be had
  tpOffset, tpSeen, tpReqs, \* offsetTopic, seenOffsets, and the requests made (history)
  xpType, xpInput, xpAll,   \* the flags of export
  xpPos, xpOut,   \* the messages below are to come; the messages written
  usLeft, usBars  \* kinds of users left; those whose tracker is active

clVars == <<clDate, clMoved, clOffset, clSeen, clElems, clCut, clTodo, clOut, clNoTopics>>
tpVars == <<tpOffset, tpSeen, tpReqs>>
xpVars == <<xpType, xpInput, xpAll, xpPos, xpOut>>
usVars == <<usLeft, usBars>>
ctVars == <<ctOp, ctPc, clVars, tpVars, xpVars, usVars>>

CtInit ==
  /\ ctOp \in {"ls", "export", "users"} /\ ctPc = "start"
  /\ clDate = [c \in Chats |-> 0] /\ clMoved = {} /\ clOffset = MaxDate + 1
  /\ clSeen = {} /\ clElems = <<>> /\ clCut = FALSE /\ clTodo = <<>> /\ clOut = <<>>
  /\ clNoTopics = {} /\ tpOffset = 0 /\ tpSeen = {} /\ tpReqs = 0
  /\ xpType = "last" /\ xpInput = <<0, 0>> /\ xpAll = FALSE /\ xpPos = 0 /\ xpOut = <<>>
  /\ usLeft = Kinds /\ usBars = {}

CtGoes(p) == ctPc' = p
CtIs(op, p) == ctOp = op /\ ctPc = p

-----------------------------------------------------------------------------
(* ls: fetchDialogsWithErrorHandling.                                      *)

ClStart ==
  /\ CtIs("ls", "start")
  /\ clDate' \in {f \in [Chats -> 1..MaxDate] : IsInjective(f)} /\ CtGoes("fetch")
  /\ UNCHANGED <<ctOp, clMoved, clOffset, clSeen, clElems, clCut, clTodo, clOut, clNoTopics,
                 tpVars, xpVars, usVars>>

\* A message arrives in a dialog, or its newest one is deleted (external).
ClMove ==
  /\ CtIs("ls", "fetch")
  /\ \E c \in Chats \ Folders, d \in 1..MaxDate :
       /\ \A k \in Chats : clDate[k] # d
       /\ clDate' = [clDate EXCEPT ![c] = d] /\ clMoved' = clMoved \union {c}
       /\ Cardinality(clMoved') =< MaxMoves
  /\ UNCHANGED <<ctOp, ctPc, clOffset, clSeen, clElems, clCut, clTodo, clOut, clNoTopics,
                 tpVars, xpVars, usVars>>

\* A page: the newest entries below the offset (external).
Page ==
  LET below == {c \in Chats : clDate[c] < clOffset}
      dates == Descending({clDate[c] : c \in below})
      size  == IF Len(dates) < ChatBatch THEN Len(dates) ELSE ChatBatch
  IN [i \in 1..size |-> CHOOSE c \in below : clDate[c] = dates[i]]

\* Wrong on purpose: an entry that was left out counts as if the page were not full.
FullPageKept(page) == Cardinality(Range(page) \ (Folders \union Lost)) = ChatBatch
FullPage(page) == Len(page) = ChatBatch

\* An entry is kept if it is a dialog, its id has not been seen, and its peer is known.
ClPage ==
  LET first(i) == \A j \in 1..(i - 1) : Page[j] \in Folders \/ BareId[Page[j]] # BareId[Page[i]]
      kept == {i \in DOMAIN Page : /\ Page[i] \notin Folders \union Lost
                                   /\ BareId[Page[i]] \notin clSeen /\ first(i)}
      last == Page[Len(Page)]
  IN
  /\ CtIs("ls", "fetch") /\ Page # <<>>
  /\ clSeen' = clSeen \union {BareId[c] : c \in Range(Page) \ Folders}
  /\ clElems' = clElems \o Only(Page, kept)
  /\ clOffset' = (IF last \in Folders \union Lost THEN clOffset ELSE clDate[last])
  /\ clCut' = (last \in Lost)
  /\ CtGoes(IF last \notin Lost /\ FullPage(Page) THEN "fetch" ELSE "blocked")
  /\ UNCHANGED <<ctOp, clDate, clMoved, clTodo, clOut, clNoTopics, tpVars, xpVars, usVars>>

\* A request that fails ends the listing as the last page does.
ClPageEnds ==
  /\ CtIs("ls", "fetch")
  /\ \/ Page = <<>> /\ UNCHANGED clCut
     \/ clCut' = TRUE
  /\ CtGoes("blocked")
  /\ UNCHANGED <<ctOp, clDate, clMoved, clOffset, clSeen, clElems, clTodo, clOut, clNoTopics,
                 tpVars, xpVars, usVars>>

-----------------------------------------------------------------------------
(* ls: List and fetchTopics.                                               *)

ClBlocked ==
  /\ CtIs("ls", "blocked")
  /\ \/ clTodo' = clElems /\ CtGoes("process")
     \/ CtGoes("failed") /\ UNCHANGED clTodo
  /\ UNCHANGED <<ctOp, clDate, clMoved, clOffset, clSeen, clElems, clCut, clOut, clNoTopics,
                 tpVars, xpVars, usVars>>

ClSkip == CtGoes("process") /\ clTodo' = Tail(clTodo) /\ UNCHANGED clOut

\* The filter; it may fail, and with it the command.
ClFilter ==
  LET c == Head(clTodo) IN
  \/ c \in Unwanted /\ ClSkip
  \/ c \notin Unwanted
     /\ CtGoes("process") /\ clTodo' = Tail(clTodo) /\ clOut' = Append(clOut, c)
  \/ CtGoes("failed") /\ UNCHANGED <<clTodo, clOut>>

\* A chat is taken for blocked if a peer of its bare id is.
ClProcess ==
  /\ CtIs("ls", "process") /\ clTodo # <<>>
  /\ IF BareId[Head(clTodo)] \in Blocked THEN ClSkip /\ UNCHANGED tpVars
     ELSE IF Head(clTodo) \in Forums
     THEN /\ tpOffset' = 0 /\ tpSeen' = {} /\ tpReqs' = 0
          /\ CtGoes("topics") /\ UNCHANGED <<clTodo, clOut>>
     ELSE ClFilter /\ UNCHANGED tpVars
  /\ UNCHANGED <<ctOp, clDate, clMoved, clOffset, clSeen, clElems, clCut, clNoTopics,
                 xpVars, usVars>>

\* Wrong on purpose: a cycle of offsets is not noticed.
TopicsCycleMissed == FALSE
TopicsCycle == tpOffset \in tpSeen

\* A page of topics, as any server may answer: the last topic of it is the next offset, if
\* there is one; and the loop goes on if the page is full and more topics are announced.
ClTopicsPage ==
  /\ CtIs("ls", "topics") /\ ~TopicsCycle
  /\ tpSeen' = tpSeen \union {tpOffset} /\ tpReqs' = tpReqs + 1
  /\ tpOffset' \in Topics \union {tpOffset}
  /\ ClFilter \/ (CtGoes("topics") /\ UNCHANGED <<clTodo, clOut>>)
  /\ UNCHANGED <<ctOp, clDate, clMoved, clOffset, clSeen, clElems, clCut, clNoTopics,
                 xpVars, usVars>>

ClTopicsEnd ==
  /\ CtIs("ls", "topics")
  /\ \/ TopicsCycle /\ ClFilter /\ UNCHANGED clNoTopics
     \/ ~TopicsCycle /\ ClSkip /\ clNoTopics' = clNoTopics \union {Head(clTodo)}
  /\ UNCHANGED <<ctOp, clDate, clMoved, clOffset, clSeen, clElems, clCut, tpVars, xpVars, usVars>>

ClPrint ==
  /\ CtIs("ls", "process") /\ clTodo = <<>>
  /\ CtGoes("end")
  /\ UNCHANGED <<ctOp, clVars, tpVars, xpVars, usVars>>

ClSteps == \/ ClStart \/ ClMove \/ ClPage \/ ClPageEnds \/ ClBlocked \/ ClProcess
           \/ ClTopicsPage \/ ClTopicsEnd \/ ClPrint

-----------------------------------------------------------------------------
(* export.                                                                 *)

\* Wrong on purpose: the last message of the range is left out.
XpUpperSame(hi) == hi
\* The range is inclusive, and the offset exclusive; the request keeps its 32 bits.
XpUpper(hi) ==
  LET cut == (hi + 1) % Wrap IN IF cut >= Half THEN cut - Wrap ELSE cut

\* The messages the server starts from (external): offset 0 is none, and what it makes of
\* one below 0 is left open.
XpFroms(type, input) ==
  LET o == XpUpper(input[2]) IN
  IF type = "last" \/ o = 0 THEN {Ids}
  ELSE IF o < 0 THEN {Ids, {}}
  ELSE {{i \in Ids : IF type = "id" THEN i < o ELSE History[i] < o}}

\* Any ints; the bounds of a range default to 0 and the largest int, and are sorted.
XpInputs(type) ==
  IF type = "last" THEN Ints \X {0} ELSE {p \in Ints \X Ints : p[1] =< p[2]}

XpStart ==
  /\ CtIs("export", "start")
  /\ xpType' \in {"time", "id", "last"} /\ xpAll' \in BOOLEAN
  /\ xpInput' \in XpInputs(xpType')
  /\ \/ CtGoes("write")
        /\ \E from \in XpFroms(xpType', xpInput') : xpPos' = Max(from \union {0}) + 1
     \/ CtGoes("failed") /\ UNCHANGED xpPos
  /\ UNCHANGED <<ctOp, clVars, tpVars, xpOut, usVars>>

Coming == {i \in Ids : i < xpPos}
XpTaken(i) == i \notin XpService \union XpRefused /\ (xpAll \/ i \notin XpNoFile)

\* The first message out of the range ends it.
XpBeyond(i) ==
  \/ xpType = "time" /\ History[i] < xpInput[1]
  \/ xpType = "id" /\ i < xpInput[1]
  \/ xpType = "last" /\ Len(xpOut) >= xpInput[1]

XpMessage ==
  /\ CtIs("export", "write") /\ Coming # {} /\ ~XpBeyond(Max(Coming))
  /\ xpPos' = Max(Coming)
  /\ xpOut' = (IF XpTaken(Max(Coming)) THEN Append(xpOut, Max(Coming)) ELSE xpOut)
  /\ UNCHANGED <<ctOp, ctPc, clVars, tpVars, xpType, xpInput, xpAll, usVars>>

\* On an error, too, the file is closed as a whole export.
XpEnd ==
  /\ CtIs("export", "write")
  /\ \/ (IF Coming = {} THEN TRUE ELSE XpBeyond(Max(Coming))) /\ CtGoes("end")
     \/ CtGoes("failed")
  /\ UNCHANGED <<ctOp, clVars, tpVars, xpVars, usVars>>

XpSteps == XpStart \/ XpMessage \/ XpEnd

-----------------------------------------------------------------------------
(* users.                                                                  *)

\* The kinds come in any order.  One for which an administrator is required is passed over,
\* and its tracker, if the answer comes after the first page, stays active.
UsKind ==
  /\ CtIs("users", "start") /\ usLeft # {}
  /\ \E k \in usLeft : usLeft' = usLeft \ {k} /\ usBars' \in {usBars, usBars \union {k}}
  /\ UNCHANGED <<ctOp, ctPc, clVars, tpVars, xpVars>>

UsFail ==
  /\ CtIs("users", "start") /\ usLeft # {}
  /\ CtGoes("failed")
  /\ UNCHANGED <<ctOp, clVars, tpVars, xpVars, usVars>>

\* prog.Wait.
UsEnd ==
  /\ CtIs("users", "start") /\ usLeft = {} /\ usBars = {}
  /\ CtGoes("end")
  /\ UNCHANGED <<ctOp, clVars, tpVars, xpVars, usVars>>

UsSteps == UsKind \/ UsFail \/ UsEnd

-----------------------------------------------------------------------------
CtSteps == ClSteps \/ XpSteps \/ UsSteps

CtSpec == CtInit /\ [][CtSteps]_ctVars

-----------------------------------------------------------------------------
\* fetchTopics asks at most once for each offset there is, whatever the server answers.
CtTypeOK ==
  /\ ctOp \in {"ls", "export", "users"}
  /\ ctPc \in {"start", "fetch", "blocked", "process", "topics", "write", "end", "failed"}
  /\ clDate \in [Chats -> 0..MaxDate] /\ clMoved \subseteq Chats /\ clOffset \in 0..(MaxDate + 1)
  /\ clSeen \subseteq Nat /\ clElems \in Seq(Chats) /\ clCut \in BOOLEAN
  /\ clTodo \in Seq(Chats) /\ clOut \in Seq(Chats) /\ clNoTopics \subseteq Chats
  /\ tpOffset \in Topics \union {0} /\ tpSeen \subseteq Topics \union {0}
  /\ tpReqs \in 0..(Cardinality(Topics) + 1)
  /\ xpType \in {"time", "id", "last"} /\ xpInput \in Ints \X Ints
  /\ xpAll \in BOOLEAN /\ xpPos \in 0..Half /\ xpOut \in Seq(Ids)
  /\ usLeft \subseteq Kinds /\ usBars \subseteq Kinds

\* A list that is not broken off has each dialog once, whatever the order they are moved
\* in, and misses none but those that moved, are hidden by an error, the filter or a block,
\* or share their bare id with another.
ListIsComplete ==
  ctOp = "ls" /\ ctPc = "end" =>
    /\ IsInjective(clOut)
    /\ ~clCut => \A c \in Chats \ (clMoved \union Folders \union Lost \union Unwanted \union clNoTopics) :
         (BareId[c] \notin Blocked /\ \A k \in Chats \ {c} : BareId[k] # BareId[c])
         => c \in Range(clOut)

\* The messages of the range that was given, both bounds included.
InRange(i) == \/ xpType = "time" /\ History[i] \in xpInput[1]..xpInput[2]
              \/ xpType = "id" /\ i \in xpInput[1]..xpInput[2]
              \/ xpType = "last"

\* What an export should have.
Exported ==
  LET all == Descending({i \in Ids : InRange(i) /\ XpTaken(i)})
  IN IF xpType = "last" /\ xpInput[1] < Len(all) THEN SubSeq(all, 1, xpInput[1]) ELSE all

\* The 32 bits of a request can say where the range ends: it is the default, or an id or
\* a date a message can have, but for the last of them.
EndFits == xpType = "last" \/ xpInput[2] \in 0..(Half - 2) \cup {MaxInt}

\* An export that ends without an error has the messages of the range it was given, both
\* bounds included and the default ones too, newest first; or the given number of them.
\* Excepted are ranges whose end is cut to another one when it is sent.
ExportExact == ctOp = "export" /\ ctPc = "end" /\ EndFits => xpOut = Exported
===============================================================================
