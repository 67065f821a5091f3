------------------------------- MODULE Forward --------------------------------
(***************************************************************************)
(* tdl forward: the messages (of one chat, named by their ids) the sources *)
(* name are forwarded one by one by a single goroutine (app/forward,       *)
(* core/forwarder), an album in one request.  In the direct mode the       *)
(* server forwards; a message that is protected, edited, or could not be   *)
(* forwarded is copied instead (the clone mode).  The requests are those   *)
(* of Invoke.                                                              *)
(***************************************************************************)
EXTENDS Invoke, Lists, SequencesExt

CONSTANTS
  Sources,   \* for each source, the records of the dialog it names
  Service,   \* records that are no messages
  NoFile,    \* records with neither a file nor a photo
  Albums,    \* sets of messages
  Media,     \* messages with media; those with a photo or document; those whose media
  Documents, \* can be sent again as it is
  Convertible,
  HasText,
  Deletable, \* (bound) messages that may be gone
  FwEvents   \* (bound) what may go wrong

ASSUME ForwardAssumption ==
  /\ Sources \in Seq(Seq(Payloads \union Service))
  /\ Documents \subseteq Media /\ Convertible \subseteq Media
  /\ \A a, b \in Albums : a # b => a \intersect b = {} \* a message has one grouped_id
  /\ FwEvents \subseteq {"resolve", "dest", "album", "clone", "interrupt"}

Msgs == Payloads

-----------------------------------------------------------------------------
(* The messages to forward.                                                *)

\* tmessage.collect: what an exported file names; onlyMedia for tdl dl.
Collect(records, onlyMedia) ==
  LET Takes(m) == m \notin Service /\ ~(onlyMedia /\ m \in NoFile)
  IN Only(records, {i \in DOMAIN records : Takes(records[i])})

\* collectDialogs: with --desc the messages of each dialog come in reverse.
Dialogs(desc) ==
  [d \in DOMAIN Sources |->
     LET ms == Collect(Sources[d], FALSE) IN IF desc THEN Reverse(ms) ELSE ms]

-----------------------------------------------------------------------------
VARIABLES
  flags,     \* [mode, single, edit, dry, desc]
  protected, \* messages of a protected chat, or protected themselves
  alive,     \* messages that exist
  fwPc,      \* where the goroutine stands
  fwDi, fwMi, \* iter.i and iter.j, counted from 1
  fwErr,     \* iter.err, or the error the loop returns
  elem,      \* the message
  group,     \* the album it is forwarded with
  nextId,    \* random ids used
  sent,      \* f.sent
  barDone, barErred, \* messages whose progress tracker is done, or errored
  dropped,   \* messages of albums that could not be copied (history)
  apart      \* messages whose album could not be looked up (history)

at     == <<fwDi, fwMi>>
bars   == <<barDone, barErred>>
fixed  == <<flags, protected, alive>>
fwHist == <<dropped, apart>>
fwVars == <<fixed, fwPc, at, fwErr, elem, group, nextId, sent, bars, fwHist, invokeVars>>

Flags == [mode : {"direct", "clone"}, single : BOOLEAN, edit : BOOLEAN, dry : BOOLEAN,
          desc : BOOLEAN]

FwInit ==
  /\ flags = [mode |-> "direct", single |-> FALSE, edit |-> FALSE, dry |-> FALSE, desc |-> FALSE]
  /\ protected = {} /\ alive = Msgs
  /\ fwPc = "start" /\ fwDi = 1 /\ fwMi = 1 /\ fwErr = FALSE
  /\ elem \in {m \in Msgs : \A k \in Msgs : m =< k} /\ group = {}
  /\ nextId = 0 /\ sent = {} /\ barDone = {} /\ barErred = {} /\ dropped = {} /\ apart = {}
  /\ InvokeInit

\* The flags, and what there is to forward.
FwStart ==
  /\ fwPc = "start"
  /\ flags' \in Flags /\ protected' \in {{}, Msgs}
  /\ alive' \in {Msgs \ d : d \in SUBSET Deletable}
  /\ fwPc' = "next"
  /\ UNCHANGED <<at, fwErr, elem, group, nextId, sent, bars, fwHist, invokeVars>>

List   == Dialogs(flags.desc)
Here   == List[fwDi][fwMi]
Goes(p) == fwPc' = p
\* Edited messages are always copied.
Mode   == IF flags.edit THEN "clone" ELSE flags.mode

-----------------------------------------------------------------------------
(* iter.Next.                                                              *)

FwNextCanceled ==
  /\ fwPc = "next" /\ interrupt
  /\ fwErr' = TRUE /\ Goes("end")
  /\ UNCHANGED <<fixed, at, elem, group, nextId, sent, bars, fwHist, invokeVars>>

FwNextEnds ==
  /\ fwPc = "next" /\ ~interrupt /\ fwDi > Len(List)
  /\ Goes("end")
  /\ UNCHANGED <<fixed, at, fwErr, elem, group, nextId, sent, bars, fwHist, invokeVars>>

Stands == fwPc = "next" /\ ~interrupt /\ fwDi =< Len(List)

\* Wrong on purpose: the last message of a dialog is passed over.
StepOnEarly ==
  IF fwMi + 1 < Len(List[fwDi]) THEN fwMi' = fwMi + 1 /\ UNCHANGED fwDi
  ELSE fwMi' = 1 /\ fwDi' = fwDi + 1
StepOn ==
  IF fwMi < Len(List[fwDi]) THEN fwMi' = fwMi + 1 /\ UNCHANGED fwDi
  ELSE fwMi' = 1 /\ fwDi' = fwDi + 1

\* GetSingleMessage asks for the newest message up to this one.
HistoryEmpty(m) == \A k \in alive : k > m

\* A source without messages: Messages[0] is out of range.  No message is left up to this
\* one: GetSingleMessage returns neither a message nor an error.  With --edit, the error of
\* a destination that cannot be resolved is overwritten, and the destination is nil.
FwPanics ==
  /\ Stands
  /\ \/ List[fwDi] = <<>>
     \/ List[fwDi] # <<>> /\ HistoryEmpty(Here)
     \/ List[fwDi] # <<>> /\ Here \in alive \ sent /\ flags.edit /\ "dest" \in FwEvents
  /\ Goes("panic")
  /\ UNCHANGED <<fixed, at, fwErr, elem, group, nextId, sent, bars, fwHist, invokeVars>>

\* The chat or the message cannot be had, the message is deleted, its destination fails.
FwNextFails ==
  /\ Stands /\ List[fwDi] # <<>>
  /\ \/ "resolve" \in FwEvents
     \/ Here \notin alive /\ ~HistoryEmpty(Here)
     \/ "dest" \in FwEvents /\ ~flags.edit
  /\ StepOn
  /\ fwErr' = TRUE /\ Goes("end")
  /\ UNCHANGED <<fixed, elem, group, nextId, sent, bars, fwHist, invokeVars>>

\* A message that has been sent with its album is skipped.
FwNext ==
  /\ Stands /\ List[fwDi] # <<>> /\ Here \in alive
  /\ StepOn
  /\ IF Here \in sent THEN UNCHANGED <<fwPc, elem>> ELSE elem' = Here /\ Goes("group")
  /\ UNCHANGED <<fixed, fwErr, group, nextId, sent, bars, fwHist, invokeVars>>

-----------------------------------------------------------------------------
(* Forwarder.Forward and forwardMessage.                                   *)

Album(m) == UNION {a \in Albums : m \in a}

\* GetGroupedMessages drops the error of its query: the message then goes alone.
FwGroup ==
  /\ fwPc = "group"
  /\ \/ group' = (IF flags.single THEN {} ELSE Album(elem) \intersect alive)
        /\ UNCHANGED apart
     \/ /\ "album" \in FwEvents /\ ~flags.single /\ Album(elem) # {}
        /\ group' = {} /\ apart' = apart \union {elem}
  /\ Goes("forward")
  /\ UNCHANGED <<fixed, at, fwErr, elem, nextId, sent, bars, dropped, invokeVars>>

Batch == IF group = {} THEN {elem} ELSE group

\* Wrong on purpose: only the message itself is remembered as sent.
MarkedAlone == {elem}
Marked == {elem} \union group

\* The deferred end of forwardMessage: whether it went well or not, the messages are
\* marked as sent.  Only a single message's cancellation ends the run.
Done(ok) ==
  /\ sent' = sent \union Marked
  /\ IF ok THEN barDone' = barDone \union {elem} /\ UNCHANGED barErred
           ELSE barErred' = barErred \union {elem} /\ UNCHANGED barDone
  /\ IF ~ok /\ group = {} /\ answer = "canceled"
     THEN fwErr' = TRUE /\ Goes("end") ELSE UNCHANGED fwErr /\ Goes("next")

Requested(puts) == Send([id |-> nextId, puts |-> puts]) /\ nextId' = nextId + 1

\* mediaSizeSum: every message of an album must have a photo or document.
SizesUnknown == group # {} /\ ~(group \subseteq Documents)

FwSizesFail ==
  /\ fwPc = "forward" /\ SizesUnknown
  /\ Done(FALSE)
  /\ UNCHANGED <<fixed, at, elem, group, nextId, fwHist, invokeVars>>

FwToClone ==
  /\ fwPc = "forward" /\ ~SizesUnknown /\ (Mode = "clone" \/ elem \in protected)
  /\ Goes("clone")
  /\ UNCHANGED <<fixed, at, fwErr, elem, group, nextId, sent, bars, fwHist, invokeVars>>

FwDirect ==
  /\ fwPc = "forward" /\ ~SizesUnknown /\ Mode = "direct" /\ elem \notin protected /\ ~flags.dry
  /\ Requested(Batch) /\ Goes("direct")
  /\ UNCHANGED <<fixed, at, fwErr, elem, group, sent, bars, fwHist>>

\* Whatever the error, the message is copied instead.
FwDirected ==
  /\ fwPc = "direct" /\ answer # "none"
  /\ IF answer = "ok" THEN Done(TRUE) ELSE Goes("clone") /\ UNCHANGED <<sent, bars, fwErr>>
  /\ Taken
  /\ UNCHANGED <<fixed, at, elem, group, nextId, fwHist>>

\* convForwardedMedia: protected photos and documents are downloaded and uploaded again,
\* other media is sent as it is.
Reuploaded(m) == m \in Documents /\ ({elem, m} \intersect protected # {})
MayFail(m)    == Reuploaded(m) /\ "clone" \in FwEvents
MustFail(m)   == m \notin Media \/ (~Reuploaded(m) /\ m \notin Convertible)
Copyable      == {m \in Batch : ~MustFail(m)}

\* What cannot be copied is left out of an album; if nothing is left of what was to be
\* copied, the text of the message is.
FwClone ==
  /\ fwPc = "clone" /\ ~flags.dry
  /\ \E failing \in SUBSET {m \in Batch : MayFail(m)} :
       LET copied == Copyable \ failing IN
       IF copied # {}
       THEN /\ Requested(copied) /\ Goes("cloned") /\ dropped' = dropped \union (Batch \ copied)
            /\ UNCHANGED <<sent, bars, fwErr>>
       ELSE IF elem \in HasText
       THEN /\ Requested({elem}) /\ Goes("cloned") /\ dropped' = dropped \union (Batch \ {elem})
            /\ UNCHANGED <<sent, bars, fwErr>>
       ELSE Done(FALSE) /\ UNCHANGED <<dropped, nextId, invokeVars>>
  /\ UNCHANGED <<fixed, at, elem, group, apart>>

\* --dry-run: a client that does nothing answers every request.
FwDry ==
  /\ flags.dry
  /\ \/ fwPc = "forward" /\ ~SizesUnknown /\ Mode = "direct" /\ elem \notin protected
        /\ Done(TRUE)
     \/ fwPc = "clone" /\ Done(Copyable # {} \/ elem \in HasText)
  /\ UNCHANGED <<fixed, at, elem, group, nextId, fwHist, invokeVars>>

FwCloned ==
  /\ fwPc = "cloned" /\ answer # "none"
  /\ Done(answer = "ok")
  /\ Taken
  /\ UNCHANGED <<fixed, at, elem, group, nextId, fwHist>>

FwWaits ==
  /\ Invocation \/ ("interrupt" \in FwEvents /\ fwPc \notin {"start", "end", "panic"} /\ Interrupt)
  /\ UNCHANGED <<fixed, fwPc, at, fwErr, elem, group, nextId, sent, bars, fwHist>>

-----------------------------------------------------------------------------
FwSteps ==
  \/ FwStart \/ FwNextCanceled \/ FwNextEnds \/ FwPanics \/ FwNextFails \/ FwNext
  \/ FwGroup \/ FwSizesFail \/ FwToClone \/ FwDirect \/ FwDry \/ FwDirected
  \/ FwClone \/ FwCloned \/ FwWaits

FwSpec == FwInit /\ [][FwSteps]_fwVars

-----------------------------------------------------------------------------
\* The types; and a request is under way where the goroutine waits for one, and only there.
FwTypeOK ==
  /\ InvokeTypeOK
  /\ flags \in Flags /\ protected \subseteq Msgs /\ alive \subseteq Msgs
  /\ fwPc \in {"start", "next", "group", "forward", "direct", "clone", "cloned", "end", "panic"}
  /\ fwDi \in Nat /\ fwMi \in Nat /\ fwErr \in BOOLEAN
  /\ elem \in Msgs /\ group \subseteq Msgs /\ nextId \in Nat
  /\ {sent, barDone, barErred, dropped, apart} \subseteq SUBSET Msgs
  /\ (req # NoReq) = (fwPc \in {"direct", "cloned"})

\* However often a request is sent again, and though an album is met once for each of its
\* messages, a message arrives once: but for one that was copied after the answer to its
\* direct forwarding was lost, and for an album that was once not found.
ArrivesOnce == \A m \in Msgs : arrived[m] > 1 => m \in doubt \union apart

\* A message that is reported done has arrived, but for one of an album the rest of which
\* was copied without it.
DoneHasArrived == ~flags.dry => \A m \in barDone : arrived[m] > 0 \/ m \in dropped

\* A run that ends without an error has reported every message it was given, be it done or
\* failed, or has sent it along with its album.
AllReported ==
  fwPc = "end" /\ ~fwErr => \A d \in DOMAIN List : Range(List[d]) \subseteq sent
===============================================================================
