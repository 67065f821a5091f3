------------------------------- MODULE Download -------------------------------
(***************************************************************************)
(* `tdl download` over several runs of the program: the iterator that      *)
(* turns the listed messages into files (app/dl/iter.go), the downloader   *)
(* that runs them under an errgroup (core/downloader), the progress        *)
(* callbacks that finish a file (app/dl/progress.go), and the resume key   *)
(* saved when a run is interrupted (app/dl/dl.go).                         *)
(*                                                                         *)
(* A run is the main goroutine, which iterates, waits, saves and closes,   *)
(* and one goroutine (job) per file.  The server may lose messages at any  *)
(* time, the user may cancel, the process may be killed: constant Events   *)
(* says which of the things that can go wrong do.                          *)
(***************************************************************************)
EXTENDS Naturals, Sequences, FiniteSets, Functions, Lists

CONSTANTS
  Msgs,       \* message ids, numbers
  Dialogs,    \* what the user asks for: a sequence of sequences of messages
  Albums,     \* sets of messages: the albums on the server
  Chat,       \* the chat a message is in
  Files,      \* messages whose media pass the include and exclude filters
  Groups,     \* values the --group flag takes, BOOLEAN or less
  Deletable,  \* messages that may be deleted on the server
  Limit,      \* --limit: jobs at a time
  Modes,      \* how runs treat the resume key, subset of AllModes
  Events,     \* subset of AllEvents
  MaxRuns     \* bound: runs of the program

AllEvents ==
  {"download",  \* a download fails for a reason other than cancellation
   "rename",    \* the finished file cannot be renamed
   "fatal",     \* resolving a message fails
   "album",     \* the query for an album breaks off
   "cancel",    \* the user interrupts the run
   "kill"}      \* the process is killed

AllModes ==
  {"continue",  \* --continue, or the user says yes
   "fresh",     \* the user says no
   "restart"}   \* --restart

ASSUME DownloadAssumption ==
  /\ Msgs \subseteq Nat /\ Files \subseteq Msgs /\ Deletable \subseteq Msgs
  /\ Dialogs \in Seq(Seq(Msgs)) /\ Groups \subseteq BOOLEAN
  /\ Modes \subseteq AllModes /\ Events \subseteq AllEvents
  /\ \A a \in Albums : a \subseteq Msgs /\ IsFiniteSet(a)
  /\ \A a, b \in Albums : a # b => a \cap b = {} \* a message has one grouped_id
  /\ Limit \in Nat \ {0} /\ MaxRuns \in Nat

\* (An operator "wrong on purpose" stands in for the next one when the properties are
\* put to the test.)

VARIABLES
  alive,       \* messages on the server
  tmp,         \* content of the file <name>.tmp: "none", "part" or "full"
  final,       \* content of the file <name>
  kv,          \* value of the resume key: the finished positions; {} if there is no key
  runs, phase, \* runs started, and where the main goroutine stands
  canceled,    \* the run's context is done
  group, mode, \* the --group flag, and how the run treats the resume key
  panicked,    \* the main goroutine runs deferred calls only, and the process crashes
  di, mi,      \* iter.dialogIndex, iter.messageIndex (from 1)
  lpos,        \* iter.logicalPos
  finished,    \* iter.finished
  elems,       \* iter.elem, the channel of elements not yet taken
  ierr,        \* iter.err is set
  jobs,        \* the goroutines: the element, and where each stands
  gerr,        \* a job has returned an error
  active,      \* positions whose progress tracker is neither done nor errored
  issued,      \* elements made in this run (history)
  skipped,     \* messages passed over in this run as finished (history)
  cleared,     \* the last run has removed the resume key at its end (history)
  spoiled,     \* messages whose download failed, or was begun again by --restart
               \* while the resume key still had them (history)
  short        \* messages missing in the answer for their album, since there was
               \* last no resume key at the start of a run (history)

disk     == <<tmp, final>>
position == <<di, mi, lpos>>
runVars  == <<runs, group, mode, panicked>>
history  == <<issued, skipped, cleared, spoiled, short>>
vars     == <<alive, disk, kv, runVars, phase, canceled, position, finished, elems,
              ierr, jobs, gerr, active, history>>

Contents == {"none", "part", "full"}
Phases   == {"off", "next", "value", "ended", "progwait", "save", "exit"}
Steps    == {"new", "run", "done", "finish"}

Listed     == UNION {Range(Dialogs[d]) : d \in DOMAIN Dialogs}
\* The messages the iterator gets to: those before the first empty dialog.
Reached    == UNION {Range(Dialogs[d]) : d \in
                 {e \in DOMAIN Dialogs : \A f \in 1..e : Dialogs[f] # <<>>}}
Elems      == [msg : Msgs, pos : Nat]
AlbumOf(m) == UNION {a \in Albums : m \in a}
\* With --group, whole albums.
WithAlbums(ms) == ms \union (IF group THEN UNION {AlbumOf(m) : m \in ms} ELSE {})

Init ==
  /\ alive = Msgs
  /\ tmp = [m \in Msgs |-> "none"] /\ final = [m \in Msgs |-> "none"]
  /\ kv = {} /\ runs = 0 /\ phase = "off" /\ canceled = FALSE
  /\ group = FALSE /\ mode = "fresh" /\ panicked = FALSE
  /\ di = 1 /\ mi = 1 /\ lpos = 0 /\ finished = {} /\ elems = <<>> /\ ierr = FALSE
  /\ jobs = {} /\ gerr = FALSE /\ active = {}
  /\ issued = {} /\ skipped = {} /\ cleared = FALSE /\ spoiled = {} /\ short = {}

-----------------------------------------------------------------------------
(* A run begins: newIter and resume.                                       *)

\* Wrong on purpose: the progress is read, but SetFinished is forgotten.
ResumedNothing(md) == [key |-> IF md = "fresh" THEN {} ELSE kv, done |-> {}]
\* What resume leaves in the key and puts in iter.finished.
Resumed(md) == [key  |-> IF md = "fresh" THEN {} ELSE kv,
                done |-> IF md = "continue" THEN kv ELSE {}]

Start(g, md) ==
  /\ phase = "off" /\ runs < MaxRuns
  /\ runs' = runs + 1 /\ group' = g /\ mode' = md /\ panicked' = FALSE /\ phase' = "next"
  /\ kv' = Resumed(md).key /\ finished' = Resumed(md).done
  /\ di' = 1 /\ mi' = 1 /\ lpos' = 0 /\ elems' = <<>> /\ ierr' = FALSE
  /\ jobs' = {} /\ gerr' = FALSE /\ active' = {} /\ canceled' = FALSE
  /\ issued' = {} /\ skipped' = {} /\ cleared' = FALSE
  /\ short' = (IF Resumed(md).key = {} THEN {} ELSE short)
  /\ UNCHANGED <<alive, disk, spoiled>>

-----------------------------------------------------------------------------
(* The iterator: Next and process, for the message at (di, mi).            *)

GroupDone == canceled \/ gerr                    \* wgctx is done
AtEnd     == di \in DOMAIN Dialogs => mi > Len(Dialogs[di])
Current   == Dialogs[di][mi]
Iterating == phase = "next" /\ ~GroupDone /\ elems = <<>> /\ ~AtEnd
\* The server has nothing of the chat up to the message.
HistoryEmpty(m) == \A k \in alive : k > m \/ Chat[k] # Chat[m]

\* The deferred increment: the next message, or the first of the next dialog.
StepOn ==
  IF mi < Len(Dialogs[di]) THEN di' = di /\ mi' = mi + 1 ELSE di' = di + 1 /\ mi' = 1

\* Wrong on purpose: an album counts as one message.
MovesOne(grouped, n) == 1
\* How far the logical position moves past a resolved message, n elements of an album.
Moves(grouped, n) == IF grouped THEN n ELSE 1

NextCanceled ==
  /\ phase = "next" /\ GroupDone
  /\ ierr' = TRUE /\ phase' = "ended"
  /\ UNCHANGED <<alive, disk, kv, runVars, canceled, position, finished, elems, jobs, gerr,
                 active, history>>

\* Elements of an album are still in the channel.
NextBuffered ==
  /\ phase = "next" /\ ~GroupDone /\ elems # <<>>
  /\ phase' = "value"
  /\ UNCHANGED <<alive, disk, kv, runVars, canceled, position, finished, elems, ierr, jobs,
                 gerr, active, history>>

\* An empty dialog ends the iteration too, whatever comes after it.
NextEnds ==
  /\ phase = "next" /\ ~GroupDone /\ elems = <<>> /\ AtEnd
  /\ phase' = "ended"
  /\ UNCHANGED <<alive, disk, kv, runVars, canceled, position, finished, elems, ierr, jobs,
                 gerr, active, history>>

\* What the query for a message is answered with is older: the message is deleted.  Or
\* nothing is left up to the message, but its position is finished.
SkipDeleted ==
  /\ Iterating /\ Current \notin alive
  /\ HistoryEmpty(Current) => lpos \in finished
  /\ skipped' = skipped \union (IF HistoryEmpty(Current) THEN {Current} ELSE {})
  /\ lpos' = lpos + 1 /\ StepOn
  /\ UNCHANGED <<alive, disk, kv, runVars, phase, canceled, finished, elems, ierr, jobs, gerr,
                 active, issued, cleared, spoiled, short>>

\* Nothing is left up to the message: GetSingleMessage returns neither a message nor an
\* error, and process takes what it returns for a message.  Of Run only the deferred calls
\* are still made.
NextPanics ==
  /\ Iterating /\ Current \notin alive /\ HistoryEmpty(Current) /\ lpos \notin finished
  /\ panicked' = TRUE /\ phase' = "progwait" /\ StepOn
  /\ UNCHANGED <<alive, disk, kv, runs, group, mode, canceled, lpos, finished, elems, ierr, jobs,
                 gerr, active, history>>

\* The messages that the one at (di, mi) stands for.
Grouped == group /\ AlbumOf(Current) # {}
Stands  == IF Grouped THEN AlbumOf(Current) \cap alive ELSE {Current}
\* What they are taken to be: GetGroupedMessages drops an error of its query, which reads
\* the newest messages first.
Answers == {Stands} \union (IF Grouped /\ "album" \in Events
                           THEN {{m \in Stands : m > k} : k \in Stands} ELSE {})

\* The elements that are made of an answer, in order, with their positions.
Members(A) == Ascending(A)
\* Wrong on purpose: the messages of an album share a position.
NumberedAlike(A) == [k \in DOMAIN Members(A) |-> [msg |-> Members(A)[k], pos |-> lpos]]
Numbered(A) == [k \in DOMAIN Members(A) |-> [msg |-> Members(A)[k], pos |-> lpos + k - 1]]
NotYet(e) == e.pos \notin finished
Wanted(e) == NotYet(e) /\ e.msg \in Files
Fresh(A)  == Only(Numbered(A), {k \in DOMAIN Numbered(A) : Wanted(Numbered(A)[k])})
\* Wrong on purpose: elements that are passed over count as well.
HasValidAny(new) == TRUE
HasValid(new) == new # <<>>

\* processSingle has created the .tmp file of each of these elements.
Create(new) ==
  LET ms == {e.msg : e \in Range(new)} IN
  /\ elems' = new
  /\ tmp' = [m \in Msgs |-> IF m \in ms THEN "part" ELSE tmp[m]]
  /\ issued' = issued \union Range(new)
  /\ spoiled' = spoiled \union {e.msg : e \in {f \in Range(new) : f.pos \in kv}}

\* process: a single message, or with --group the album it is in.  Elements that are
\* finished, or that are no media the filters let through, are passed over; if
\* there is no other, Next goes on with the next message.
Process ==
  /\ Iterating /\ Current \in alive
  /\ \E A \in Answers :
       /\ Create(Fresh(A))
       /\ skipped' = skipped \union {e.msg : e \in {f \in Range(Numbered(A)) : ~NotYet(f)}}
       /\ lpos' = lpos + Moves(Grouped, Len(Members(A)))
       /\ phase' = IF HasValid(Fresh(A)) THEN "value" ELSE "next"
       /\ short' = short \union (Stands \ A)
  /\ StepOn
  /\ UNCHANGED <<alive, final, kv, runVars, canceled, finished, ierr, jobs, gerr, active,
                 cleared>>

\* Resolving the message or its dialog fails, or a file, when elements of the album that
\* were made before stay in the channel, and nobody takes them.  (Nothing reads lpos again.)
ProcessFails ==
  /\ Iterating /\ "fatal" \in Events
  /\ \/ Create(<<>>) /\ UNCHANGED short
     \/ /\ Grouped /\ Current \in alive
        /\ \E A \in Answers : \E k \in 1..Len(Fresh(A)) - 1 : Create(SubSeq(Fresh(A), 1, k))
                                                         /\ short' = short \union (Stands \ A)
  /\ StepOn
  /\ ierr' = TRUE /\ phase' = "ended"
  /\ UNCHANGED <<alive, final, kv, runVars, canceled, lpos, finished, jobs, gerr, active,
                 skipped, cleared>>

-----------------------------------------------------------------------------
(* Downloader.Download: a job per element, Limit of them at a time.        *)

Value ==
  /\ phase = "value" /\ elems # <<>> /\ Cardinality(jobs) < Limit
  /\ jobs' = jobs \union {[elem |-> Head(elems), step |-> "new"]}
  /\ elems' = Tail(elems)
  /\ phase' = "next"
  /\ UNCHANGED <<alive, disk, kv, runVars, canceled, position, finished, ierr, gerr, active,
                 history>>

To(j, s) == jobs' = (jobs \ {j}) \union {[j EXCEPT !.step = s]}
Gone(j)  == jobs' = jobs \ {j}
mainVars == <<alive, kv, runVars, phase, canceled, position, elems, ierr, history>>

\* progress.OnAdd: the tracker is added.
OnAdd(j) ==
  /\ j.step = "new"
  /\ To(j, "run")
  /\ active' = active \union {j.elem.pos}
  /\ UNCHANGED <<mainVars, disk, finished, gerr>>

\* Wrong on purpose: the last part is not counted.
TrackerDoneLate(j) == active
\* The last OnDownload makes the tracker done: its value has reached its total.
TrackerDone(j) == active \ {j.elem.pos}

Downloaded(j) ==
  /\ j.step = "run"
  /\ To(j, "done")
  /\ tmp' = [tmp EXCEPT ![j.elem.msg] = "full"]
  /\ active' = TrackerDone(j)
  /\ UNCHANGED <<mainVars, final, finished, gerr>>

\* An error other than cancellation is logged and the job returns nil: OnDone gets no
\* error, and the tracker stays where it was.
DownloadFails(j) ==
  /\ j.step = "run" /\ "download" \in Events
  /\ To(j, "done")
  /\ spoiled' = spoiled \union {j.elem.msg}
  /\ UNCHANGED <<alive, disk, kv, runVars, phase, canceled, position, elems, ierr, finished,
                 gerr, active, issued, skipped, cleared, short>>

\* OnDone with context.Canceled: the file is removed, the error ends the other jobs.
DownloadCanceled(j) ==
  /\ j.step = "run" /\ GroupDone
  /\ Gone(j) /\ gerr' = TRUE
  /\ tmp' = [tmp EXCEPT ![j.elem.msg] = "none"]
  /\ UNCHANGED <<mainVars, final, finished, active>>

\* OnDone without an error: the position is finished before the file is renamed.
Finish(j) ==
  /\ j.step = "done"
  /\ To(j, "finish")
  /\ finished' = finished \union {j.elem.pos}
  /\ UNCHANGED <<mainVars, disk, gerr, active>>

Rename(j) ==
  /\ j.step = "finish" /\ tmp[j.elem.msg] # "none"
  /\ Gone(j)
  /\ final' = [final EXCEPT ![j.elem.msg] = tmp[j.elem.msg]]
  /\ tmp' = [tmp EXCEPT ![j.elem.msg] = "none"]
  /\ UNCHANGED <<mainVars, finished, gerr, active>>

\* progress.fail: the tracker is marked as errored.  (The file can be missing only when
\* another job has the same message.)
RenameFails(j) ==
  /\ j.step = "finish" /\ ("rename" \in Events \/ tmp[j.elem.msg] = "none")
  /\ Gone(j)
  /\ active' = active \ {j.elem.pos}
  /\ UNCHANGED <<mainVars, disk, finished, gerr>>

-----------------------------------------------------------------------------
(* The end of a run, in the order of the deferred calls of Run.            *)

\* An error of the iterator returns at once, and leaves the jobs running.
WaitsForJobs == ~ierr

DownloadReturns ==
  /\ phase = "ended" /\ (WaitsForJobs => jobs = {})
  /\ phase' = "progwait"
  /\ UNCHANGED <<alive, disk, kv, runVars, canceled, position, finished, elems, ierr, jobs,
                 gerr, active, history>>

ProgressWait ==
  /\ phase = "progwait" /\ (canceled \/ active = {})
  /\ phase' = "save"
  /\ UNCHANGED <<alive, disk, kv, runVars, canceled, position, finished, elems, ierr, jobs,
                 gerr, active, history>>

\* Wrong on purpose: an error of the iterator is taken for the end of the messages.
InterruptedByJob == gerr /\ ~panicked
\* The error that Run returns, if it does: in a panic there is none.
Interrupted == (ierr \/ gerr) /\ ~panicked
\* What is left in the resume key: nothing when the run is taken to be complete.
Saved(interrupted) == IF interrupted THEN finished ELSE {}

SaveProgress ==
  /\ phase = "save"
  /\ kv' = Saved(Interrupted) /\ cleared' = ~Interrupted
  /\ phase' = "exit"
  /\ UNCHANGED <<alive, disk, runVars, canceled, position, finished, elems, ierr, jobs, gerr,
                 active, issued, skipped, spoiled, short>>

\* The process is gone, with its memory and its jobs, wherever they stand.
Over ==
  /\ phase' = "off"
  /\ di' = 1 /\ mi' = 1 /\ lpos' = 0 /\ elems' = <<>> /\ ierr' = FALSE /\ finished' = {}
  /\ jobs' = {} /\ gerr' = FALSE /\ active' = {} /\ canceled' = FALSE
  /\ issued' = {} /\ skipped' = {}
  /\ UNCHANGED <<alive, disk, kv, runVars, cleared, spoiled, short>>

Exit == phase = "exit" /\ Over
Kill == phase # "off" /\ "kill" \in Events /\ Over

Cancel ==
  /\ phase # "off" /\ ~canceled /\ "cancel" \in Events
  /\ canceled' = TRUE
  /\ UNCHANGED <<alive, disk, kv, runVars, phase, position, finished, elems, ierr, jobs, gerr,
                 active, history>>

DeleteMessage(m) ==
  /\ m \in alive
  /\ alive' = alive \ {m}
  /\ UNCHANGED <<disk, kv, runVars, phase, canceled, position, finished, elems, ierr, jobs, gerr,
                 active, history>>

-----------------------------------------------------------------------------
Main == NextCanceled \/ NextBuffered \/ NextEnds \/ SkipDeleted \/ NextPanics \/ Process
          \/ ProcessFails \/ Value \/ DownloadReturns \/ ProgressWait \/ SaveProgress \/ Exit
Job(j) == OnAdd(j) \/ Downloaded(j) \/ DownloadFails(j) \/ DownloadCanceled(j) \/ Finish(j)
            \/ Rename(j) \/ RenameFails(j)
Environment == Kill \/ Cancel \/ \E m \in Deletable : DeleteMessage(m)

Next == \/ \E g \in Groups, md \in Modes : Start(g, md)
        \/ Main \/ Environment
        \/ \E j \in jobs : Job(j)

Spec == Init /\ [][Next]_vars

\* The goroutines of a run are scheduled, and a download that has begun ends in one way or
\* another: the client's calls return, at the latest when they are canceled.
FairSpec == Spec /\ WF_vars(Main) /\ WF_vars(\E j \in jobs : Job(j))

-----------------------------------------------------------------------------
TypeOK ==
  /\ alive \subseteq Msgs /\ skipped \subseteq Msgs /\ spoiled \subseteq Msgs
  /\ short \subseteq Msgs
  /\ tmp \in [Msgs -> Contents] /\ final \in [Msgs -> Contents]
  /\ kv \in SUBSET Nat /\ finished \in SUBSET Nat /\ active \in SUBSET Nat
  /\ runs \in 0..MaxRuns /\ phase \in Phases /\ mode \in AllModes
  /\ {canceled, group, panicked, ierr, gerr, cleared} \subseteq BOOLEAN
  /\ di \in 1..Len(Dialogs) + 1 /\ mi \in Nat \ {0} /\ lpos \in Nat
  /\ elems \in Seq(Elems) /\ issued \in SUBSET Elems
  /\ phase = "value" => elems # <<>>
  /\ jobs \in SUBSET [elem : Elems, step : Steps] /\ Cardinality(jobs) =< Limit

Complete(m) == final[m] = "full" \/ tmp[m] = "full"

\* The iterator's position counts on what is asked for and on the server staying as it
\* is: the --group flag is the same in all runs, nothing of an album that is downloaded
\* as one is deleted, and no message is asked for twice.
WithG     == TRUE \in Groups
Covers(m) == IF WithG /\ AlbumOf(m) # {} THEN AlbumOf(m) ELSE {m}

Steady ==
  /\ Groups # BOOLEAN
  /\ WithG => \A a \in Albums : a \cap Deletable = {}
  /\ \A d, e \in DOMAIN Dialogs : \A i \in DOMAIN Dialogs[d], k \in DOMAIN Dialogs[e] :
       Covers(Dialogs[d][i]) \cap Covers(Dialogs[e][k]) # {} => d = e /\ i = k

\* A run passes over a message as finished only if an earlier run has downloaded all of
\* it: the resume key and the positions a later run computes agree (resume, process,
\* Finish), where the setting is steady, and as long as no answer for an album has been
\* short since there was last no progress: then all positions behind the album are others.
\* The file may still have its .tmp name, as Finish comes before the rename.  Excepted are
\* messages a failed download or --restart has spoiled.
ResumeSkipsOnlyDownloaded == short = {} => \A m \in skipped \ spoiled : Complete(m)

\* When the resume key is removed at the end of a run, the download is over: every
\* message asked for that is on the server and has wanted media is downloaded
\* (deferred function of Run), but for the spoiled ones and those behind an empty
\* dialog (an export without media, say), at which the iteration ends.  The key is removed
\* too by a run that panics, and by one that was not told all of an album.
ClearedMeansDone ==
  cleared /\ ~panicked /\ short = {} =>
    \A m \in (WithAlbums(Reached) \cap alive \cap Files) \ spoiled : Complete(m)

\* No two elements of a run have one position: marking one as finished never marks
\* another (processSingle, processGrouped).
PositionsDistinct == \A e, f \in issued : e.pos = f.pos => e = f

\* What a --continue run saves when it is interrupted includes what it was resumed with:
\* no progress is lost by continuing (resume, saveProgress).
ContinuingLosesNothing ==
  [][phase = "save" /\ mode = "continue" /\ ~cleared' => kv \subseteq kv']_vars

\* Every run ends, whatever the server deletes and whenever the user interrupts it: the
\* waits for jobs, for their limit and for the progress bars all end.  A message that
\* was spoiled may have left a tracker that is never done.
RunEnds == (phase # "off") ~> (phase = "off" \/ spoiled # {})

-----------------------------------------------------------------------------
(* Not so in this code.                                                    *)

\* "if finished, we should clear resume key" (dl.go:95): a key removed means that all
\* files are there, under their names.  But a failed download counts as finished.
ClearedMeansAllThere ==
  cleared => \A m \in WithAlbums(Listed) \cap alive \cap Files : final[m] = "full"
===============================================================================
