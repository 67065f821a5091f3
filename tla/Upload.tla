-------------------------------- MODULE Upload --------------------------------
(***************************************************************************)
(* tdl up: the files found under the paths given (app/up/walk.go) are sent *)
(* to a chat, at most Limit at a time (core/uploader), each with a         *)
(* progress bar, and with --rm they are removed (app/up).  The main        *)
(* goroutine opens the files one by one; each is uploaded by a job of its  *)
(* own.  Any call may fail, and the user may interrupt the run.            *)
(***************************************************************************)
EXTENDS Naturals, Sequences, FiniteSets, Functions

CONSTANTS
  Tree,               \* for each path given, the files WalkDir visits under it
  Ext,                \* their extensions
  Includes, Excludes, \* extensions
  ThumbName,          \* for a file, the name its thumbnail is looked for under
  Limit, Rm,      \* flags
  UpEvents            \* (bound) what may go wrong

ASSUME UploadAssumption ==
  /\ Tree \in Seq(Seq(DOMAIN Ext))
  /\ Limit \in Nat \ {0} /\ Rm \in BOOLEAN
  /\ UpEvents \subseteq {"open", "resolve", "upload", "send", "cancel"}

-----------------------------------------------------------------------------
(* walk.                                                                   *)

OnDisk == UNION {Range(Tree[p]) : p \in DOMAIN Tree}

\* A file that ends in .thumb is never uploaded itself.
Chosen(f) == /\ Includes = {} \/ Ext[f] \in Includes
             /\ Ext[f] \notin Excludes \union {"thumb"}

\* The files that are taken, each as the path given and its place under it.
Visits == UNION {{p} \X {i \in DOMAIN Tree[p] : Chosen(Tree[p][i])} : p \in DOMAIN Tree}
UpTo(v) == {u \in Visits : u[1] < v[1] \/ (u[1] = v[1] /\ u[2] =< v[2])}

\* What is uploaded, in order; a file under two of the paths comes twice.
Listed  == [k \in 1..Cardinality(Visits) |->
              LET v == CHOOSE v \in Visits : Cardinality(UpTo(v)) = k IN Tree[v[1]][v[2]]]
Entries == DOMAIN Listed
Path(e) == Listed[e]
\* The thumbnail: another file that must exist.
Thumbs(e) == {ThumbName[Path(e)]} \intersect OnDisk

-----------------------------------------------------------------------------
VARIABLES
  upMain,     \* where the main goroutine stands
  upCur,      \* files taken from the list
  upErr,      \* iter.err
  upCanceled, \* the user's context is done
  upGroupErr, \* a job has returned an error
  files,      \* the files that exist
  open,       \* entries whose files are open
  step,       \* where the job of an entry stands
  upOutcome,  \* how its upload ended
  bar,        \* its progress tracker
  tracked,    \* progress.trackers: for a file, the entry whose tracker it is
  uploaded,   \* entries whose message is in the chat (history)
  removed     \* entries whose job has removed their file (history)

upDisk == <<files, open>>
upJobs == <<step, upOutcome, bar, tracked>>
upHist == <<uploaded, removed>>
upVars == <<upMain, upCur, upErr, upCanceled, upGroupErr, upDisk, upJobs, upHist>>

UpInit ==
  /\ upMain = "next" /\ upCur = 0 /\ upErr = FALSE
  /\ upCanceled = FALSE /\ upGroupErr = FALSE
  /\ files = OnDisk /\ open = {}
  /\ step = [e \in Entries |-> "none"] /\ upOutcome = [e \in Entries |-> "none"]
  /\ bar = [e \in Entries |-> "none"] /\ tracked = [f \in OnDisk |-> 0]
  /\ uploaded = {} /\ removed = {}

\* wgctx is done.
UpHalted == upCanceled \/ upGroupErr
Running  == {e \in Entries : step[e] \notin {"none", "gone"}}

-----------------------------------------------------------------------------
(* The main goroutine: iter.Next and Uploader.Upload.                      *)

UpNextCanceled ==
  /\ upMain = "next" /\ UpHalted
  /\ upErr' = TRUE /\ upMain' = "prog"
  /\ UNCHANGED <<upCur, upCanceled, upGroupErr, upDisk, upJobs, upHist>>

UpNextEnds ==
  /\ upMain = "next" /\ ~UpHalted /\ upCur = Len(Listed)
  /\ upMain' = "wait"
  /\ UNCHANGED <<upCur, upErr, upCanceled, upGroupErr, upDisk, upJobs, upHist>>

UpNext ==
  /\ upMain = "next" /\ ~UpHalted /\ upCur < Len(Listed)
  /\ Path(upCur + 1) \in files
  /\ upCur' = upCur + 1 /\ open' = open \union {upCur + 1} /\ upMain' = "go"
  /\ UNCHANGED <<upErr, upCanceled, upGroupErr, files, upJobs, upHist>>

\* The file cannot be opened, be it that a job before has removed it; or it can, but its
\* destination, caption or thumbnail cannot be resolved, and it stays open.  Upload
\* returns the error without waiting for the jobs.
UpNextFails ==
  /\ upMain = "next" /\ ~UpHalted /\ upCur < Len(Listed)
  /\ \/ /\ "open" \in UpEvents \/ Path(upCur + 1) \notin files
        /\ UNCHANGED open
     \/ /\ "resolve" \in UpEvents /\ Path(upCur + 1) \in files
        /\ open' = open \union {upCur + 1}
  /\ upCur' = upCur + 1 /\ upErr' = TRUE /\ upMain' = "prog"
  /\ UNCHANGED <<upCanceled, upGroupErr, files, upJobs, upHist>>

\* Wrong on purpose: one job too many.
SlotFreeOffByOne == Cardinality(Running) =< Limit
SlotFree == Cardinality(Running) < Limit

\* wg.Go waits for a free slot.
UpGo ==
  /\ upMain = "go" /\ SlotFree
  /\ step' = [step EXCEPT ![upCur] = "new"] /\ upMain' = "next"
  /\ UNCHANGED <<upCur, upErr, upCanceled, upGroupErr, upDisk, upOutcome, bar, tracked, upHist>>

\* Wrong on purpose: Upload returns without waiting for the jobs.
JobsAwaitedNot == TRUE
JobsAwaited == Running = {}

UpWait ==
  /\ upMain = "wait" /\ JobsAwaited
  /\ upMain' = "prog"
  /\ UNCHANGED <<upCur, upErr, upCanceled, upGroupErr, upDisk, upJobs, upHist>>

\* prog.Wait: no bar is active, or the user has interrupted.
UpProgWait ==
  /\ upMain = "prog"
  /\ upCanceled \/ \A e \in Entries : bar[e] # "active"
  /\ upMain' = "close"
  /\ UNCHANGED <<upCur, upErr, upCanceled, upGroupErr, upDisk, upJobs, upHist>>

\* The pool is closed and the process ends, whatever its jobs are doing.
UpExit ==
  /\ upMain = "close"
  /\ upMain' = "exit"
  /\ UNCHANGED <<upCur, upErr, upCanceled, upGroupErr, upDisk, upJobs, upHist>>

UpCancel ==
  /\ upMain # "exit" /\ ~upCanceled /\ "cancel" \in UpEvents
  /\ upCanceled' = TRUE
  /\ UNCHANGED <<upMain, upCur, upErr, upGroupErr, upDisk, upJobs, upHist>>

-----------------------------------------------------------------------------
(* A job: OnAdd, upload, OnDone.                                           *)

At(e, s)     == step[e] = s /\ upMain # "exit"
To(e, s)     == step' = [step EXCEPT ![e] = s]
Ended(e, how) == To(e, "end") /\ upOutcome' = [upOutcome EXCEPT ![e] = how]
upOthers     == <<upMain, upCur, upErr, upCanceled>>

\* The tracker is kept under the name of the file and the chat.
UpOnAdd(e) ==
  /\ At(e, "new")
  /\ To(e, "check")
  /\ bar' = [bar EXCEPT ![e] = "active"] /\ tracked' = [tracked EXCEPT ![Path(e)] = e]
  /\ UNCHANGED <<upOthers, upGroupErr, upDisk, upOutcome, upHist>>

Check(e) ==
  /\ At(e, "check") /\ ~UpHalted
  /\ To(e, "file")
  /\ UNCHANGED <<upOthers, upGroupErr, upDisk, upOutcome, bar, tracked, upHist>>

\* Wrong on purpose: the last part is not reported.
FullBarLate(b) == b
\* The last OnUpload completes the tracker.
FullBar(b) == IF b = "active" THEN "done" ELSE b

UploadFile(e) ==
  /\ At(e, "file")
  /\ To(e, "send")
  /\ bar' = [bar EXCEPT ![tracked[Path(e)]] = FullBar(@)]
  /\ UNCHANGED <<upOthers, upGroupErr, upDisk, upOutcome, tracked, upHist>>

\* A thumbnail that cannot be uploaded is left out.
SendMedia(e) ==
  /\ At(e, "send")
  /\ Ended(e, "sent") /\ uploaded' = uploaded \union {e}
  /\ UNCHANGED <<upOthers, upGroupErr, upDisk, bar, tracked, removed>>

\* Any error but a cancellation is dropped: the job returns nil.
JobFails(e) ==
  /\ \/ At(e, "file") /\ "upload" \in UpEvents
     \/ At(e, "send") /\ "send" \in UpEvents
  /\ Ended(e, "failed")
  /\ UNCHANGED <<upOthers, upGroupErr, upDisk, bar, tracked, upHist>>

JobCanceled(e) ==
  /\ At(e, "check") \/ At(e, "file") \/ At(e, "send")
  /\ UpHalted
  /\ Ended(e, "canceled")
  /\ UNCHANGED <<upOthers, upGroupErr, upDisk, bar, tracked, upHist>>

\* OnDone closes the files, and without an error removes the one uploaded.  The tracker
\* is marked as errored if there is an error or the file is gone already.
UpOnDone(e) ==
  LET wants  == Rm /\ upOutcome[e] # "canceled"
      errs   == upOutcome[e] = "canceled" \/ (wants /\ Path(e) \notin files)
  IN
  /\ At(e, "end")
  /\ To(e, "gone") /\ open' = open \ {e}
  /\ files' = (IF wants THEN files \ {Path(e)} ELSE files)
  /\ removed' = removed \union (IF wants /\ ~errs THEN {e} ELSE {})
  /\ bar' = IF errs THEN [bar EXCEPT ![tracked[Path(e)]] =
                            IF @ = "active" THEN "errored" ELSE @] ELSE bar
  /\ upGroupErr' = (upGroupErr \/ upOutcome[e] = "canceled")
  /\ UNCHANGED <<upOthers, upOutcome, tracked, uploaded>>

-----------------------------------------------------------------------------
UpJob(e) == \/ UpOnAdd(e) \/ Check(e) \/ UploadFile(e) \/ SendMedia(e)
            \/ JobFails(e) \/ JobCanceled(e) \/ UpOnDone(e)
UpMainSteps == \/ UpNextCanceled \/ UpNextEnds \/ UpNext \/ UpNextFails \/ UpGo
               \/ UpWait \/ UpProgWait \/ UpExit

UpSteps == UpMainSteps \/ UpCancel \/ \E e \in Entries : UpJob(e)

UpSpec == UpInit /\ [][UpSteps]_upVars

\* The goroutines run on, and the calls to the server return.
UpFairSpec == UpSpec /\ WF_upVars(UpMainSteps) /\ \A e \in Entries : WF_upVars(UpJob(e))

-----------------------------------------------------------------------------
\* The types; and at most Limit jobs run at once (SetLimit).
UpTypeOK ==
  /\ upMain \in {"next", "go", "wait", "prog", "close", "exit"} /\ upCur \in 0..Len(Listed)
  /\ {upErr, upCanceled, upGroupErr} \subseteq BOOLEAN
  /\ files \subseteq OnDisk /\ open \subseteq Entries
  /\ step \in [Entries -> {"none", "new", "check", "file", "send", "end", "gone"}]
  /\ upOutcome \in [Entries -> {"none", "sent", "failed", "canceled"}]
  /\ bar \in [Entries -> {"none", "active", "done", "errored"}]
  /\ tracked \in [OnDisk -> Entries \union {0}]
  /\ uploaded \subseteq Entries /\ removed \subseteq Entries
  /\ Cardinality(Running) =< Limit

\* A run that ends without an error of the iterator has tried every file, and has closed
\* what it opened: Upload waits for its jobs, and OnDone closes the files of each.
AllTried ==
  upMain \in {"prog", "close", "exit"} /\ ~upErr =>
    (\A e \in Entries : step[e] = "gone") /\ open = {}

\* A run ends, unless prog.Wait waits for a bar that nobody completes: that of a file
\* whose upload failed on the way, or that was listed twice and was uploaded twice at once.
UploadEnds ==
  <>(\/ upMain = "exit"
     \/ \E e \in Entries : /\ bar[e] = "active"
                           /\ upOutcome[e] = "failed" \/ tracked[Path(e)] # e)

-----------------------------------------------------------------------------
(* Not so in this code.                                                    *)

\* "remove the uploaded files after uploading" (cmd/up.go:48): a file that is removed has
\* been uploaded.
RemovedWereUploaded == removed \subseteq uploaded
===============================================================================
