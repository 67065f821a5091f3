# Formal model of tdl and its WebUI

TLA+ modules that model the parts of `tdl` in which steps of several goroutines,
processes or runs meet, TLC configurations that check them on small instances, and
proofs, checked by TLAPS, that the central invariants hold for all values of the
constants. Paths below are relative to `src/`.

## 1. Inventory

`tdl` is a command line program: one process per command. `tdl webui` is a server that
runs other `tdl` processes. All share a key-value storage, by default a bolt database
that one process at a time can open.

| component | source | state | operations | meets | hard | correct if |
|---|---|---|---|---|---|---|
| WebUI tasks | `app/webui/webui.go`, `task.go`, `exec.go` | `Manager.tasks`, `Server.queue`, `Server.running`, the fields of each `*Task` | POST, GET, DELETE, worker, `CancelAll` | child processes; the broker; handlers share `*Task` without a lock | cancellation against the worker's progress, full queue, shutdown | children run one at a time, statuses are true, a cancellation is final and answered |
| WebUI events | `app/webui/sse.go`, `handleEvents`, `index.html` | `broker.subscribers`, channels, the page's list | subscribe, publish, unsubscribe | every goroutine that changes a task | slow pages, reconnects, late answers | no send on a closed channel; a page converges |
| Download | `app/dl`, `core/downloader`, `pkg/prog` | the iterator's positions, `finished`, trackers, `.tmp` files, the resume key | `Next`, `Value`, `OnAdd`/`OnDownload`/`OnDone`, `resume`, `saveProgress` | jobs under an errgroup; Telegram; the disk; the next run | deletion between runs, failure, interruption, a kill between two steps | resuming skips only what is downloaded; runs end |
| DC pool | `core/dcpool`, `core/middlewares/takeout` | `invokers`, `closes`, `takeout`, the mutex | `Client`, `Takeout`, `Default`, `Close` | every job | mutex held over network calls, `Close` while jobs run | one connection per data center, nothing left open |
| Storage | `pkg/kv`, `core/storage` | a bolt database per namespace, or one JSON file; peers, session, update state in it | `Open`, `Get`, `Set`, `Delete` | all processes and goroutines | a write of the file is cut by truncation; read and write under two locks; a database one process can open | a namespace is a map |
| Migration, backup | `cmd/root.go`, `app/migrate` | two storages, a backup file | the automatic move from the legacy driver, backup, recover, migrate | storage | crash half way, another process beside it | nothing is lost |
| Uploader | `core/uploader`, `app/up` | the file list, open files, trackers, files removed with `--rm` | walk, `Next`, jobs, `OnAdd`/`OnDone` | Telegram, the disk | failed upload, a file listed twice | every file is tried, a file is removed only when it is uploaded |
| Forwarder | `core/forwarder`, `app/forward` | `sent`, the iterator, trackers | direct, clone, album, dry run | Telegram through the middlewares | albums met once per message, fallback after a lost answer | every message arrives once, and what is reported is so |
| Middlewares | `core/middlewares/retry`, `recovery`, `core/tclient` | the request, tries, a backoff | `Handle` | every request | a request repeated that was already acted on | bounded, ends with the context |
| Message sources | `pkg/tmessage`, `core/util/tutil` | none | parse links and exported files, look up messages and albums | download, forward | errors that are dropped | same messages as the source names |
| Extensions | `pkg/extensions`, `app/extension`, `extension` | a directory per extension: binary or script, manifest | install, upgrade, remove, list, dispatch | GitHub, child processes | failure or kill between two files | a manifest is true of the binary beside it |
| Chat tools | `app/chat` | pages fetched, `seen`, `offset`; the ranges of an export | `ls`, `export`, `users` | Telegram, an output file | the list is reordered while it is paged; inclusive bounds made offsets | every dialog once, every message of the range |
| Self update | `app/update` | archive, staged binary, executable, its backup | fetch, verify, stage, replace | GitHub, the disk | failure or kill between two renames | a whole executable is left |
| Login, utilities | `app/login`, `core/tmedia`, `pkg/*` | a session | log in, parse | Telegram | little | |

How they interact: the page posts tasks, the server's worker starts `tdl download`,
`upload` or `forward` as a child and waits for it; the child opens the storage, builds
a DC pool with the middlewares around each request, and runs its iterator, its
transfer loop (an errgroup of jobs) and its progress callbacks; what the child prints
comes back as events. A child that does not end holds the worker, and with it all
tasks behind it: that is why the properties on the ends of runs (`RunEnds`,
`CallsReturn`) matter to the server.

The hazards, each at its line with the properties that watch it, are listed in
`PROJECT.json`.

## 2. Plan

Done, in this order: `WebuiTasks`, `EventStream`, `Download`, `DCPool`; then `Storage` with
the abstract `KV` it implements, `Upload`, `Invoke` and `Forward` on top of it,
`ChatTools`, `Extensions`, `SelfUpdate`, and `Commands`, which puts the last five together
as the program does. Every safety and action property of a run is proved. To come, in the
order of weight:

1. Composition: `Download` over `DCPool`: the early return of `Downloader.Download`
   meeting `Close`; an abstract "set of downloaded messages" that `Download` implements.
2. `core/storage/state.go`: read-modify-write of the update state on top of `Storage`.
3. `app/dl/serve.go`, the `migrate` command, the export of threads and replies.
4. Pure functions against reference definitions: progress lines, message links, thread
   levels, argument lists, filters.
5. Proofs about what comes: the abstract specification of `Download`, and safety of the
   compositions.

## 3. Modules

| module | models | kind |
|---|---|---|
| `WebuiTasks` | the life of tasks in the server | specification |
| `MCWebuiTasks` | instances, symmetry | TLC |
| `WebuiTasks_proofs` | type, safety and action properties | TLAPS |
| `EventStream` | broker, `/api/events`, the page | specification |
| `EventStream_proofs` | type, safety | TLAPS |
| `Download` | several runs of `tdl download` | specification |
| `MCDownload` | the messages of the instances | TLC |
| `Download_proofs` | type, safety over several runs, an action property | TLAPS |
| `DCPool` | the connections pool | specification |
| `DCPool_proofs` | type, safety | TLAPS |
| `KV` | what a storage promises: a map | abstract specification |
| `Storage` | the bolt and file drivers, migration, backup, recover | specification, refines `KV` |
| `Storage_proofs` | type, calls within a process never fail, the refinement of `KV` | TLAPS |
| `Upload`, `MCUpload` | a run of `tdl up`; the files of the instance | specification, TLC |
| `Upload_proofs` | type, safety | TLAPS |
| `Invoke` | one request through retry and recovery, and the server | component of `Forward` |
| `Forward` | a run of `tdl forward` | specification, extends `Invoke` |
| `ChatTools` | `tdl chat ls`, `export`, `users` | specification |
| `Extensions` | `tdl extension` and the extension directory | specification |
| `SelfUpdate` | `tdl update` | specification |
| `Commands`, `MCCommands` | the four above as the commands of the program; the instance | composition, TLC |
| `Commands_proofs` | type, safety of `Forward`, `ChatTools`, `Extensions`, `SelfUpdate`, and of the program | TLAPS |
| `Lists` | sorting and filtering of sequences, without recursion | operators |
| `Lists_proofs` | what they return; induction over the naturals | TLAPS |

Every specification has operators marked "wrong on purpose": each stands for the next
definition with a plausible mistake in it, and makes one of the properties fail. They
are not used by the specification; `PROJECT.json` ("mutants") says which breaks what.

### WebuiTasks

A task's `status` is `Task.Status`, "none" before `Manager.Add`. The handlers are
program counters: `post[t]` for the POST that creates `t`, `req[r]` for a DELETE, `wpc`
for the worker. An action is the code between two accesses to state that others write;
so `cancelTask`, which reads the status twice and later writes it, is `CancelCheck`,
`CancelBranch`, then `CancelMark` or `CancelLookup`, `CancelKill`, `CancelMark`. The
field is shared without a lock; the model takes single reads and writes as atomic and
leaves torn values out. `Server.mu` is held by one action, except in `CancelAll`, which
holds it over a loop: `MuFree`. `running` is the key set of the map, `ctxDone` says whose
cancel function was called, `child` is the process. `Runner.Build` either works or not.
Children end at any time, with success or not; a killed child ends with an error, and a
child outlives the server. `Exit` may come as soon as the shutdown has begun, as
`ListenAndServe` returns at once. Not in the model: GET requests (they change nothing),
authentication, the contents of logs and progress.

### EventStream

An event holds the `*Task`, and the task is marshalled when the event is *written*, so
a page sees the task as it is then. The state of a task is the number of times it was
changed (`version`), and `view` is the version a page shows. `Change` and `Publish` are
two steps of a goroutine, as in every place of the code that writes a task and then
publishes it. `Unsubscribe` and `Close` are two steps, since `unsubscribe` closes the
channel after it has left the mutex. `missed` remembers events dropped at a full
channel, `undone` tasks that an old answer has put back.

The page's list has three writers: events (`Shown`), the answer of its GET (`Refresh`
replaces the whole list) and, from `btn-create`, the answer of its POST (`ShowReply`). A
POST is served by a goroutine from `Post` (add, then publish, then perhaps a refusal,
`Change`) to `PostAnswer`, which marshals the task as it is by then; the answer, in `reply`,
may come after any number of newer events. An answer older than the task harms nothing
while something is to come that shows the task as it is (`ToCome`: an event on its way or
a turn in the snapshot); otherwise the task is `undone`. Both sets are ways in which the
code leaves a page wrong until the task's next event, and the properties except exactly
those.

### Download

`phase` is the main goroutine: `Next` of the iterator, `Value` with the wait for a free
slot (`SetLimit`), the end of the iteration, the wait for jobs (not done if the iterator
failed: `WaitsForJobs`), `prog.Wait`, the deferred save, the exit. `jobs` are the
goroutines: OnAdd, the download, then OnDone in two steps, `Finish` and `Rename`.
`finished`, `lpos`, `di`, `mi` and `elems` are the iterator's fields, `kv` is the resume
key, `tmp` and `final` the two files of a message by content. A failure that is not a
cancellation is `DownloadFails`: the job goes on to `Finish`, as the code does. `Kill`
ends the process in any state. Constants say what is asked for, which messages may be
deleted, and which events happen. One fingerprint is modelled: all runs ask for the same
messages. Left out: `--skip-same`, `--rewrite-ext`, names that collide, filters by
anything but the message, the takeout flag, errors of the storage.

What the server answers is not always what was asked for. `GetGroupedMessages` drops the
error of its query, so with `--group` an album may come short (`Answers`: the newest of
its messages, or none), and the logical position moves by the length of what came. A
deleted message is passed over when the query for it finds an older one of its `Chat`
(`SkipDeleted`); when it finds nothing (`HistoryEmpty`), `GetSingleMessage` returns neither
a message nor an error. If the position is finished that goes unnoticed, otherwise the
iterator dereferences nil (`NextPanics`): of `Run` only the deferred calls are still made,
`prog.Wait` and the save, which sees no error and removes the key.

`issued`, `skipped`, `cleared`, `spoiled` and `short` are history. `spoiled` names the two ways in
which a message may be incomplete though its position is in the resume key: its
download has failed, or `--restart`, which leaves the key alone, has begun it again and
was killed. `short` has the messages that were missing in an answer for their album since
a run last started without progress; as long as it is not empty, positions may mean other
messages than before.

### DCPool

`Lock` takes the mutex, `InitSession`, `GetNew` and `GetDegraded` are the calls under it.
A refused takeout session sends the goroutine back to `Lock` with the mutex in its
hands. `Close` runs in the main goroutine without the mutex, except for the Takeout
inside it; `early` says that it was called while jobs still run, which `Download` shows
to be possible.

### Storage and KV

`KV` is what the callers take a storage to be: one map, `Put` and `Get` at a stroke, the
end of a process at any point, a backup restored at once or key by key. A namespace is
reduced to one key; `Missing` is a namespace that is not there, `None` a key that is not.

`Storage` is the code. A thread is a process, or, with `shared`, a goroutine of the one
process that has the storage open, on either driver; on the file driver `mu` is then its
mutex. `pc` follows a process from
`Start` through the automatic migration (`OpenLegacy`, `MakeDir`, `ReadLegacy`, `CopyOne`
per namespace, in the order of the transactions) to a command: a namespace opened and used,
a backup or a recover. A write of the file driver is three steps: `PutFile` reads and
changes the contents in memory, `Truncate` and `Fill` are the two halves of
`os.WriteFile`, which a kill or another process can come between. bbolt's file lock is
`held`, and its one second timeout `TimesOut`: a failure that may come whenever somebody
else has the database. `Get` of bolt returns the memory of the database itself, which
bbolt lends for the transaction only: until the goroutine has parsed it (`Used`) it is in
`lent`, and a write of another one may make it `Garbled`. `Fail` collects the error returns; `Kill` ends a process, or all
goroutines of one, anywhere.

The refinement maps the map to what a user sees (`Shown`: the legacy database until the
move to bolt is over) and lets the promise lapse (`void`) where it is known to: `excuse`
says "interrupted" or "raced" for a migration that was killed or that another process ran
beside (the new directory exists, so it is never tried again), "overlap" for two writes of
the JSON file at once, "torn" for a kill between `Truncate` and `Fill`, "lent" for a value of bolt another
goroutine has written under. So `ImplementsKV` says that these five are the only ways in which
the storage is not the map.

### Upload

`upMain` is the main goroutine (iterator, slot, `Wait`, `prog.Wait`, exit), `step` the job
of each file: OnAdd, the check of the file, the upload of file and thumbnail, the message,
OnDone. `Listed` is what `walk` returns, a file under two of the paths twice; `tracked` is
the map of trackers, whose key is the path, so that the second entry takes the tracker of
the first. `uploaded` and `removed` are history. Captions, destinations and the kind of
media are only ways to fail.

### Invoke and Forward

`Invoke` is one request: `retry` repeats it on internal errors, `recovery` around it on
whatever is no answer of the server, always with the same random id; the server
(external) acts once per id, and its answer may be lost. `Forward` is the caller:
`fwPc` goes through `iter.Next`, the look-up of the album, the direct request, the fallback
to a copy, and the deferred marking of the album as sent (`Done`), also after a failure.
The goroutine that copies media is reduced to which of the batch could not be copied.
`doubt` (arrived though the request ended in an error), `dropped` (left out of a copied
album) and `apart` (album once not found) are history.

### ChatTools

`ls` fetches pages below an offset while `clDate` (external) changes; `seen` keeps bare ids,
as the code does; topics of a forum are paged with a guard against cycles. `export` turns
its range into the offsets of the request and walks the history backwards. A bound is an
`int` of the user's (`Ints`, of 64 bits), to which `XpUpper` adds one; what the server is sent are
its lower 32 bits with their sign (`Wrap`), so that a bound may become another offset
without an error. What a server makes of an offset below 0 is left open (`XpFroms`).
`ExportExact` holds where the end fits (`EndFits`); where it does not, see section 5. `users` goes through the kinds with a tracker each.

### Extensions

`exDisk` is what each directory holds: a binary that is absent, half there, local or of a
release, a script, a manifest. A command goes through its targets (`exTodo`), each step one
file operation or request; `exCache` is what the code caches of manifests and releases.
`exTorn` remembers directories a removal of which failed or was killed.

### SelfUpdate

One action per file operation of `app/update`: the archive, its checksum, the extraction,
the staged copy, the replacement (one rename, or on Windows away and in, with the roll
back), the clean up of the backup. A file is absent, broken, or whole of a version.

### Commands

The program runs one command. The four share the client, not the state modelled here, so
`Next` lets the chosen one step and holds the others: the composition says what the
program does and lets one run of TLC check all of them.

## 4. Runs

| run | instance | distinct states | shows |
|---|---|---|---|
| `tasks_safety` | 2 tasks, 2 DELETEs, 1 chat query, queue of 1 | 1.06 M (with symmetry) | the safety and action properties |
| `tasks_live` | 2 tasks, 1 DELETE, queue of 1 | 150 k | tasks settle, cancellations are answered and take effect |
| `tasks_canceled_is_stopped` | 2 tasks, 1 DELETE | until violated | the comment at `webui.go:343` does not hold |
| `events` | 2 tasks, 2 publishers, 1 page, channel of 1, 2 changes | 1345 k | nobody sends on a closed channel, pages catch up and converge |
| `download` | 6 messages in 2 chats, 4 dialogs, 2 runs, all events | 1060 k | resume and the removal of the resume key, positions, ends of runs |
| `download_all_there` | 6 messages in 2 dialogs, failures and cancellation | until violated | a failed download counts as done |
| `dcpool` | 2 jobs, 2 data centers | 15 k | one of each, nothing left, calls return |
| `dcpool_takeout` | the same | until violated | Takeout deadlocks with itself |
| `storage` | 2 processes or goroutines, either driver, 2 namespaces, 1 value, 3 starts, 2 calls | 301 k | the storage is the map of `KV` but for five excuses; calls in a process do not fail; processes end |
| `upload` | 4 files in 2 paths, one of them listed twice, 2 jobs at a time | 17 k | every file tried and closed, runs end |
| `upload_removed` | the same | until violated | `--rm` removes a file that was not uploaded |
| `commands` | 4 messages, an album, 5 chats, 5 messages of history, 2 extensions, 2 releases, 3 updates | 1.8 M | messages arrive once and are reported, lists and exports are exact, manifests are true, the executable survives |

**Bounds.** `QueueCap` 1 with two tasks (one may be with the worker, one in the queue)
makes both the full and the empty queue happen with cancellations in between; a third
task adds nothing that two in the worker and the queue do not show (the safety run was
also done once with three). Two DELETEs may hit one task or two. `ChanCap` 1 drops the
second event; two changes make a stale and a newer version differ. `download` has a text that
may be deleted with a message older than it in the chat; an album of two, with messages behind it
whose positions depend on its length (a wrong length makes a later run take one for
finished); one of these may be deleted and is the oldest of its chat, so that nothing is
found in its place; and an empty dialog with a message behind it. Of two runs the second starts with
what the first has saved, in each of the three modes; a third would start with
progress saved by a run that had some. Without fairness the safety properties were also checked
with three runs, all of them continuing (1107 k states). `Limit` 2
lets two jobs interleave. `storage` has two namespaces, so that a migration or a backup can be
half done, and two threads, so that the second can come between any two steps of the
first; three starts let one see what a killed one has left, and two calls make a lost
update, or, with the values a shared storage begins with, a write under a value read. `upload` has a file with a thumbnail, one listed twice and one filtered out.
`commands` has an album met through two sources, a message whose media cannot be copied and one
with text alone; `MaxTries` 2 and one round of recovery repeat a request within a
connection and across one; a chat page of 2 with five entries ends full, short and empty;
an exported history in which two messages have one date; an `int` one bit wider (`MaxInt` 23) than the
offset it is cut to (`Half` 6), so that ends are cut to 0, to a negative offset and to an
earlier one; a script whose extension is cut off to the name of another
extension; three updates, so that one finds what two killed ones have left.

**What an instance holds fixed.** `download` is steady (`Steady`, an ASSUME of `MCDownload`):
`--group` is the same in all runs, no message of an album it downloads as one is deleted, and
no message is asked for twice, be it through its album. TLC finds `ResumeSkipsOnlyDownloaded`
violated without any one of the three: positions saved by one run then mean other messages
in the next (the hazard at `iter.go:315`). The same goes for an album that came short, which the code
cannot tell from a whole one and no constant rules out: without its condition `short = {}`
the property is violated, too.

**Deadlock** is checked in `tasks_safety`, `tasks_live` and `events`, where the resting
states are named by an action or by what clients may still do. `download` may stop when
no run is left, `dcpool` when it is closed or stuck on itself; there the liveness
properties say what must not stop. `storage`, `upload` and `commands` may stop when the
processes have ended or a bound is reached.

**Fairness.** `WebuiTasks` and `EventStream`: goroutines that can run do run; `exec` kills
the child of a done context. Nothing is assumed of clients, signals, or the exit of the
process; that children end is assumed only where the property says so
(`TasksSettle`, by `ChildrenEnd`). `Download`: the main goroutine and the jobs run, and a download that has begun
ends in success, failure or cancellation; nothing is assumed of the environment.
`Storage`: a process that is not killed runs on; starts, calls and kills are not assumed,
and `RunsEnd` needs the timeout of bolt. `Upload`: the goroutines run on and the client's
calls return. `commands` checks safety alone. `DCPool`: strong fairness of the mutex, because a Go mutex hands itself to a waiter that
has starved, and weak fairness of the calls under it.

## 5. What the code does not do

Each is a run that TLC finds violated:

- `CanceledIsStopped`: a DELETE that has read "pending" is overtaken by the worker; the
  task ends up "canceled" with its child running and nobody having stopped it.
- `ClearedMeansAllThere`: `Downloader.Download` logs an error and returns nil; `OnDone`
  sees success. The incomplete file gets its final name and its position is finished.
  Its progress bar is never full, so `prog.Wait` waits for the user, and the interrupt
  then removes the resume key, since `Download` has returned nil.
- `TakeoutDegrades`: the fallback of `Takeout` locks the mutex it holds.
- `RemovedWereUploaded`: a failed upload is logged and returns nil, `OnDone` sees success,
  and `--rm` removes a file that is nowhere else.

Other such behaviours are in the models, and many in `PROJECT.json` as hazards with a note:

- WebUI and download: a chat query runs beside a task's child; output is published after the child
  has ended; a position is finished before its file is renamed; an empty dialog ends the
  iteration; an album whose query breaks off comes short without an error and shifts the
  positions of what follows. A listed message is deleted and nothing older is left in its
  chat: the iterator takes the nil it gets for a message and panics (`iter.go:214`), and the
  deferred function of `Run` sees no error and removes the resume key before the program
  crashes (`NextPanics`; without `~panicked` TLC finds `ClearedMeansDone` violated).
- `prog.Wait` waits for bars nobody completes: of a failed upload, or of a file listed twice
  (`UploadEnds` excepts them).
- `iter.Next` of forward panics on a source without messages, on a message up to which none
  is left, and with `--edit` on a destination that cannot be resolved (`FwPanics`).
- The file driver's `Set` panics on a namespace that a recover has dropped (`Errs`); an
  interrupted migration is never tried again ("interrupted").
- A half-downloaded extension stays and is listed as a local one; `upgrade` and `remove` of
  a local extension take the directory of its name without the file extension, which may be
  another's.
- `export` cuts the end of a range to 32 bits when it builds the request, so that
  `-T time -i 0,9999999999` exports what is older than a date in 2014, and says that it is
  done (`XpUpper`; without `EndFits` TLC finds `ExportExact` violated).
- `ls` takes a failing request for the end of the list, and keeps its offset when a full
  page ends in a folder.

## 6. Proofs

All are about the specification of their module, for every value of the constants that the modules' assumptions
allow. The assumptions say that bounds are natural numbers, that "no task",
"nobody" and the main goroutine are none of the tasks, threads or jobs, that what is on the
server or the disk is finite, that the albums of a source are disjoint, and that a message
of higher id has no lower date.

- `WebuiTasks_proofs`. `TypeCorrect` by steps. `SerialExecution`: `RunningIsCurrent` and
  `SerialChildren` together are inductive with the types: a child comes to life only
  where the worker is in runTask, whose entry is the only one in `running`. The
  statements about tasks (`TasksQueuedOnce`, `RejectedIsFinal`, `SuccessIsTrue`,
  `TasksStartedOnce`, `QueuedCancelIsFinal`) need one invariant, `TaskInv`, that ties the POST handler, the
  queue, the worker's hand and the child of a task together: a task in the queue was
  sent by its handler, has no child and is not in the worker's hand. None of them is
  inductive alone: that a task is not started twice depends on its not being queued
  again.
- `EventStream_proofs`. `PagesCatchUp` needs that a page past its subscription is
  subscribed, that what the snapshot has still to write is in `todo`, and that no answer
  on its way to a GET or a POST is newer than the task.
- `Download_proofs`. `ContinuingKeepsProgress`: as long as a continued run has not saved,
  the resume key is a part of `finished`. `TypeCorrect` and `PositionsAreDistinct` hold in any
  setting; the latter since what is made lies below `lpos` (`Behind`). `ResumeIsExact` and
  `ClearedIsComplete` assume `Steady`, which is a condition on the constants alone: what is
  asked for, what may be deleted, the flags. From the constants alone the proof computes
  the places of an iterator that is never disturbed (`Track`: dialog, message and position
  reached; the least set closed under its steps) and shows that every run stays on it,
  whatever was deleted in between (`Placed`). A position therefore names one message in all
  runs (`SlotsApart`), and the rest is bookkeeping: an element is made once in a run
  (`OnceEach`), what is finished was downloaded or is spoiled (`Fetched`, `Accounted`), and
  for the end of a run, what lies behind the iterator was handled or is somebody's job
  (`Covered`, `Stopped`). An album that comes short takes a run off the places. `ResumeIsExact`
  and `ClearedIsComplete` speak of what happens until then: the accounts are kept while
  `short` is empty and begin anew in a run that starts without progress (`Told`,
  `PassedAll`). `ClearedIsComplete` excepts runs that panic.
- `DCPool_proofs`. `PoolInv` counts: an open connection is a known one, a session means
  that `takeout` is set, a goroutine that asks for a session does so while it is not,
  and after an orderly Close what is open is what remains to be closed.

- `Storage_proofs`. `GoroutinesNeverFail`: the file is cut exactly while the holder of the
  mutex fills it (`CutInside`), and what is written has every namespace the file had
  (`WritesAll`), so that nobody who takes the mutex for the read meets either. It holds
  until the process is killed in a write. `StorageIsAMap` is the refinement: every step of
  `Storage` is a step of `KV` or a stutter under the mapping (`MapRefines`). As long as
  nothing excuses the storage, `MapInv` says, a migration is alone and bolt holds exactly what it has copied
  (`Moves`), and what a thread is about to write is the file with the one change of
  its call (`Pending`).
- `Upload_proofs`. `EveryFileIsTried`: the files before the iterator have a job, those
  behind it none (`Taken`), and once the jobs have been waited for none runs (`Waited`). That
  what `walk` returns lists files on the disk is the lemma `FilesListed`.
- `Commands_proofs`, on `Forward`. `MessagesArriveOnce` rests on one fact about albums,
  `SentTogether`: with a message all of its album is marked as sent, so what is not marked has
  not arrived. It needs that the albums of the server are disjoint (a message has one grouped
  id), and that a random id is used for one request. The rest follows a batch through the
  direct request, the fallback and the copy (`Fresh`, `Requesting`): before the server acts,
  nothing of it has arrived. `DoneMeansArrived` adds that an answer of success means that
  the server has acted (`Confirmed`). Both hold for any number of repetitions.
  `EveryoneIsReported`: what lies before the iterator is marked as sent or is in hand
  (`NonePassedOver`).
- On `Extensions`. `ManifestsAreTrue` needs to know where a command stands (`Standing`):
  while a binary is written the directory has no manifest (`Room`), and when the manifest
  is written the binary is that of the release in hand.
- On `SelfUpdate`. `UpdateKeepsExecutable` needs that what is staged is whole when it
  replaces the executable, and that the backup is whole when the executable is gone
  (`Ready`).
- On `ChatTools`. `ChatsAreListed`: a dialog that stays where it is has been fetched or is
  still below the offset (`ClListed`), and what was fetched is to be processed, is in the result,
  or was left out for a named reason (`ClProcessed`). `ExportsAreExact`: what has been
  passed of the range is written, newest first, and what is to come is below its upper end
  (`XpWritten`); dates do not decrease with ids, so that the first message below the range
  ends it. `UpperEnd` is the cut of the end to 32 bits: with an end that fits (`EndFits`), and
  with the default one, which wraps to the newest message, the offset lies beyond the range.
- On the program. `Spec` implies the specification of each command, as the others stand still
  (`OneCommand`); with it the theorems are carried over (`TypeCorrect`, `CommandsAreSafe`).

**How lists are reasoned about.** The code sorts and filters slices. The library's operators
for that are recursive or chosen, and induction over data by a theorem with an operator for
a parameter is out of the prover's reach. `Lists` says them with the rank of an element in a
finite set, a cardinality, so that `Lists_proofs` derives what they return from the library's facts on
cardinality; where induction is needed, it is over a set of naturals (`NatSetInduction`) or
over a least closed set (`Track`), both first-order. The modules whose operators were written
so (`Download`, `Forward`, `Extensions`, `ChatTools`, `Upload`) say the same in fewer steps
than the code's loops.

Every invariant and
action property of a passing run is a theorem (of `Download`, two where the setting is
steady). Only model-checked: liveness (`TasksSettle`, `CancelAnswered`, `CancelTakesEffect`,
`PageConverges`, `RunEnds`, `CallsReturn`, `CloseEnds`, `RunsEnd`, `UploadEnds`), which rests on
fairness and ENABLED and is out of the prover's reach.

## 7. Not modelled

- Without state of their own, so that there is nothing to interleave: the parsing of links,
  progress lines and flags, expressions, templates and captions, file names and kinds of
  media, what is printed.
- `app/dl/serve.go`: stateless streaming of files over HTTP.
- Login: a dialogue with the user and the server inside library code.
- Storage: the `migrate` command and the legacy driver chosen by hand, the typed wrappers
  of `core/storage` (single reads and writes of keys, but for the update state, see the
  plan).
- Download: `--skip-same`, names that collide, errors of the storage.
- Forward and upload: delays, the contents of files; several chats as sources are one set
  of message ids.
- Chat: the export of threads and replies; a server that sends pages shorter than asked for.
- Extensions: `Dispatch`, which runs the program of an extension; the library extensions are
  written with; two commands on the extension directory at once.
- Update: two updates at once.
