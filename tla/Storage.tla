------------------------------- MODULE Storage --------------------------------
(***************************************************************************)
(* The storage a tdl process keeps its sessions, peers and progress in     *)
(* (pkg/kv), from the start of the process, which may first move the data  *)
(* of the legacy driver to the bolt driver (cmd/root.go), to its end, with *)
(* backup and recover (app/migrate).  Threads are processes or, when       *)
(* shared, the goroutines of one process.  The bolt driver keeps one       *)
(* database per namespace, which one process at a time can open; the file  *)
(* driver keeps one JSON file that anybody can write.  A process may be    *)
(* killed at any time.  A namespace is reduced to one key; when shared, a  *)
(* namespace stands for a key of the one namespace the process has opened, *)
(* and nobody else is there to keep out of it.                             *)
(***************************************************************************)
EXTENDS Naturals, FiniteSets

CONSTANTS
  Threads, Namespaces, Vals,
  None,    \* the key is not there
  Missing, \* the namespace is not there
  Garbled, \* what is found in memory bolt has unmapped or written anew
  Idle, Nobody,
  MaxRuns, \* (bound) threads started
  MaxOps   \* (bound) calls of Set, Delete and Get

Contents == [Namespaces -> Vals \union {None, Missing}]
Nothing  == [n \in Namespaces |-> Missing]
Keys     == [Namespaces -> Vals \union {None}]
Requests == [op : {"put"}, ns : Namespaces, val : Vals \union {None}]
            \union [op : {"get"}, ns : Namespaces]
            \union [op : {"restore"}, data : Contents]

ASSUME StorageAssumption ==
  /\ None \notin Vals /\ Missing \notin Vals \union {None}
  /\ Garbled \notin Vals \union {None, Missing}
  /\ Nobody \notin Threads /\ Threads # {} /\ Namespaces # {}
  /\ MaxRuns \in Nat /\ MaxOps \in Nat
  /\ Idle \notin Requests

VARIABLES
  driver, shared,   \* "bolt" or "file"; the threads belong to one process
  legacy, lheld,    \* the legacy database and who has it open
  bolt, dir, held,  \* bolt's databases, their directory, and who has each open
  file, form, mu,   \* the file as last written whole; its form now; file.mu
  backup, bform,    \* the backup file and its form
  pc, call, mem,    \* where a thread stands, its call, the contents it holds
  todo, stale,      \* namespaces it has still to do; mem is out of date (history)
  seen,             \* what its last Get returned, or what that has become
  lent,             \* who has a slice of the database in hand, and has yet to parse it
  runs, ops,        \* counters
  excuse            \* why the storage may no longer be what KV says (history)

kind    == <<driver, shared>>
old     == <<legacy, lheld>>
dbs     == <<bolt, dir, held>>
disk    == <<file, form, mu>>
saved   == <<backup, bform>>
memory  == <<mem, todo, stale>>
count   == <<runs, ops>>
vars    == <<kind, old, dbs, disk, saved, pc, call, memory, seen, lent, count, excuse>>

Init ==
  /\ driver \in {"bolt", "file"} /\ shared \in BOOLEAN
  /\ legacy \in (IF driver = "file" \/ shared THEN {Nothing}
                 ELSE [Namespaces -> Vals \union {Missing}])
  /\ lheld = Nobody
  /\ dir = (driver = "bolt" /\ shared) /\ bolt \in (IF dir THEN Keys ELSE {Nothing})
  /\ held = [n \in Namespaces |-> Nobody]
  /\ IF driver = "file" /\ shared THEN file \in Keys /\ form = "whole"
                                  ELSE file = Nothing /\ form = "absent"
  /\ mu = Nobody
  /\ backup = Nothing /\ bform = "absent"
  /\ pc = [t \in Threads |-> "off"] /\ call = [t \in Threads |-> Idle]
  /\ mem = [t \in Threads |-> Nothing] /\ todo = [t \in Threads |-> {}]
  /\ stale = [t \in Threads |-> FALSE] /\ seen = [t \in Threads |-> None]
  /\ lent = {} /\ runs = 0 /\ ops = 0 /\ excuse = {}

Goes(t, p)      == pc' = [pc EXCEPT ![t] = p]
Returns(t)      == call' = [call EXCEPT ![t] = Idle]
Remembers(t, c) == mem' = [mem EXCEPT ![t] = c]
Excused(w, why) == excuse' = excuse \union (IF w THEN {why} ELSE {})

\* The automatic migration is under way: the directory is there, the data is not yet.
Migrating(t) == pc[t] \in {"meta", "copy"} /\ call[t] = Idle

\* A process that ends closes its databases.
Freed(ts) ==
  /\ held' = [n \in Namespaces |-> IF held[n] \in ts THEN Nobody ELSE held[n]]
  /\ lheld' = IF lheld \in ts THEN Nobody ELSE lheld

Ends(ts) ==
  /\ Freed(ts) /\ mu' = (IF mu \in ts THEN Nobody ELSE mu)
  /\ pc'   = [t \in Threads |-> IF t \in ts THEN "off" ELSE pc[t]]
  /\ call' = [t \in Threads |-> IF t \in ts THEN Idle ELSE call[t]]
  /\ mem'  = [t \in Threads |-> IF t \in ts THEN Nothing ELSE mem[t]]
  /\ todo' = [t \in Threads |-> IF t \in ts THEN {} ELSE todo[t]]
  /\ stale' = [t \in Threads |-> IF t \in ts THEN FALSE ELSE stale[t]]
  /\ seen' = [t \in Threads |-> IF t \in ts THEN None ELSE seen[t]]
  /\ lent' = lent \ ts

-----------------------------------------------------------------------------
(* The start of a process, and the move from legacy to bolt.               *)

\* Wrong on purpose: nothing is moved.
MustMigrateNever == FALSE
\* --storage is not given, and the path of the bolt driver does not exist.
MustMigrate == driver = "bolt" /\ ~dir

\* newFile: the file is not there, and is written empty.
CreatesFile == driver = "file" /\ form = "absent"

Start(t) ==
  /\ pc[t] = "off" /\ runs < MaxRuns
  /\ runs' = runs + 1
  /\ Goes(t, CASE MustMigrate -> "legacy"
               [] CreatesFile -> "trunc"
               [] OTHER -> "ready")
  /\ Remembers(t, Nothing)
  /\ dir' = (dir \/ (driver = "bolt" /\ ~MustMigrate))
  /\ Excused(\E u \in Threads : Migrating(u), "raced")
  /\ UNCHANGED <<kind, old, bolt, held, disk, saved, call, todo, stale, seen, lent, ops>>

OpenLegacy(t) ==
  /\ pc[t] = "legacy" /\ lheld = Nobody
  /\ lheld' = t /\ Goes(t, "mkdir")
  /\ UNCHANGED <<kind, legacy, dbs, disk, saved, call, memory, seen, lent, count, excuse>>

\* The directory is made before anything is in it.
MakeDir(t) ==
  /\ pc[t] = "mkdir"
  /\ dir' = TRUE /\ Goes(t, "meta")
  /\ Excused(dir, "raced")
  /\ UNCHANGED <<kind, old, bolt, held, disk, saved, call, memory, seen, lent, count>>

ReadLegacy(t) ==
  /\ pc[t] = "meta"
  /\ Remembers(t, legacy)
  /\ todo' = [todo EXCEPT ![t] = {n \in Namespaces : legacy[n] # Missing}]
  /\ Goes(t, "copy")
  /\ UNCHANGED <<kind, old, dbs, disk, saved, call, stale, seen, lent, count, excuse>>

\* Wrong on purpose: a namespace is replaced by what is copied into it.
MergedReplaces(was, new) == IF new = Missing THEN None ELSE new
\* The keys of the copied namespace are put beside those that are there.
Merged(was, new) == IF new \in Vals THEN new ELSE IF was = Missing THEN None ELSE was

\* One transaction per namespace, in any order.
CopyOne(t, n) ==
  /\ pc[t] = "copy" /\ n \in todo[t] /\ held[n] \in {Nobody, t}
  /\ held' = [held EXCEPT ![n] = t]
  /\ bolt' = [bolt EXCEPT ![n] = Merged(bolt[n], mem[t][n])]
  /\ todo' = [todo EXCEPT ![t] = @ \ {n}]
  /\ UNCHANGED <<kind, old, dir, disk, saved, pc, call, mem, stale, seen, lent, count, excuse>>

\* After the migration both storages are closed and the bolt one is opened anew; after
\* recover it stays open until the process ends.
CopyDone(t) ==
  /\ pc[t] = "copy" /\ todo[t] = {}
  /\ IF Migrating(t) THEN Goes(t, "ready") /\ Freed({t})
                     ELSE Goes(t, "use") /\ UNCHANGED <<held, lheld>>
  /\ Returns(t) /\ Remembers(t, Nothing)
  /\ UNCHANGED <<kind, legacy, bolt, dir, disk, saved, todo, stale, seen, lent, count, excuse>>

-----------------------------------------------------------------------------
(* The file driver: read and write, each under the mutex of the process.   *)

Locked(t) == shared => mu \in {Nobody, t}

\* Wrong on purpose: write takes no mutex.
HoldsNothing(t) == mu
Holds(t) == IF shared THEN t ELSE mu

\* os.WriteFile truncates the file, then writes it.
Truncate(t) ==
  /\ pc[t] = "trunc" /\ Locked(t)
  /\ mu' = Holds(t)
  /\ form' = "cut" /\ Goes(t, "fill")
  /\ UNCHANGED <<kind, old, dbs, file, saved, call, memory, seen, lent, count, excuse>>

\* Where a thread goes on: a file just created, a namespace just opened, a call done.
Resumes(t) == IF call[t] = Idle /\ mem[t] = Nothing THEN "ready" ELSE "use"

\* Two processes that write at once may leave the end of the longer text behind the
\* shorter one.
Fill(t) ==
  /\ pc[t] = "fill"
  /\ file' = mem[t]
  /\ \E f \in {"whole"} \union (IF form = "cut" THEN {} ELSE {"bad"}) : form' = f
  /\ mu' = (IF shared THEN Nobody ELSE mu)
  /\ stale' = [u \in Threads |-> IF u = t THEN FALSE
                                 ELSE stale[u] \/ pc[u] \in {"trunc", "fill"}]
  /\ Excused(stale[t] \/ form' = "bad", "overlap")
  /\ Goes(t, Resumes(t)) /\ Returns(t) /\ Remembers(t, Nothing)
  /\ UNCHANGED <<kind, old, dbs, saved, todo, seen, lent, count>>

-----------------------------------------------------------------------------
(* A namespace is opened, and its keys are set, deleted and read.          *)

OpenBolt(t, n) ==
  /\ pc[t] = "ready" /\ driver = "bolt" /\ held[n] = Nobody
  /\ held' = (IF shared THEN held ELSE [held EXCEPT ![n] = t])
  /\ bolt' = [bolt EXCEPT ![n] = Merged(@, None)]
  /\ Goes(t, "use")
  /\ UNCHANGED <<kind, old, dir, disk, saved, call, memory, seen, lent, count, excuse>>

OpenFile(t, n) ==
  /\ pc[t] = "ready" /\ driver = "file" /\ Locked(t) /\ form = "whole"
  /\ IF file[n] = Missing
     THEN Goes(t, "trunc") /\ Remembers(t, [file EXCEPT ![n] = None])
     ELSE Goes(t, "use") /\ UNCHANGED mem
  /\ UNCHANGED <<kind, old, dbs, disk, saved, call, todo, stale, seen, lent, count, excuse>>

\* The threads of a process are used in one namespace, which for bolt it holds.  What Get
\* has returned is parsed before the next call.
Request(t, n, op, v) ==
  /\ pc[t] = "use" /\ call[t] = Idle /\ t \notin lent /\ ops < MaxOps
  /\ driver = "bolt" /\ ~shared => held[n] = t
  /\ ops' = ops + 1
  /\ call' = [call EXCEPT ![t] = IF op = "get" THEN [op |-> op, ns |-> n]
                                 ELSE [op |-> op, ns |-> n, val |-> v]]
  /\ UNCHANGED <<kind, old, dbs, disk, saved, pc, memory, seen, lent, runs, excuse>>

In(t, op) == pc[t] = "use" /\ call[t] # Idle /\ call[t].op = op

\* A View transaction, or the file read whole.  Of the database a slice of its memory is
\* returned, which bbolt lends for the length of the transaction only: among the threads
\* of one process another one may write before it is parsed.
Get(t) ==
  /\ In(t, "get")
  /\ driver = "file" => Locked(t) /\ form = "whole"
  /\ seen' = [seen EXCEPT ![t] =
       LET v == IF driver = "file" THEN file[call[t].ns] ELSE bolt[call[t].ns]
       IN IF v = Missing THEN None ELSE v]
  /\ lent' = lent \union (IF driver = "bolt" /\ shared /\ seen'[t] # None THEN {t} ELSE {})
  /\ Returns(t)
  /\ UNCHANGED <<kind, old, dbs, disk, saved, pc, memory, count, excuse>>

\* The caller has parsed what it was given.
Used(t) ==
  /\ t \in lent
  /\ lent' = lent \ {t}
  /\ UNCHANGED <<kind, old, dbs, disk, saved, pc, call, memory, seen, count, excuse>>

\* An Update transaction.  It may map the database anew, or write to the pages it reads
\* from, under the slices that are lent: any of them.
PutBolt(t) ==
  /\ In(t, "put") /\ driver = "bolt"
  /\ bolt' = [bolt EXCEPT ![call[t].ns] = call[t].val]
  /\ \E lost \in SUBSET lent :
       /\ seen' = [u \in Threads |-> IF u \in lost THEN Garbled ELSE seen[u]]
       /\ Excused(lost # {}, "lent")
  /\ Returns(t)
  /\ UNCHANGED <<kind, old, dir, held, disk, saved, pc, memory, lent, count>>

\* The file is read and changed in memory; Truncate and Fill follow.  Deleting from a
\* namespace that is gone changes nothing.
PutFile(t) ==
  LET n == call[t].ns IN
  /\ In(t, "put") /\ driver = "file" /\ Locked(t) /\ form = "whole"
  /\ file[n] # Missing \/ call[t].val = None
  /\ Remembers(t, IF file[n] = Missing THEN file ELSE [file EXCEPT ![n] = call[t].val])
  /\ Goes(t, "trunc")
  /\ UNCHANGED <<kind, old, dbs, disk, saved, call, todo, stale, seen, lent, count, excuse>>

-----------------------------------------------------------------------------
(* Backup and recover.                                                     *)

\* MigrateTo: the databases found in the directory, one after the other.
Backup(t) ==
  /\ pc[t] = "ready" /\ ~shared
  /\ driver = "file" => form = "whole"
  /\ IF driver = "file"
     THEN Remembers(t, file) /\ UNCHANGED todo
     ELSE /\ Remembers(t, Nothing)
          /\ todo' = [todo EXCEPT ![t] = {n \in Namespaces : bolt[n] # Missing}]
  /\ Goes(t, "walk")
  /\ UNCHANGED <<kind, old, dbs, disk, saved, call, stale, seen, lent, count, excuse>>

ReadOne(t, n) ==
  /\ pc[t] = "walk" /\ n \in todo[t] /\ held[n] \in {Nobody, t}
  /\ held' = [held EXCEPT ![n] = t]
  /\ mem' = [mem EXCEPT ![t][n] = bolt[n]]
  /\ todo' = [todo EXCEPT ![t] = @ \ {n}]
  /\ UNCHANGED <<kind, old, bolt, dir, disk, saved, pc, call, stale, seen, lent, count, excuse>>

CreateBackup(t) ==
  /\ pc[t] = "walk" /\ todo[t] = {}
  /\ bform' = "cut" /\ Goes(t, "save")
  /\ UNCHANGED <<kind, old, dbs, disk, backup, call, memory, seen, lent, count, excuse>>

WriteBackup(t) ==
  /\ pc[t] = "save"
  /\ backup' = mem[t] /\ bform' = "whole" /\ Goes(t, "use") /\ Remembers(t, Nothing)
  /\ UNCHANGED <<kind, old, dbs, disk, call, todo, stale, seen, lent, count, excuse>>

\* MigrateFrom: bolt puts the keys beside those there, file writes the backup in place of
\* all there was.
Recover(t) ==
  /\ pc[t] = "ready" /\ ~shared /\ bform = "whole"
  /\ call' = [call EXCEPT ![t] = [op |-> "restore", data |-> backup]]
  /\ Remembers(t, backup)
  /\ IF driver = "file"
     THEN Goes(t, "trunc") /\ UNCHANGED todo
     ELSE /\ Goes(t, "copy")
          /\ todo' = [todo EXCEPT ![t] = {n \in Namespaces : backup[n] # Missing}]
  /\ UNCHANGED <<kind, old, dbs, disk, saved, stale, seen, lent, count, excuse>>

-----------------------------------------------------------------------------
(* The end of a process.                                                   *)

HeldByOther(t, n) == held[n] \notin {Nobody, t}

\* Wrong on purpose: a database that is open elsewhere is waited for without end.
TimesOutNever(t) == FALSE
\* bbolt.Open gives up after a second.
TimesOut(t) ==
  \/ pc[t] = "legacy" /\ lheld # Nobody
  \/ pc[t] = "ready" /\ driver = "bolt" /\ \E n \in Namespaces : HeldByOther(t, n)
  \/ pc[t] \in {"copy", "walk"} /\ \E n \in todo[t] : HeldByOther(t, n)

\* The file does not parse, there is no backup to recover, a Set meets a namespace that
\* is no longer in the file (an assignment to a nil map: the process panics).
Errs(t) ==
  \/ pc[t] = "ready" /\ driver = "file" /\ Locked(t) /\ form # "whole"
  \/ pc[t] = "use" /\ call[t] # Idle /\ driver = "file" /\ Locked(t)
     /\ \/ form # "whole"
        \/ call[t].op = "put" /\ file[call[t].ns] = Missing /\ call[t].val # None
  \/ pc[t] = "ready" /\ ~shared /\ bform # "whole"

Fail(t) ==
  /\ TimesOut(t) \/ Errs(t)
  /\ Ends({t})
  /\ Excused(Migrating(t), "interrupted")
  /\ UNCHANGED <<kind, legacy, bolt, dir, file, form, saved, count>>

Close(t) ==
  /\ pc[t] = "use" /\ call[t] = Idle
  /\ Ends({t})
  /\ UNCHANGED <<kind, legacy, bolt, dir, file, form, saved, count, excuse>>

Kill(t) ==
  LET ts == IF shared THEN Threads ELSE {t} IN
  /\ pc[t] # "off"
  /\ Ends(ts)
  /\ excuse' = excuse
       \union {"interrupted" : u \in {v \in ts : Migrating(v)}}
       \union {"torn" : u \in {v \in ts : pc[v] = "fill" /\ form = "cut"}}
  /\ UNCHANGED <<kind, legacy, bolt, dir, file, form, saved, count>>

-----------------------------------------------------------------------------
Steps(t) ==
  \/ OpenLegacy(t) \/ MakeDir(t) \/ ReadLegacy(t) \/ CopyDone(t)
  \/ Truncate(t) \/ Fill(t) \/ Get(t) \/ Used(t) \/ PutBolt(t) \/ PutFile(t)
  \/ CreateBackup(t) \/ WriteBackup(t) \/ Fail(t) \/ Close(t)
  \/ \E n \in Namespaces : CopyOne(t, n) \/ ReadOne(t, n)

Commands(t) ==
  \/ Backup(t) \/ Recover(t)
  \/ \E n \in Namespaces : OpenBolt(t, n) \/ OpenFile(t, n)

Next ==
  \E t \in Threads :
    \/ Start(t) \/ Steps(t) \/ Commands(t) \/ Kill(t)
    \/ \E n \in Namespaces, v \in Vals \union {None} :
         Request(t, n, "put", v) \/ Request(t, n, "get", v)

Spec == Init /\ [][Next]_vars

\* A process that has not been killed runs on.
FairSpec == Spec /\ \A t \in Threads : WF_vars(Steps(t) \/ Commands(t))

-----------------------------------------------------------------------------
\* The types; and whoever has cut the file of its process has the mutex.
TypeOK ==
  /\ driver \in {"bolt", "file"} /\ shared \in BOOLEAN
  /\ legacy \in Contents /\ bolt \in Contents /\ file \in Contents /\ backup \in Contents
  /\ dir \in BOOLEAN /\ form \in {"absent", "whole", "cut", "bad"}
  /\ bform \in {"absent", "whole", "cut"}
  /\ held \in [Namespaces -> Threads \union {Nobody}]
  /\ lheld \in Threads \union {Nobody} /\ mu \in Threads \union {Nobody}
  /\ pc \in [Threads -> {"off", "legacy", "mkdir", "meta", "copy", "ready", "trunc",
                         "fill", "use", "walk", "save"}]
  /\ call \in [Threads -> Requests \union {Idle}]
  /\ mem \in [Threads -> Contents] /\ todo \in [Threads -> SUBSET Namespaces]
  /\ stale \in [Threads -> BOOLEAN] /\ seen \in [Threads -> Vals \union {None, Garbled}]
  /\ lent \subseteq Threads
  /\ runs \in Nat /\ ops \in Nat
  /\ excuse \subseteq {"raced", "interrupted", "overlap", "torn", "lent"}
  /\ \A t \in Threads : shared /\ pc[t] = "fill" => mu = t

\* What a user finds in contents: a namespace that is not there has no keys.
View(c) == [n \in Namespaces |-> IF c[n] = Missing THEN None ELSE c[n]]

\* The map a user of tdl sees: of the legacy database until its move to bolt is over.
Shown ==
  View(IF driver = "file" THEN file
       ELSE IF dir /\ \A t \in Threads : ~Migrating(t) THEN bolt ELSE legacy)

Abstract == INSTANCE KV WITH store <- Shown, void <- excuse # {}

\* The storage is the map of KV, through the move to bolt, crashes, restored backups and
\* the threads beside each other, except where it is known not to be: a move that is
\* killed, fails or meets another process, a write of the file driver that overlaps
\* another one or is killed, a value of the bolt driver that is parsed only after another
\* thread of the process has written.
ImplementsKV == Abstract!Spec

\* Within one process no call ever fails: the mutex of the file driver hides the moment
\* in which the file is cut, though it is taken for the read and the write apart, unless
\* the process has been killed in a write.
NeverFailsInProcess == shared /\ "torn" \notin excuse => \A t \in Threads : ~Errs(t)

\* Every process ends: none waits for ever for a database another one has open, though
\* backup and recover open them one by one, each in an order of its own (boltOptions).
RunsEnd == \A t \in Threads : pc[t] # "off" ~> pc[t] = "off"
===============================================================================
