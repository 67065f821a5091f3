--------------------------- MODULE Storage_proofs -----------------------------
(***************************************************************************)
(* The types; within one process no call of the file driver fails; and the *)
(* storage implements the map of KV: for any number of threads,            *)
(* namespaces, values, starts and calls.                                   *)
(***************************************************************************)
EXTENDS Storage, TLAPS

-----------------------------------------------------------------------------
(* The types.                                                              *)

\* Setting a key makes contents of contents.
LEMMA ContentTypes ==
  /\ Nothing \in Contents /\ Keys \subseteq Contents
  /\ \A c \in Contents, n \in Namespaces, v \in Vals \union {None} :
       [c EXCEPT ![n] = v] \in Contents /\ c[n] \in Vals \union {None, Missing}
BY DEF Nothing, Keys, Contents

\* A merge leaves a value or none.
LEMMA MergedType ==
  ASSUME NEW was \in Vals \union {None, Missing}, NEW new
  PROVE  Merged(was, new) \in Vals \union {None}
BY DEF Merged

\* What the call of a thread is.
LEMMA CallTypes ==
  ASSUME TypeOK, NEW t \in Threads, call[t] # Idle
  PROVE  /\ call[t].op \in {"put", "get", "restore"}
         /\ call[t].op = "put" => call[t].ns \in Namespaces /\ call[t].val \in Vals \union {None}
         /\ call[t].op = "get" => call[t].ns \in Namespaces
         /\ call[t].op = "restore" => call[t].data \in Contents
BY DEF TypeOK, Requests

\* The types at the start.
LEMMA StTypeInitially == Init => TypeOK
<1> SUFFICES ASSUME Init PROVE TypeOK
  OBVIOUS
<1>1. legacy \in Contents /\ bolt \in Contents /\ file \in Contents /\ backup \in Contents
  BY ContentTypes DEF Init, Contents, Nothing
<1> QED BY <1>1, ContentTypes, StorageAssumption DEF Init, TypeOK

\* Threads that end leave locks of the right type.
LEMMA StEndsType ==
  ASSUME TypeOK, NEW ts \in SUBSET Threads, Ends(ts)
  PROVE  /\ held' \in [Namespaces -> Threads \union {Nobody}]
         /\ lheld' \in Threads \union {Nobody} /\ mu' \in Threads \union {Nobody}
         /\ pc' \in [Threads -> {"off", "legacy", "mkdir", "meta", "copy", "ready", "trunc",
                                 "fill", "use", "walk", "save"}]
         /\ call' \in [Threads -> Requests \union {Idle}]
         /\ mem' \in [Threads -> Contents] /\ todo' \in [Threads -> SUBSET Namespaces]
         /\ stale' \in [Threads -> BOOLEAN] /\ seen' \in [Threads -> Vals \union {None, Garbled}]
         /\ lent' \subseteq Threads
         /\ \A t \in Threads : shared /\ pc'[t] = "fill" => mu' = t
BY ContentTypes DEF TypeOK, Ends, Freed

\* Every step keeps the types.
LEMMA StTypeStep == TypeOK /\ [Next]_vars => TypeOK'
<1> SUFFICES ASSUME TypeOK, [Next]_vars PROVE TypeOK'
  OBVIOUS
<1> USE DEF kind, old, dbs, disk, saved, memory, count, Goes, Returns, Remembers, Excused
<1>1. CASE UNCHANGED vars
  BY <1>1 DEF vars, TypeOK
<1>2. CASE Next
  <2> PICK t \in Threads :
        \/ Start(t) \/ Steps(t) \/ Commands(t) \/ Kill(t)
        \/ \E n \in Namespaces, v \in Vals \union {None} :
             Request(t, n, "put", v) \/ Request(t, n, "get", v)
    BY <1>2 DEF Next
  <2>1. CASE Start(t)
    BY <2>1, ContentTypes DEF Start, TypeOK
  <2>2. CASE OpenLegacy(t)
    BY <2>2 DEF OpenLegacy, TypeOK
  <2>3. CASE MakeDir(t)
    BY <2>3 DEF MakeDir, TypeOK
  <2>4. CASE ReadLegacy(t)
    BY <2>4 DEF ReadLegacy, TypeOK
  <2>5. ASSUME NEW n \in Namespaces, CopyOne(t, n) PROVE TypeOK'
    <3>1. bolt' \in Contents
      BY <2>5, ContentTypes, MergedType DEF CopyOne, TypeOK
    <3> QED BY <2>5, <3>1 DEF CopyOne, TypeOK
  <2>6. CASE CopyDone(t)
    BY <2>6, ContentTypes DEF CopyDone, Freed, TypeOK
  <2>7. CASE Truncate(t)
    BY <2>7, StorageAssumption DEF Truncate, Locked, Holds, TypeOK
  <2>8. CASE Fill(t)
    <3>1. form' \in {"whole", "bad"} /\ pc'[t] # "fill"
          /\ (\E p \in {"ready", "use"} : pc' = [pc EXCEPT ![t] = p])
      BY <2>8 DEF Fill, Resumes, TypeOK
    <3>2. stale' \in [Threads -> BOOLEAN]
      BY <2>8 DEF Fill, TypeOK
    <3>3. \A u \in Threads : shared /\ pc'[u] = "fill" => mu' = u
      BY <2>8, <3>1, StorageAssumption DEF Fill, TypeOK
    <3> QED BY <2>8, <3>1, <3>2, <3>3, ContentTypes DEF Fill, TypeOK
  <2>9. ASSUME NEW n \in Namespaces, OpenBolt(t, n) PROVE TypeOK'
    <3>1. bolt' \in Contents
      BY <2>9, ContentTypes, MergedType DEF OpenBolt, TypeOK
    <3> QED BY <2>9, <3>1 DEF OpenBolt, TypeOK
  <2>10. ASSUME NEW n \in Namespaces, OpenFile(t, n) PROVE TypeOK'
    <3>1. mem' \in [Threads -> Contents]
      <4>1. [file EXCEPT ![n] = None] \in Contents
        BY ContentTypes DEF TypeOK
      <4>2. \/ mem' = mem
            \/ \E c \in Contents : mem' = [mem EXCEPT ![t] = c]
        BY <2>10, <4>1 DEF OpenFile
      <4> QED BY <4>2 DEF TypeOK
    <3>2. \E p \in {"trunc", "use"} : pc' = [pc EXCEPT ![t] = p]
      BY <2>10 DEF OpenFile
    <3> QED BY <2>10, <3>1, <3>2 DEF OpenFile, TypeOK
  <2>11. ASSUME NEW n \in Namespaces, NEW v \in Vals \union {None},
                Request(t, n, "put", v) \/ Request(t, n, "get", v)
         PROVE  TypeOK'
    <3>1. \E c \in Requests : call' = [call EXCEPT ![t] = c]
      BY <2>11 DEF Request, Requests
    <3>2. call' \in [Threads -> Requests \union {Idle}]
      BY <3>1 DEF TypeOK
    <3>3. ops' = ops + 1
          /\ UNCHANGED <<kind, old, dbs, disk, saved, pc, memory, seen, lent, runs, excuse>>
      BY <2>11 DEF Request
    <3> QED BY <3>2, <3>3 DEF TypeOK
  <2>12. CASE Get(t)
    <3>1. call[t].ns \in Namespaces
      BY <2>12, CallTypes DEF Get, In
    <3>2. bolt[call[t].ns] \in Vals \union {None, Missing}
          /\ file[call[t].ns] \in Vals \union {None, Missing}
      BY <3>1, ContentTypes DEF TypeOK
    <3>3. \E v \in Vals \union {None} : seen' = [seen EXCEPT ![t] = v]
      BY <2>12, <3>2 DEF Get
    <3>4. seen' \in [Threads -> Vals \union {None, Garbled}] /\ lent' \subseteq Threads
      BY <2>12, <3>3 DEF Get, TypeOK
    <3> QED BY <2>12, <3>4 DEF Get, TypeOK
  <2>23. CASE Used(t)
    BY <2>23 DEF Used, TypeOK
  <2>13. CASE PutBolt(t)
    <3>1. bolt' \in Contents
      BY <2>13, CallTypes, ContentTypes DEF PutBolt, In, TypeOK
    <3>2. seen' \in [Threads -> Vals \union {None, Garbled}]
          /\ excuse' \subseteq {"raced", "interrupted", "overlap", "torn", "lent"}
      BY <2>13 DEF PutBolt, TypeOK
    <3> QED BY <2>13, <3>1, <3>2 DEF PutBolt, TypeOK
  <2>14. CASE PutFile(t)
    <3>1. mem' \in [Threads -> Contents]
      BY <2>14, CallTypes, ContentTypes DEF PutFile, In, TypeOK
    <3> QED BY <2>14, <3>1 DEF PutFile, TypeOK
  <2>15. CASE Backup(t)
    <3>1. (\E c \in Contents : mem' = [mem EXCEPT ![t] = c])
          /\ (\E ns \in SUBSET Namespaces : todo' = [todo EXCEPT ![t] = ns])
      <4>1. CASE driver = "file"
        BY <2>15, <4>1 DEF Backup, TypeOK
      <4>2. CASE driver # "file"
        BY <2>15, <4>2, ContentTypes DEF Backup
      <4> QED BY <4>1, <4>2
    <3>2. mem' \in [Threads -> Contents] /\ todo' \in [Threads -> SUBSET Namespaces]
      BY <3>1 DEF TypeOK
    <3> QED BY <2>15, <3>2 DEF Backup, TypeOK
  <2>16. ASSUME NEW n \in Namespaces, ReadOne(t, n) PROVE TypeOK'
    <3>1. mem' \in [Threads -> Contents]
      BY <2>16 DEF ReadOne, TypeOK, Contents
    <3> QED BY <2>16, <3>1 DEF ReadOne, TypeOK
  <2>17. CASE CreateBackup(t)
    BY <2>17 DEF CreateBackup, TypeOK
  <2>18. CASE WriteBackup(t)
    BY <2>18, ContentTypes DEF WriteBackup, TypeOK
  <2>19. CASE Recover(t)
    <3>1. [op |-> "restore", data |-> backup] \in Requests
      BY DEF Requests, TypeOK
    <3> QED BY <2>19, <3>1 DEF Recover, TypeOK
  <2>20. CASE Fail(t)
    BY <2>20, StEndsType DEF Fail, TypeOK
  <2>21. CASE Close(t)
    BY <2>21, StEndsType DEF Close, TypeOK
  <2>22. CASE Kill(t)
    <3> DEFINE ts == IF shared THEN Threads ELSE {t}
    <3>1. Ends(ts) /\ ts \in SUBSET Threads
      BY <2>22 DEF Kill
    <3>2. excuse' \subseteq {"raced", "interrupted", "overlap", "torn", "lent"}
      BY <2>22 DEF Kill, TypeOK
    <3> QED BY <2>22, <3>1, <3>2, StEndsType DEF Kill, TypeOK
  <2> QED BY <2>1, <2>2, <2>3, <2>4, <2>5, <2>6, <2>7, <2>8, <2>9, <2>10, <2>11, <2>12,
             <2>13, <2>14, <2>15, <2>16, <2>17, <2>18, <2>19, <2>20, <2>21, <2>22, <2>23
          DEF Steps, Commands
<1> QED BY <1>1, <1>2

\* Whatever is killed and whoever writes beside whom, the databases, the files and what
\* threads remember are contents, and the thread that fills the file of a process has its
\* mutex.
THEOREM TypeCorrect == Spec => []TypeOK
BY StTypeInitially, StTypeStep, PTL DEF Spec

-----------------------------------------------------------------------------
(* Within a process nothing fails.                                         *)

Values == Vals \union {None}
Calls  == [op : {"put"}, ns : Namespaces, val : Values] \union [op : {"get"}, ns : Namespaces]

-----------------------------------------------------------------------------
(* The invariant of a process on the file driver that has not been killed  *)
(* in a write.                                                             *)

StTyped ==
  /\ driver = "file"
  /\ pc \in [Threads -> {"off", "ready", "trunc", "fill", "use"}]
  /\ file \in [Namespaces -> Values]
  /\ form \in {"whole", "cut"} /\ mu \in Threads \union {Nobody}
  /\ call \in [Threads -> Calls \union {Idle}]
  /\ mem \in [Threads -> Contents]

\* The file is cut exactly while a thread that has the mutex fills it.
CutInside ==
  /\ \A t \in Threads : (pc[t] = "fill") = (mu = t)
  /\ (form = "cut") = (mu \in Threads)

\* What is to be written has every namespace the file had.
WritesAll == \A t \in Threads : pc[t] \in {"trunc", "fill"} => mem[t] \in [Namespaces -> Values]

StInv == driver = "file" /\ shared /\ "torn" \notin excuse => StTyped /\ CutInside /\ WritesAll

\* At the start no file is cut.
LEMMA StInitially == Init => StInv
<1> SUFFICES ASSUME Init, driver = "file", shared PROVE StTyped /\ CutInside /\ WritesAll
  BY DEF StInv
<1>1. file \in [Namespaces -> Values] /\ form = "whole" /\ mu = Nobody
  BY DEF Init, Keys, Values
<1>2. StTyped
  BY <1>1 DEF Init, StTyped, Contents, Nothing
<1>3. CutInside /\ WritesAll
  BY <1>1, StorageAssumption DEF Init, CutInside, WritesAll
<1> QED BY <1>2, <1>3

\* In such a process nothing fails.
LEMMA StNeverFails == StInv => NeverFailsInProcess
<1> SUFFICES ASSUME StInv, shared, "torn" \notin excuse, NEW t \in Threads, driver = "file"
             PROVE  ~Errs(t)
  BY DEF NeverFailsInProcess, Errs
<1> USE DEF StInv
<1>1. pc[t] \in {"ready", "use"} /\ Locked(t) => form = "whole"
  BY StorageAssumption DEF StTyped, CutInside, Locked
<1>2. call[t] # Idle /\ call[t].op = "put" => file[call[t].ns] # Missing
  <2>1. call[t] # Idle => call[t].ns \in Namespaces
    BY DEF StTyped, Calls
  <2> QED BY <2>1, StorageAssumption DEF StTyped, Values
<1> QED BY <1>1, <1>2 DEF Errs

\* The end of threads none of which fills the file.
LEMMA StEnds ==
  ASSUME StTyped, CutInside, WritesAll, NEW ts \in SUBSET Threads, Ends(ts),
         \A t \in ts : pc[t] # "fill", UNCHANGED <<kind, file, form>>
  PROVE  StTyped' /\ CutInside' /\ WritesAll'
<1> USE DEF Ends
<1>1. mu' = mu
  BY DEF CutInside
<1>2. StTyped'
  BY <1>1 DEF StTyped, kind, Contents, Nothing
<1>3. CutInside'
  BY <1>1, StorageAssumption DEF CutInside, StTyped
<1>4. WritesAll'
  BY DEF WritesAll, StTyped
<1> QED BY <1>2, <1>3, <1>4

\* The kind of the storage is for ever, and so is what has been excused.
LEMMA ExcuseStays == [Next]_vars => kind' = kind /\ excuse \subseteq excuse'
<1> SUFFICES ASSUME [Next]_vars PROVE kind' = kind /\ excuse \subseteq excuse'
  OBVIOUS
<1>1. CASE UNCHANGED vars
  BY <1>1 DEF vars
<1>2. CASE Next
  <2> PICK t \in Threads :
        \/ Start(t) \/ Steps(t) \/ Commands(t) \/ Kill(t)
        \/ \E n \in Namespaces, v \in Vals \union {None} :
             Request(t, n, "put", v) \/ Request(t, n, "get", v)
    BY <1>2 DEF Next
  <2>1. CASE Start(t)
    BY <2>1 DEF Start, Excused
  <2>2. CASE Steps(t)
    BY <2>2 DEF Steps, OpenLegacy, MakeDir, ReadLegacy, CopyOne, CopyDone, Truncate, Fill, Get,
       Used, PutBolt, PutFile, ReadOne, CreateBackup, WriteBackup, Fail, Close, Excused
  <2>3. CASE Commands(t)
    BY <2>3 DEF Commands, Backup, Recover, OpenBolt, OpenFile
  <2>4. CASE Kill(t)
    BY <2>4 DEF Kill
  <2>5. CASE \E n \in Namespaces, v \in Vals \union {None} :
               Request(t, n, "put", v) \/ Request(t, n, "get", v)
    BY <2>5 DEF Request
  <2> QED BY <2>1, <2>2, <2>3, <2>4, <2>5
<1> QED BY <1>1, <1>2

\* Every step keeps the invariant.
LEMMA StStep == StInv /\ [Next]_vars => StInv'
<1> SUFFICES ASSUME StInv, [Next]_vars, driver' = "file", shared', "torn" \notin excuse'
             PROVE  StTyped' /\ CutInside' /\ WritesAll'
  BY DEF StInv
<1> USE DEF kind, disk, memory
<1>0. driver = "file" /\ shared /\ "torn" \notin excuse
  BY ExcuseStays DEF kind
<1>1. StTyped /\ CutInside /\ WritesAll
  BY <1>0 DEF StInv
<1>2. CASE UNCHANGED vars
  BY <1>1, <1>2 DEF vars, StTyped, CutInside, WritesAll
<1>3. CASE Next
  <2> PICK t \in Threads :
        \/ Start(t) \/ Steps(t) \/ Commands(t) \/ Kill(t)
        \/ \E n \in Namespaces, v \in Vals \union {None} :
             Request(t, n, "put", v) \/ Request(t, n, "get", v)
    BY <1>3 DEF Next
  <2>1. CASE Start(t)
    <3>1. pc' = [pc EXCEPT ![t] = "ready"] /\ pc[t] = "off" /\ mem' = [mem EXCEPT ![t] = Nothing]
      BY <2>1, <1>1 DEF Start, Goes, Remembers, MustMigrate, CreatesFile, StTyped
    <3>2. Nothing \in Contents
      BY DEF Nothing, Contents
    <3>3. UNCHANGED <<driver, file, form, mu, call>>
      BY <2>1 DEF Start
    <3> QED BY <3>1, <3>2, <3>3, <1>1 DEF StTyped, CutInside, WritesAll
  <2>2. CASE Truncate(t)
    <3>1. pc[t] = "trunc" /\ pc' = [pc EXCEPT ![t] = "fill"] /\ mu' = t /\ form' = "cut"
          /\ mu \in {Nobody, t} /\ UNCHANGED <<driver, file, call, mem>>
      BY <2>2, <1>0 DEF Truncate, Goes, Holds, Locked
    <3> QED BY <3>1, <1>1, StorageAssumption DEF StTyped, CutInside, WritesAll
  <2>3. CASE Fill(t)
    <3>1. pc[t] = "fill" /\ mu = t /\ form = "cut"
      BY <2>3, <1>1 DEF Fill, CutInside, StTyped
    <3>2. form' = "whole" /\ mu' = Nobody /\ file' = mem[t] /\ UNCHANGED driver
      BY <2>3, <3>1, <1>0 DEF Fill
    <3>3. \E p \in {"ready", "use"} : pc' = [pc EXCEPT ![t] = p]
      BY <2>3 DEF Fill, Goes, Resumes
    <3>4. call' = [call EXCEPT ![t] = Idle] /\ mem' = [mem EXCEPT ![t] = Nothing]
          /\ Nothing \in Contents
      BY <2>3 DEF Fill, Returns, Remembers, Nothing, Contents
    <3>5. file' \in [Namespaces -> Values]
      BY <3>1, <3>2, <1>1 DEF WritesAll
    <3> QED BY <3>1, <3>2, <3>3, <3>4, <3>5, <1>1, StorageAssumption DEF StTyped, CutInside, WritesAll
  <2>4. CASE \E n \in Namespaces : OpenFile(t, n)
    <3> PICK n \in Namespaces : OpenFile(t, n)
      BY <2>4
    <3>1. file[n] # Missing
      BY <1>1, StorageAssumption DEF StTyped, Values
    <3>2. pc[t] = "ready" /\ pc' = [pc EXCEPT ![t] = "use"]
          /\ UNCHANGED <<driver, file, form, mu, call, mem>>
      BY <3>1 DEF OpenFile, Goes
    <3> QED BY <3>2, <1>1 DEF StTyped, CutInside, WritesAll
  <2>5. CASE \E n \in Namespaces, v \in Vals \union {None} :
               Request(t, n, "put", v) \/ Request(t, n, "get", v)
    <3>1. \E c \in Calls : call' = [call EXCEPT ![t] = c]
      BY <2>5 DEF Request, Calls, Values
    <3>2. UNCHANGED <<driver, file, form, mu, pc, mem>>
      BY <2>5 DEF Request
    <3> QED BY <3>1, <3>2, <1>1 DEF StTyped, CutInside, WritesAll
  <2>6. CASE Get(t)
    <3>1. call' = [call EXCEPT ![t] = Idle] /\ UNCHANGED <<driver, file, form, mu, pc, mem>>
      BY <2>6 DEF Get, Returns
    <3> QED BY <3>1, <1>1 DEF StTyped, CutInside, WritesAll
  <2>12. CASE Used(t)
    BY <2>12, <1>1 DEF Used, StTyped, CutInside, WritesAll
  <2>7. CASE PutFile(t)
    <3>1. call[t] \in Calls /\ call[t].op = "put" /\ pc[t] = "use"
      BY <2>7, <1>1 DEF PutFile, In, StTyped
    <3>2. call[t].ns \in Namespaces /\ call[t].val \in Values
      BY <3>1 DEF Calls
    <3>3. [file EXCEPT ![call[t].ns] = call[t].val] \in [Namespaces -> Values]
      BY <3>2, <1>1 DEF StTyped
    <3>4. \E c \in [Namespaces -> Values] : mem' = [mem EXCEPT ![t] = c]
      BY <2>7, <3>3, <1>1 DEF PutFile, Remembers, StTyped
    <3>5. pc' = [pc EXCEPT ![t] = "trunc"] /\ UNCHANGED <<driver, file, form, mu, call>>
      BY <2>7 DEF PutFile, Goes
    <3>6. [Namespaces -> Values] \subseteq Contents
      BY DEF Contents, Values
    <3> QED BY <3>1, <3>4, <3>5, <3>6, <1>1 DEF StTyped, CutInside, WritesAll
  <2>8. CASE Close(t)
    <3>1. Ends({t}) /\ pc[t] # "fill" /\ UNCHANGED <<kind, file, form>>
      BY <2>8 DEF Close
    <3> QED BY <3>1, <1>1, StEnds
  <2>9. CASE Kill(t)
    <3>1. Ends(Threads) /\ UNCHANGED <<kind, file, form>>
      BY <2>9, <1>0 DEF Kill
    <3>2. ASSUME NEW u \in Threads PROVE pc[u] # "fill"
      <4> SUFFICES ASSUME pc[u] = "fill" PROVE FALSE
        OBVIOUS
      <4>1. form = "cut"
        BY <1>1 DEF CutInside
      <4>2. u \in {v \in Threads : pc[v] = "fill" /\ form = "cut"}
        BY <4>1
      <4>3. "torn" \in excuse'
        BY <2>9, <1>0, <4>2 DEF Kill
      <4> QED BY <4>3
    <3> QED BY <3>1, <3>2, <1>1, StEnds
  <2>10. CASE Fail(t)
    <3>1. ~Errs(t)
      BY StNeverFails, <1>0 DEF NeverFailsInProcess
    <3>2. ~TimesOut(t)
      BY <1>1 DEF TimesOut, StTyped
    <3> QED BY <2>10, <3>1, <3>2 DEF Fail
  <2>11. CASE \/ OpenLegacy(t) \/ MakeDir(t) \/ ReadLegacy(t) \/ CopyDone(t) \/ PutBolt(t)
              \/ CreateBackup(t) \/ WriteBackup(t) \/ Backup(t) \/ Recover(t)
              \/ \E n \in Namespaces : CopyOne(t, n) \/ ReadOne(t, n) \/ OpenBolt(t, n)
    <3>1. pc[t] \notin {"legacy", "mkdir", "meta", "copy", "walk", "save"} /\ driver # "bolt"
      BY <1>1 DEF StTyped
    <3> QED BY <2>11, <3>1, <1>0 DEF OpenLegacy, MakeDir, ReadLegacy, CopyDone, PutBolt,
            CreateBackup, WriteBackup, Backup, Recover, CopyOne, ReadOne, OpenBolt
  <2> QED BY <2>1, <2>2, <2>3, <2>4, <2>5, <2>6, <2>7, <2>8, <2>9, <2>10, <2>11,
             <2>12
         DEF Steps, Commands
<1> QED BY <1>2, <1>3

\* In one process that writes the JSON file of the file driver, no goroutine ever reads it
\* cut or meets a namespace gone, however many write at once: the mutex, though let go
\* between the read and the write of a call, covers the whole of os.WriteFile.
THEOREM GoroutinesNeverFail == Spec => []NeverFailsInProcess
<1>1. Init => StInv BY StInitially
<1>2. StInv /\ [Next]_vars => StInv' BY StStep
<1>3. StInv => NeverFailsInProcess BY StNeverFails
<1> QED BY <1>1, <1>2, <1>3, PTL DEF Spec

-----------------------------------------------------------------------------
(* The storage implements the map.                                         *)

\* Where a thread stands while another one moves the data.
Before == {"off", "legacy", "mkdir"}

DriverSteps ==
  /\ driver = "bolt" => \A t \in Threads : pc[t] \notin {"trunc", "fill"}
  /\ driver = "file" => \A t \in Threads : pc[t] \notin {"legacy", "mkdir", "meta", "copy"}

CallStep(t) ==
  call[t] # Idle =>
    \/ call[t].op \in {"put", "get"} /\ pc[t] = "use"
    \/ call[t].op = "put" /\ pc[t] \in {"trunc", "fill"}
    \/ call[t].op = "restore" /\ pc[t] \in {"trunc", "fill", "copy"} /\ mem[t] = call[t].data
CallSteps == \A t \in Threads : CallStep(t)

Origins ==
  /\ legacy \in [Namespaces -> Vals \union {Missing}]
  /\ form = "absent" => file = Nothing

\* The move: nobody is past it while it is under way, and what is still to be copied is
\* all that keeps bolt from the legacy contents.
Moves ==
  /\ ~dir => bolt = Nothing /\ \A t \in Threads : pc[t] \in Before
  /\ \A t \in Threads : Migrating(t) => \A u \in Threads \ {t} : pc[u] \in Before
  /\ \A t \in Threads : pc[t] = "meta" => bolt = Nothing
  /\ \A t \in Threads : Migrating(t) /\ pc[t] = "copy" =>
       /\ mem[t] = legacy
       /\ \A n \in Namespaces : n \in todo[t] => legacy[n] # Missing
       /\ bolt = [n \in Namespaces |-> IF n \in todo[t] THEN Missing ELSE legacy[n]]

\* What is in a file c once the call r has been done.
Done(c, r) ==
  IF r = Idle THEN View(c)
  ELSE IF r.op = "put" THEN [View(c) EXCEPT ![r.ns] = r.val] ELSE View(r.data)

\* What a thread is about to write is the file with its own call done.
Pending ==
  \A t \in Threads :
    pc[t] \in {"trunc", "fill"} /\ ~stale[t] => View(mem[t]) = Done(file, call[t])

Unexcused == excuse = {} => (driver = "bolt" => Moves) /\ (driver = "file" => Pending)

MapInv == TypeOK /\ DriverSteps /\ CallSteps /\ Origins /\ Unexcused

\* At the start the map is what is shown.
LEMMA MapInitially == Init => MapInv /\ Abstract!Init
<1> SUFFICES ASSUME Init PROVE MapInv /\ Abstract!Init
  OBVIOUS
<1>1. TypeOK
  BY StTypeInitially
<1>2. DriverSteps /\ CallSteps
  BY DEF Init, DriverSteps, CallSteps, CallStep
<1>3. Origins
  BY StorageAssumption DEF Init, Origins, Nothing
<1>4. Unexcused
  BY DEF Init, Unexcused, Moves, Pending, Migrating, Before
<1>5. Abstract!Init
  <2>1. Shown \in [Namespaces -> Vals \union {None}]
    BY <1>1, ContentTypes DEF Shown, View, TypeOK, Contents
  <2> QED BY <2>1 DEF Init, Abstract!Init
<1> QED BY <1>1, <1>2, <1>3, <1>4, <1>5 DEF MapInv


\* A step of one thread that is neither in the move nor in a write of the file after it:
\* what it may change is bolt, when no move is under way, and its own place.
Aside(t) ==
  /\ UNCHANGED <<driver, legacy, dir, file, form>> /\ (excuse' = {} => excuse = {})
  /\ \A u \in Threads \ {t} :
       /\ pc'[u] = pc[u] /\ call'[u] = call[u] /\ mem'[u] = mem[u]
       /\ todo'[u] = todo[u] /\ stale'[u] = stale[u]
  /\ CallStep(t)'
  /\ \/ pc'[t] \in {"off", "ready", "use", "walk", "save"}
     \/ pc'[t] = "copy" /\ call'[t] # Idle /\ driver = "bolt"
  /\ pc[t] \notin Before \/ (pc'[t] = "off" /\ bolt' = bolt)

\* Such a step keeps the invariant.
LEMMA MapAside ==
  ASSUME MapInv, TypeOK', NEW t \in Threads, Aside(t)
  PROVE  MapInv'
<1>1. DriverSteps' /\ CallSteps' /\ Origins'
  BY DEF MapInv, Aside, DriverSteps, CallSteps, CallStep, Origins
<1>2. ASSUME excuse' = {}, driver' = "bolt" PROVE Moves'
  <2>1. Moves /\ excuse = {} /\ driver = "bolt"
    BY <1>2 DEF MapInv, Aside, Unexcused
  <2>2. ~Migrating(t)'
    BY DEF Aside, Migrating
  <2>3. \A u \in Threads : Migrating(u)' => u # t /\ Migrating(u)
    BY <2>2 DEF Aside, Migrating
  <2>4. CASE pc[t] \notin Before
    <3>1. dir /\ \A u \in Threads : ~Migrating(u)'
      BY <2>1, <2>3, <2>4 DEF Moves, Before
    <3>2. dir' /\ \A u \in Threads : pc'[u] # "meta"
      BY <3>1, <1>1, <2>1 DEF Migrating, CallSteps, CallStep, Aside
    <3> QED BY <3>1, <3>2 DEF Moves
  <2>5. CASE pc'[t] = "off" /\ bolt' = bolt
    BY <2>1, <2>3, <2>5 DEF Aside, Moves, Before
  <2> QED BY <2>4, <2>5 DEF Aside
<1>3. ASSUME excuse' = {}, driver' = "file" PROVE Pending'
  <2>1. Pending
    BY <1>3 DEF MapInv, Aside, Unexcused
  <2> SUFFICES ASSUME NEW u \in Threads, pc'[u] \in {"trunc", "fill"}, ~stale'[u]
               PROVE  View(mem'[u]) = Done(file', call'[u])
    BY DEF Pending, View, Done
  <2>2. u # t /\ mem'[u] = mem[u] /\ file' = file /\ call'[u] = call[u]
    BY <1>3 DEF Aside
  <2> QED BY <2>1, <2>2 DEF Pending, Aside
<1> QED BY <1>1, <1>2, <1>3 DEF MapInv, Unexcused

\* Every step keeps the invariant.
LEMMA MapStep == MapInv /\ [Next]_vars => MapInv'
<1> SUFFICES ASSUME MapInv, [Next]_vars PROVE MapInv'
  OBVIOUS
<1> USE DEF kind, old, dbs, disk, saved, memory, count, Goes, Returns, Remembers, Excused
<1>0. TypeOK /\ DriverSteps /\ CallSteps /\ Origins /\ Unexcused /\ TypeOK'
  BY StTypeStep DEF MapInv
<1> SUFFICES DriverSteps' /\ CallSteps' /\ Origins' /\ Unexcused'
  BY <1>0 DEF MapInv
<1>1. CASE UNCHANGED vars
  <2>1. DriverSteps' /\ CallSteps' /\ Origins'
    BY <1>0, <1>1 DEF vars, DriverSteps, CallSteps, CallStep, Origins
  <2>2. Moves' = Moves
    BY <1>1 DEF vars, Moves, Migrating
  <2>3. Pending' = Pending
    BY <1>1 DEF vars, Pending, Done, View
  <2> QED BY <1>0, <1>1, <2>1, <2>2, <2>3 DEF vars, Unexcused
<1>2. CASE Next
  <2> PICK t \in Threads :
        \/ Start(t) \/ Steps(t) \/ Commands(t) \/ Kill(t)
        \/ \E n \in Namespaces, v \in Vals \union {None} :
             Request(t, n, "put", v) \/ Request(t, n, "get", v)
    BY <1>2 DEF Next
  <2> DEFINE Ok == MapInv'
  <2> SUFFICES Ok
    BY DEF MapInv
  <2>0. ASSUME DriverSteps', CallSteps', Origins', excuse' = {} /\ driver' = "bolt" => Moves',
               excuse' = {} /\ driver' = "file" => Pending'
        PROVE  Ok
    BY <2>0, <1>0 DEF MapInv, Unexcused
  <2>00. Aside(t) => Ok
    BY <1>0, MapAside
  <2> HIDE DEF Ok
  <2>1. CASE Start(t)
    <3>1. /\ pc[t] = "off" /\ call[t] = Idle /\ dir' = dir
          /\ UNCHANGED <<driver, legacy, bolt, file, form, call, todo, stale>>
          /\ \A u \in Threads \ {t} : pc'[u] = pc[u] /\ mem'[u] = mem[u]
          /\ mem'[t] = Nothing
          /\ excuse' = {} => excuse = {} /\ \A u \in Threads : ~Migrating(u)
      BY <2>1, <1>0 DEF Start, TypeOK, CallSteps, CallStep, MustMigrate
    <3>2. /\ driver = "bolt" => pc'[t] = IF dir THEN "ready" ELSE "legacy"
          /\ driver = "file" => pc'[t] = IF form = "absent" THEN "trunc" ELSE "ready"
      BY <2>1, <1>0 DEF Start, TypeOK, MustMigrate, CreatesFile
    <3>3. DriverSteps' /\ CallSteps' /\ Origins'
      BY <1>0, <3>1, <3>2 DEF DriverSteps, CallSteps, CallStep, Origins, TypeOK
    <3>4. ASSUME excuse' = {}, driver' = "bolt" PROVE Moves'
      <4>1. \A u \in Threads : ~Migrating(u)' /\ pc'[u] # "meta"
        BY <1>0, <3>1, <3>2, <3>4 DEF Migrating, CallSteps, CallStep
      <4> QED BY <1>0, <3>1, <3>2, <3>4, <4>1 DEF Unexcused, Moves, Before
    <3>5. ASSUME excuse' = {}, driver' = "file" PROVE Pending'
      <4>1. pc'[t] = "trunc" => mem'[t] = file'
        BY <1>0, <3>1, <3>2, <3>5 DEF Origins
      <4> SUFFICES ASSUME NEW u \in Threads, pc'[u] \in {"trunc", "fill"}, ~stale'[u]
                   PROVE  View(mem'[u]) = Done(file', call'[u])
        BY DEF Pending, View, Done
      <4> QED BY <1>0, <3>1, <3>2, <3>5, <4>1 DEF Unexcused, Pending, Done
    <3> QED BY <2>0, <3>3, <3>4, <3>5
  <2>2. CASE OpenLegacy(t)
    <3>1. /\ pc[t] = "legacy" /\ pc' = [pc EXCEPT ![t] = "mkdir"]
          /\ UNCHANGED <<driver, legacy, bolt, dir, file, form, call, mem, todo, stale, excuse>>
      BY <2>2 DEF OpenLegacy
    <3>2. driver = "bolt"
      BY <1>0, <3>1 DEF DriverSteps, TypeOK
    <3>3. DriverSteps' /\ CallSteps' /\ Origins'
      BY <1>0, <3>1, <3>2 DEF DriverSteps, CallSteps, CallStep, Origins, TypeOK
    <3>4. ASSUME excuse' = {} PROVE Moves'
      BY <1>0, <3>1, <3>2, <3>4 DEF Unexcused, Moves, Migrating, Before, TypeOK
    <3> QED BY <2>0, <3>1, <3>2, <3>3, <3>4
  <2>3. CASE MakeDir(t)
    <3>1. /\ pc[t] = "mkdir" /\ pc' = [pc EXCEPT ![t] = "meta"] /\ dir'
          /\ excuse' = {} => excuse = {} /\ ~dir
          /\ UNCHANGED <<driver, legacy, bolt, file, form, call, mem, todo, stale>>
      BY <2>3 DEF MakeDir
    <3>2. driver = "bolt" /\ call[t] = Idle
      BY <1>0, <3>1 DEF DriverSteps, CallSteps, CallStep, TypeOK
    <3>3. DriverSteps' /\ CallSteps' /\ Origins'
      BY <1>0, <3>1, <3>2 DEF DriverSteps, CallSteps, CallStep, Origins, TypeOK
    <3>4. ASSUME excuse' = {} PROVE Moves'
      BY <1>0, <3>1, <3>2, <3>4 DEF Unexcused, Moves, Migrating, Before, TypeOK
    <3> QED BY <2>0, <3>1, <3>2, <3>3, <3>4
  <2>4. CASE ReadLegacy(t)
    <3>1. /\ pc[t] = "meta" /\ pc' = [pc EXCEPT ![t] = "copy"]
          /\ mem' = [mem EXCEPT ![t] = legacy]
          /\ todo' = [todo EXCEPT ![t] = {n \in Namespaces : legacy[n] # Missing}]
          /\ UNCHANGED <<driver, legacy, bolt, dir, file, form, call, stale, excuse>>
      BY <2>4 DEF ReadLegacy
    <3>2. driver = "bolt" /\ call[t] = Idle
      BY <1>0, <3>1 DEF DriverSteps, CallSteps, CallStep, TypeOK
    <3>3. DriverSteps' /\ CallSteps' /\ Origins'
      BY <1>0, <3>1, <3>2 DEF DriverSteps, CallSteps, CallStep, Origins, TypeOK
    <3>4. ASSUME excuse' = {} PROVE Moves'
      <4>1. Moves /\ bolt = Nothing /\ Migrating(t)
        BY <1>0, <3>1, <3>2, <3>4 DEF Unexcused, Moves, Migrating
      <4>2. dir /\ \A u \in Threads \ {t} : pc[u] \in Before
        BY <4>1, <3>1 DEF Moves, Before
      <4>3. \A u \in Threads : Migrating(u)' \/ pc'[u] = "meta" => u = t
        BY <1>0, <3>1, <4>2 DEF Migrating, Before, TypeOK
      <4>4. bolt' = [n \in Namespaces |-> IF n \in todo'[t] THEN Missing ELSE legacy'[n]]
        <5>1. \A n \in Namespaces : n \in todo'[t] <=> legacy[n] # Missing
          BY <1>0, <3>1 DEF TypeOK
        <5> QED BY <3>1, <4>1, <5>1 DEF Nothing
      <4>5. mem'[t] = legacy' /\ \A n \in Namespaces : n \in todo'[t] => legacy'[n] # Missing
        BY <1>0, <3>1 DEF TypeOK
      <4>6. pc'[t] # "meta" /\ dir' /\ \A u \in Threads \ {t} : pc'[u] \in Before
        BY <1>0, <3>1, <4>2 DEF TypeOK
      <4> QED BY <4>3, <4>4, <4>5, <4>6 DEF Moves
    <3> QED BY <2>0, <3>1, <3>2, <3>3, <3>4
  <2>5. ASSUME NEW n \in Namespaces, CopyOne(t, n) PROVE Ok
    <3>1. /\ pc[t] = "copy" /\ n \in todo[t]
          /\ bolt' = [bolt EXCEPT ![n] = Merged(bolt[n], mem[t][n])]
          /\ todo' = [todo EXCEPT ![t] = todo[t] \ {n}]
          /\ UNCHANGED <<driver, legacy, dir, file, form, pc, call, mem, stale, excuse>>
      BY <2>5 DEF CopyOne
    <3>2. driver = "bolt"
      BY <1>0, <3>1 DEF DriverSteps, TypeOK
    <3>3. CASE call[t] # Idle
      <4>1. Aside(t)
        BY <1>0, <3>1, <3>2, <3>3 DEF Aside, Before, CallSteps, CallStep, TypeOK
      <4> QED BY <4>1, <2>00
    <3>4. CASE call[t] = Idle
      <4>1. DriverSteps' /\ CallSteps' /\ Origins'
        BY <1>0, <3>1, <3>2 DEF DriverSteps, CallSteps, CallStep, Origins, TypeOK
      <4>2. ASSUME excuse' = {} PROVE Moves'
        <5>1. Moves /\ Migrating(t)
          BY <1>0, <3>1, <3>2, <3>4, <4>2 DEF Unexcused, Migrating
        <5>2. dir /\ \A u \in Threads \ {t} : pc[u] \in Before
          BY <5>1, <3>1 DEF Moves, Before
        <5>3. mem[t] = legacy /\ legacy[n] # Missing
              /\ (\A m \in Namespaces : m \in todo[t] => legacy[m] # Missing)
              /\ bolt = [m \in Namespaces |-> IF m \in todo[t] THEN Missing ELSE legacy[m]]
          BY <5>1, <3>1 DEF Moves
        <5>4. Merged(bolt[n], mem[t][n]) = legacy[n]
          BY <1>0, <5>3 DEF Merged, Origins
        <5>5. bolt' = [m \in Namespaces |-> IF m \in todo'[t] THEN Missing ELSE legacy'[m]]
          <6>1. todo'[t] = todo[t] \ {n}
            BY <1>0, <3>1 DEF TypeOK
          <6> QED BY <3>1, <5>3, <5>4, <6>1
        <5>6. \A u \in Threads : Migrating(u)' \/ pc'[u] = "meta" => u = t
          BY <3>1, <5>2 DEF Migrating, Before
        <5>7. mem'[t] = legacy' /\ \A m \in Namespaces : m \in todo'[t] => legacy'[m] # Missing
          BY <1>0, <3>1, <5>3 DEF TypeOK
        <5>8. pc'[t] # "meta" /\ dir' /\ \A u \in Threads \ {t} : pc'[u] \in Before
          BY <3>1, <5>2
        <5> QED BY <5>5, <5>6, <5>7, <5>8 DEF Moves
      <4> QED BY <2>0, <3>1, <3>2, <4>1, <4>2
    <3> QED BY <3>3, <3>4
  <2>6. CASE CopyDone(t)
    <3>1. Aside(t)
      BY <2>6, <1>0 DEF CopyDone, Aside, Before, CallStep, TypeOK
    <3> QED BY <3>1, <2>00
  <2>7. CASE Truncate(t)
    <3>1. /\ pc[t] = "trunc" /\ pc' = [pc EXCEPT ![t] = "fill"] /\ form' = "cut"
          /\ UNCHANGED <<driver, legacy, bolt, dir, file, call, mem, todo, stale, excuse>>
      BY <2>7 DEF Truncate
    <3>2. driver = "file"
      BY <1>0, <3>1 DEF DriverSteps, TypeOK
    <3>3. DriverSteps' /\ CallSteps' /\ Origins'
      BY <1>0, <3>1, <3>2 DEF DriverSteps, CallSteps, CallStep, Origins, TypeOK
    <3>4. ASSUME excuse' = {} PROVE Pending'
      <4> SUFFICES ASSUME NEW u \in Threads, pc'[u] \in {"trunc", "fill"}, ~stale'[u]
                   PROVE  View(mem'[u]) = Done(file', call'[u])
        BY DEF Pending, View, Done
      <4>1. pc[u] \in {"trunc", "fill"} /\ ~stale[u]
        BY <1>0, <3>1 DEF TypeOK
      <4> QED BY <1>0, <3>1, <3>2, <3>4, <4>1 DEF Unexcused, Pending
    <3> QED BY <2>0, <3>1, <3>2, <3>3, <3>4
  <2>8. CASE Fill(t)
    <3>1. /\ pc[t] = "fill" /\ form' # "absent"
          /\ call' = [call EXCEPT ![t] = Idle] /\ mem' = [mem EXCEPT ![t] = Nothing]
          /\ UNCHANGED <<driver, legacy>>
      BY <2>8 DEF Fill
    <3>2. \E p \in {"ready", "use"} : pc' = [pc EXCEPT ![t] = p]
      BY <2>8 DEF Fill, Resumes
    <3>3. driver = "file"
      BY <1>0, <3>1 DEF DriverSteps, TypeOK
    <3>4. DriverSteps' /\ CallSteps' /\ Origins'
      BY <1>0, <3>1, <3>2, <3>3 DEF DriverSteps, CallSteps, CallStep, Origins, TypeOK
    <3>5. Pending'
      <4> SUFFICES ASSUME NEW u \in Threads, pc'[u] \in {"trunc", "fill"} PROVE stale'[u]
        BY DEF Pending, View, Done
      <4>1. u # t /\ pc[u] \in {"trunc", "fill"}
        BY <1>0, <3>2 DEF TypeOK
      <4> QED BY <2>8, <4>1 DEF Fill
    <3> QED BY <2>0, <3>1, <3>3, <3>4, <3>5
  <2>9. ASSUME NEW n \in Namespaces, OpenBolt(t, n) PROVE Ok
    <3>1. Aside(t)
      BY <2>9, <1>0 DEF OpenBolt, Aside, Before, CallSteps, CallStep, TypeOK
    <3> QED BY <3>1, <2>00
  <2>10. ASSUME NEW n \in Namespaces, OpenFile(t, n) PROVE Ok
    <3>1. CASE file[n] # Missing
      <4>1. Aside(t)
        BY <2>10, <3>1, <1>0 DEF OpenFile, Aside, Before, CallSteps, CallStep, TypeOK
      <4> QED BY <4>1, <2>00
    <3>2. CASE file[n] = Missing
      <4>1. /\ pc[t] = "ready" /\ pc' = [pc EXCEPT ![t] = "trunc"]
            /\ mem' = [mem EXCEPT ![t] = [file EXCEPT ![n] = None]]
            /\ UNCHANGED <<driver, legacy, bolt, dir, file, form, call, todo, stale, excuse>>
            /\ driver = "file"
        BY <2>10, <3>2 DEF OpenFile
      <4>2. call[t] = Idle
        BY <1>0, <4>1 DEF CallSteps, CallStep
      <4>3. DriverSteps' /\ CallSteps' /\ Origins'
        BY <1>0, <4>1, <4>2 DEF DriverSteps, CallSteps, CallStep, Origins, TypeOK
      <4>4. View([file EXCEPT ![n] = None]) = View(file)
        BY <1>0, <3>2, StorageAssumption DEF View, TypeOK, Contents
      <4>5. ASSUME excuse' = {} PROVE Pending'
        <5> SUFFICES ASSUME NEW u \in Threads, pc'[u] \in {"trunc", "fill"}, ~stale'[u]
                     PROVE  View(mem'[u]) = Done(file', call'[u])
          BY DEF Pending, View, Done
        <5>1. CASE u = t
          BY <1>0, <4>1, <4>2, <4>4, <5>1 DEF Done, TypeOK
        <5>2. CASE u # t
          <6>1. pc[u] \in {"trunc", "fill"} /\ ~stale[u] /\ mem'[u] = mem[u]
            BY <1>0, <4>1, <5>2 DEF TypeOK
          <6> QED BY <1>0, <4>1, <4>5, <6>1 DEF Unexcused, Pending
        <5> QED BY <5>1, <5>2
      <4> QED BY <2>0, <4>1, <4>3, <4>5
    <3> QED BY <3>1, <3>2
  <2>11. ASSUME NEW n \in Namespaces, NEW v \in Vals \union {None},
                Request(t, n, "put", v) \/ Request(t, n, "get", v)
         PROVE  Ok
    <3>1. \/ call' = [call EXCEPT ![t] = [op |-> "put", ns |-> n, val |-> v]]
          \/ call' = [call EXCEPT ![t] = [op |-> "get", ns |-> n]]
      BY <2>11 DEF Request
    <3>2. call'[t].op \in {"put", "get"} /\ \A u \in Threads \ {t} : call'[u] = call[u]
      BY <3>1, <1>0 DEF TypeOK
    <3>3. /\ pc[t] = "use"
          /\ UNCHANGED <<driver, legacy, bolt, dir, file, form, pc, mem, todo, stale, excuse>>
      BY <2>11 DEF Request
    <3>4. Aside(t)
      BY <3>2, <3>3, <1>0 DEF Aside, Before, CallStep, TypeOK
    <3> QED BY <3>4, <2>00
  <2>12. CASE Get(t)
    <3>1. Aside(t)
      BY <2>12, <1>0 DEF Get, In, Aside, Before, CallStep, TypeOK
    <3> QED BY <3>1, <2>00
  <2>13. CASE PutBolt(t)
    <3>1. Aside(t)
      BY <2>13, <1>0 DEF PutBolt, In, Aside, Before, CallStep, TypeOK
    <3> QED BY <3>1, <2>00
  <2>23. CASE Used(t)
    <3>1. UNCHANGED <<driver, legacy, bolt, dir, file, form, pc, call, mem, todo, stale, excuse>>
      BY <2>23 DEF Used
    <3>2. DriverSteps' /\ CallSteps' /\ Origins'
      BY <1>0, <3>1 DEF DriverSteps, CallSteps, CallStep, Origins
    <3>3. Moves' = Moves /\ Pending' = Pending
      BY <3>1 DEF Moves, Migrating, Pending, Done, View
    <3> QED BY <1>0, <2>0, <3>1, <3>2, <3>3 DEF Unexcused
  <2>14. CASE PutFile(t)
    <3>1. /\ pc[t] = "use" /\ call[t] # Idle /\ call[t].op = "put" /\ driver = "file"
          /\ file[call[t].ns] # Missing \/ call[t].val = None
          /\ mem' = [mem EXCEPT ![t] = IF file[call[t].ns] = Missing THEN file
                                       ELSE [file EXCEPT ![call[t].ns] = call[t].val]]
          /\ pc' = [pc EXCEPT ![t] = "trunc"]
          /\ UNCHANGED <<driver, legacy, bolt, dir, file, form, call, todo, stale, excuse>>
      BY <2>14 DEF PutFile, In
    <3>2. call[t].ns \in Namespaces /\ call[t].val \in Vals \union {None}
      BY <1>0, <3>1, CallTypes
    <3>3. DriverSteps' /\ CallSteps' /\ Origins'
      BY <1>0, <3>1 DEF DriverSteps, CallSteps, CallStep, Origins, TypeOK
    <3>4. View(mem'[t]) = Done(file, call[t])
      <4>1. CASE file[call[t].ns] = Missing
        <5>1. mem'[t] = file /\ call[t].val = None
          BY <1>0, <3>1, <4>1 DEF TypeOK
        <5>2. View(file) = [View(file) EXCEPT ![call[t].ns] = None]
          BY <3>2, <4>1 DEF View
        <5> QED BY <3>1, <5>1, <5>2 DEF Done
      <4>2. CASE file[call[t].ns] # Missing
        <5>1. mem'[t] = [file EXCEPT ![call[t].ns] = call[t].val]
          BY <1>0, <3>1, <4>2 DEF TypeOK
        <5>2. View([file EXCEPT ![call[t].ns] = call[t].val])
                = [View(file) EXCEPT ![call[t].ns] = call[t].val]
          BY <1>0, <3>2, StorageAssumption DEF View, TypeOK, Contents
        <5> QED BY <3>1, <5>1, <5>2 DEF Done
      <4> QED BY <4>1, <4>2
    <3>5. ASSUME excuse' = {} PROVE Pending'
      <4> SUFFICES ASSUME NEW u \in Threads, pc'[u] \in {"trunc", "fill"}, ~stale'[u]
                   PROVE  View(mem'[u]) = Done(file', call'[u])
        BY DEF Pending, View, Done
      <4>1. CASE u = t
        BY <3>1, <3>4, <4>1
      <4>2. CASE u # t
        <5>1. pc[u] \in {"trunc", "fill"} /\ ~stale[u] /\ mem'[u] = mem[u]
          BY <1>0, <3>1, <4>2 DEF TypeOK
        <5> QED BY <1>0, <3>1, <3>5, <5>1 DEF Unexcused, Pending
      <4> QED BY <4>1, <4>2
    <3> QED BY <2>0, <3>1, <3>3, <3>5
  <2>15. CASE Backup(t)
    <3>1. Aside(t)
      BY <2>15, <1>0 DEF Backup, Aside, Before, CallSteps, CallStep, TypeOK
    <3> QED BY <3>1, <2>00
  <2>16. ASSUME NEW n \in Namespaces, ReadOne(t, n) PROVE Ok
    <3>1. Aside(t)
      BY <2>16, <1>0 DEF ReadOne, Aside, Before, CallSteps, CallStep, TypeOK
    <3> QED BY <3>1, <2>00
  <2>17. CASE CreateBackup(t)
    <3>1. Aside(t)
      BY <2>17, <1>0 DEF CreateBackup, Aside, Before, CallSteps, CallStep, TypeOK
    <3> QED BY <3>1, <2>00
  <2>18. CASE WriteBackup(t)
    <3>1. Aside(t)
      BY <2>18, <1>0 DEF WriteBackup, Aside, Before, CallSteps, CallStep, TypeOK
    <3> QED BY <3>1, <2>00
  <2>19. CASE Recover(t)
    <3>1. /\ pc[t] = "ready" /\ call' = [call EXCEPT ![t] = [op |-> "restore", data |-> backup]]
          /\ mem' = [mem EXCEPT ![t] = backup]
          /\ UNCHANGED <<driver, legacy, bolt, dir, file, form, stale, excuse>>
      BY <2>19 DEF Recover
    <3>2. CASE driver # "file"
      <4>1. pc' = [pc EXCEPT ![t] = "copy"] /\ driver = "bolt"
            /\ (\A u \in Threads \ {t} : todo'[u] = todo[u]) /\ dir' = dir
        BY <2>19, <1>0, <3>2 DEF Recover, TypeOK
      <4>2. call'[t] = [op |-> "restore", data |-> backup] /\ call'[t] # Idle
            /\ mem'[t] = backup
        BY <1>0, <3>1, StorageAssumption DEF TypeOK, Requests
      <4>3. CallStep(t)'
        BY <1>0, <4>1, <4>2 DEF CallStep, TypeOK
      <4>4. Aside(t)
        BY <1>0, <3>1, <4>1, <4>2, <4>3 DEF Aside, Before, TypeOK
      <4> QED BY <4>4, <2>00
    <3>3. CASE driver = "file"
      <4>1. pc' = [pc EXCEPT ![t] = "trunc"]
        BY <2>19, <3>3 DEF Recover
      <4>2. DriverSteps' /\ CallSteps' /\ Origins'
        BY <1>0, <3>1, <3>3, <4>1 DEF DriverSteps, CallSteps, CallStep, Origins, TypeOK
      <4>3. ASSUME excuse' = {} PROVE Pending'
        <5> SUFFICES ASSUME NEW u \in Threads, pc'[u] \in {"trunc", "fill"}, ~stale'[u]
                     PROVE  View(mem'[u]) = Done(file', call'[u])
          BY DEF Pending, View, Done
        <5>1. CASE u = t
          <6>1. mem'[t] = backup /\ call'[t] = [op |-> "restore", data |-> backup]
                /\ call'[t] # Idle
            BY <1>0, <3>1, StorageAssumption DEF TypeOK, Requests
          <6> QED BY <5>1, <6>1 DEF Done
        <5>2. CASE u # t
          <6>1. pc[u] \in {"trunc", "fill"} /\ ~stale[u] /\ mem'[u] = mem[u] /\ call'[u] = call[u]
            BY <1>0, <3>1, <4>1, <5>2 DEF TypeOK
          <6> QED BY <1>0, <3>1, <3>3, <4>3, <6>1 DEF Unexcused, Pending
        <5> QED BY <5>1, <5>2
      <4> QED BY <2>0, <3>1, <3>3, <4>2, <4>3
    <3> QED BY <3>2, <3>3
  <2>20. CASE Fail(t)
    <3>1. Aside(t)
      BY <2>20, <1>0 DEF Fail, Ends, Aside, CallStep, TypeOK
    <3> QED BY <3>1, <2>00
  <2>21. CASE Close(t)
    <3>1. Aside(t)
      BY <2>21, <1>0 DEF Close, Ends, Aside, CallStep, TypeOK
    <3> QED BY <3>1, <2>00
  <2>22. CASE Kill(t)
    <3>1. CASE ~shared
      <4>1. Aside(t)
        BY <2>22, <1>0, <3>1 DEF Kill, Ends, Aside, CallStep, TypeOK
      <4> QED BY <4>1, <2>00
    <3>2. CASE shared
      <4>1. (\A u \in Threads : pc'[u] = "off" /\ call'[u] = Idle)
            /\ UNCHANGED <<driver, legacy, bolt, dir, file, form>> /\ excuse \subseteq excuse'
        BY <2>22, <1>0, <3>2 DEF Kill, Ends, TypeOK
      <4>2. DriverSteps' /\ CallSteps' /\ Origins' /\ Pending'
        BY <1>0, <4>1 DEF DriverSteps, CallSteps, CallStep, Origins, Pending, View, Done
      <4>3. ASSUME excuse' = {}, driver' = "bolt" PROVE Moves'
        <5>1. Moves
          BY <1>0, <4>1, <4>3 DEF Unexcused
        <5> QED BY <4>1, <5>1 DEF Moves, Migrating, Before
      <4> QED BY <2>0, <4>2, <4>3
    <3> QED BY <3>1, <3>2
  <2> QED BY <2>1, <2>2, <2>3, <2>4, <2>5, <2>6, <2>7, <2>8, <2>9, <2>10, <2>11, <2>12,
             <2>13, <2>14, <2>15, <2>16, <2>17, <2>18, <2>19, <2>20, <2>21, <2>22, <2>23
          DEF Steps, Commands
<1> QED BY <1>1, <1>2

\* The map changes only with what it is made of.
LEMMA ShownStays ==
  ASSUME UNCHANGED <<driver, legacy, bolt, dir, file>>,
         \A u \in Threads : Migrating(u)' = Migrating(u)
  PROVE  Shown' = Shown
BY DEF Shown, View

\* While a thread is past the move, the map is bolt's or the file's.
LEMMA ShownIs ==
  ASSUME MapInv, excuse = {}, NEW t \in Threads, pc[t] \notin Before, ~Migrating(t)
  PROVE  /\ Shown = View(IF driver = "file" THEN file ELSE bolt)
         /\ driver = "bolt" => dir /\ \A u \in Threads : ~Migrating(u)
<1>1. CASE driver = "file"
  BY <1>1 DEF Shown
<1>2. CASE driver = "bolt"
  <2>1. dir /\ \A u \in Threads : ~Migrating(u)
    BY <1>2 DEF MapInv, Unexcused, Moves
  <2> QED BY <1>2, <2>1 DEF Shown
<1> QED BY <1>1, <1>2 DEF MapInv, TypeOK

\* A step that is not excused is one of the map's, or the map does not notice it.
LEMMA MapRefines ==
  ASSUME MapInv, MapInv', Next, excuse' = {}
  PROVE  Abstract!Kept \/ UNCHANGED <<Shown, call, seen>>
<1> USE DEF kind, old, dbs, disk, saved, memory, count, Goes, Returns, Remembers, Excused
<1>0. TypeOK /\ DriverSteps /\ CallSteps /\ Origins /\ Unexcused /\ TypeOK'
  BY DEF MapInv
<1>00. excuse = {}
  BY ExcuseStays
<1> PICK t \in Threads :
      \/ Start(t) \/ Steps(t) \/ Commands(t) \/ Kill(t)
      \/ \E n \in Namespaces, v \in Vals \union {None} :
           Request(t, n, "put", v) \/ Request(t, n, "get", v)
  BY DEF Next
<1> DEFINE Ok == Abstract!Kept \/ UNCHANGED <<Shown, call, seen>>
<1> SUFFICES Ok
  OBVIOUS
<1> HIDE DEF Ok
\* Most steps leave the map, and what calls have brought, alone.
<1>01. ASSUME UNCHANGED <<driver, legacy, bolt, dir, file, call, seen>>,
             \A u \in Threads : Migrating(u)' = Migrating(u)
      PROVE  Ok
  BY <1>01, ShownStays DEF Ok
<1>1. CASE Start(t)
  <2>1. /\ pc[t] = "off" /\ dir' = dir /\ pc' = [pc EXCEPT ![t] = pc'[t]]
        /\ pc'[t] \in {"legacy", "trunc", "ready"}
        /\ UNCHANGED <<driver, legacy, bolt, file, call, seen>>
    BY <1>1, <1>0 DEF Start, MustMigrate, CreatesFile, TypeOK
  <2>2. \A u \in Threads : Migrating(u)' = Migrating(u)
    BY <1>0, <2>1 DEF Migrating, TypeOK
  <2> QED BY <1>01, <2>1, <2>2
<1>2. CASE OpenLegacy(t)
  <2>1. \A u \in Threads : Migrating(u)' = Migrating(u)
    BY <1>2, <1>0 DEF OpenLegacy, Migrating, TypeOK
  <2> QED BY <1>2, <1>01, <2>1 DEF OpenLegacy
<1>3. CASE MakeDir(t)
  <2>1. pc[t] = "mkdir" /\ pc'[t] = "meta" /\ ~dir /\ dir' /\ call' = call /\ seen' = seen
        /\ UNCHANGED <<driver, legacy, bolt, file>>
    BY <1>3, <1>0 DEF MakeDir, TypeOK
  <2>2. driver = "bolt" /\ call[t] = Idle
    BY <1>0, <2>1 DEF DriverSteps, CallSteps, CallStep, TypeOK
  <2>3. Shown = View(legacy) /\ Shown' = View(legacy)
    BY <2>1, <2>2 DEF Shown, Migrating, View
  <2> QED BY <2>1, <2>3 DEF Ok
<1>4. CASE ReadLegacy(t)
  <2>1. \A u \in Threads : Migrating(u)' = Migrating(u)
    BY <1>4, <1>0 DEF ReadLegacy, Migrating, TypeOK
  <2> QED BY <1>4, <1>01, <2>1 DEF ReadLegacy
<1>5. ASSUME NEW n \in Namespaces, CopyOne(t, n) PROVE Ok
  <2>1. /\ pc[t] = "copy" /\ n \in todo[t]
        /\ bolt' = [bolt EXCEPT ![n] = Merged(bolt[n], mem[t][n])]
        /\ UNCHANGED <<driver, legacy, dir, file, pc, call, seen>>
    BY <1>5 DEF CopyOne
  <2>2. driver = "bolt" /\ \A u \in Threads : Migrating(u)' = Migrating(u)
    BY <1>0, <2>1 DEF DriverSteps, TypeOK, Migrating
  <2>3. CASE call[t] = Idle
    <3>1. Shown = View(legacy) /\ Shown' = View(legacy)
      BY <2>1, <2>2, <2>3 DEF Shown, Migrating, View
    <3> QED BY <2>1, <3>1 DEF Ok
  <2>4. CASE call[t] # Idle
    <3>1. call[t].op = "restore" /\ mem[t] = call[t].data /\ call[t].data \in Contents
      BY <1>0, <2>1, <2>4, CallTypes DEF CallSteps, CallStep
    <3>2. Shown = View(bolt) /\ Shown' = View(bolt')
      BY <1>00, <2>1, <2>2, <2>4, ShownIs DEF Before, Migrating, Shown, View
    <3>3. CASE call[t].data[n] \in Vals
      <4>1. View(bolt') = [View(bolt) EXCEPT ![n] = call[t].data[n]]
        BY <1>0, <2>1, <3>1, <3>3, StorageAssumption DEF View, Merged, TypeOK, Contents
      <4>2. Abstract!RestoreOne(t, n)
        BY <2>1, <2>4, <3>1, <3>2, <3>3, <4>1 DEF Abstract!RestoreOne, Abstract!In
      <4> QED BY <4>2 DEF Ok, Abstract!Kept
    <3>4. CASE call[t].data[n] \notin Vals
      <4>1. View(bolt') = View(bolt)
        BY <1>0, <2>1, <3>1, <3>4, StorageAssumption DEF View, Merged, TypeOK, Contents
      <4> QED BY <2>1, <3>2, <4>1 DEF Ok
    <3> QED BY <3>3, <3>4
  <2> QED BY <2>3, <2>4
<1>6. CASE CopyDone(t)
  <2>1. /\ pc[t] = "copy" /\ todo[t] = {} /\ call' = [call EXCEPT ![t] = Idle]
        /\ \A u \in Threads \ {t} : pc'[u] = pc[u]
        /\ pc'[t] \in {"ready", "use"}
        /\ UNCHANGED <<driver, legacy, bolt, dir, file, seen>>
    BY <1>6, <1>0 DEF CopyDone, TypeOK
  <2>2. driver = "bolt" /\ ~Migrating(t)'
    BY <1>0, <2>1 DEF DriverSteps, TypeOK, Migrating
  <2>3. CASE call[t] = Idle
    <3>1. call' = call
      BY <1>0, <2>1, <2>3 DEF TypeOK
    <3>2. Migrating(t) /\ Moves /\ dir
      BY <1>0, <1>00, <2>1, <2>2, <2>3 DEF Migrating, Unexcused, Moves, Before
    <3>3. \A u \in Threads : ~Migrating(u)'
      BY <2>1, <2>2, <3>2 DEF Moves, Migrating, Before
    <3>4. bolt = legacy
      BY <1>0, <2>1, <3>2 DEF Moves, Origins
    <3>5. Shown = View(legacy) /\ Shown' = View(bolt)
      BY <2>1, <2>2, <3>2, <3>3 DEF Shown, View
    <3> QED BY <2>1, <3>1, <3>4, <3>5 DEF Ok
  <2>4. CASE call[t] # Idle
    <3>1. call[t].op = "restore" /\ ~Migrating(t)
      BY <1>0, <2>1, <2>4 DEF CallSteps, CallStep, Migrating
    <3>2. \A u \in Threads : Migrating(u)' = Migrating(u)
      BY <1>0, <2>1, <2>2, <3>1 DEF Migrating, TypeOK
    <3>3. Shown' = Shown
      BY <2>1, <3>2, ShownStays
    <3>4. Abstract!Restored(t)
      BY <2>1, <2>4, <3>1, <3>3 DEF Abstract!Restored, Abstract!In, Abstract!Returns
    <3> QED BY <3>4 DEF Ok, Abstract!Kept
  <2> QED BY <2>3, <2>4
<1>7. CASE Truncate(t)
  <2>1. \A u \in Threads : Migrating(u)' = Migrating(u)
    BY <1>7, <1>0 DEF Truncate, Migrating, TypeOK
  <2> QED BY <1>7, <1>01, <2>1 DEF Truncate
<1>8. CASE Fill(t)
  <2>1. /\ pc[t] = "fill" /\ ~stale[t] /\ file' = mem[t]
        /\ call' = [call EXCEPT ![t] = Idle] /\ UNCHANGED <<driver, seen>>
    BY <1>8 DEF Fill
  <2>2. driver = "file"
    BY <1>0, <2>1 DEF DriverSteps, TypeOK
  <2>3. Shown = View(file) /\ Shown' = View(mem[t])
    BY <2>1, <2>2 DEF Shown, View
  <2>4. View(mem[t]) = Done(file, call[t])
    BY <1>0, <1>00, <2>1, <2>2 DEF Unexcused, Pending
  <2>5. CASE call[t] = Idle
    <3>1. call' = call
      BY <1>0, <2>1, <2>5 DEF TypeOK
    <3> QED BY <2>1, <2>3, <2>4, <2>5, <3>1 DEF Ok, Done
  <2>6. CASE call[t] # Idle /\ call[t].op = "put"
    <3>1. Abstract!Put(t)
      BY <2>1, <2>3, <2>4, <2>6 DEF Done, Abstract!Put, Abstract!In, Abstract!Returns
    <3> QED BY <3>1 DEF Ok, Abstract!Kept
  <2>7. CASE call[t] # Idle /\ call[t].op # "put"
    <3>1. call[t].op = "restore" /\ call[t].data \in Contents
      BY <1>0, <2>1, <2>7, CallTypes DEF CallSteps, CallStep
    <3>2. View(call[t].data) =
            [n \in Namespaces |-> IF call[t].data[n] \in Vals THEN call[t].data[n] ELSE None]
      BY <3>1, StorageAssumption DEF View, Contents
    <3>3. Abstract!RestoreAll(t)
      BY <2>1, <2>3, <2>4, <2>7, <3>1, <3>2
         DEF Done, Abstract!RestoreAll, Abstract!In, Abstract!Returns
    <3> QED BY <3>3 DEF Ok, Abstract!Kept
  <2> QED BY <2>5, <2>6, <2>7
<1>9. ASSUME NEW n \in Namespaces, OpenBolt(t, n) PROVE Ok
  <2>1. /\ pc[t] = "ready" /\ driver = "bolt" /\ bolt' = [bolt EXCEPT ![n] = Merged(bolt[n], None)]
        /\ pc' = [pc EXCEPT ![t] = "use"]
        /\ UNCHANGED <<driver, legacy, dir, file, call, seen>>
    BY <1>9 DEF OpenBolt
  <2>2. View(bolt') = View(bolt)
    BY <1>0, <2>1, StorageAssumption DEF View, Merged, TypeOK, Contents
  <2>3. Shown = View(bolt) /\ Shown' = View(bolt')
    <3>1. dir /\ \A u \in Threads : ~Migrating(u)
      BY <1>00, <2>1, ShownIs DEF Before, Migrating
    <3>2. \A u \in Threads : ~Migrating(u)'
      BY <1>0, <2>1, <3>1 DEF Migrating, TypeOK
    <3> QED BY <2>1, <3>1, <3>2 DEF Shown, View
  <2> QED BY <2>1, <2>2, <2>3 DEF Ok
<1>10. ASSUME NEW n \in Namespaces, OpenFile(t, n) PROVE Ok
  <2>1. driver = "file" /\ UNCHANGED <<driver, file, call, seen>>
    BY <1>10 DEF OpenFile
  <2>2. Shown' = Shown
    BY <2>1 DEF Shown, View
  <2> QED BY <2>1, <2>2 DEF Ok
<1>11. ASSUME NEW n \in Namespaces, NEW v \in Vals \union {None},
              Request(t, n, "put", v) \/ Request(t, n, "get", v)
       PROVE  Ok
  <2>1. /\ call[t] = Idle /\ pc[t] = "use"
        /\ UNCHANGED <<driver, legacy, bolt, dir, file, pc, seen>>
    BY <1>11 DEF Request
  <2>2. \A u \in Threads \ {t} : call'[u] = call[u]
    BY <1>11, <1>0 DEF Request, TypeOK
  <2>3. \A u \in Threads : Migrating(u)' = Migrating(u)
    BY <2>1, <2>2 DEF Migrating
  <2>4. Abstract!Invoke(t)
    BY <2>1, <2>2, <2>3, ShownStays DEF Abstract!Invoke
  <2> QED BY <2>4 DEF Ok, Abstract!Kept
<1>12. CASE Get(t)
  <2>1. /\ pc[t] = "use" /\ call[t] # Idle /\ call[t].op = "get"
        /\ seen' = [seen EXCEPT ![t] =
             LET v == IF driver = "file" THEN file[call[t].ns] ELSE bolt[call[t].ns]
             IN IF v = Missing THEN None ELSE v]
        /\ call' = [call EXCEPT ![t] = Idle]
        /\ UNCHANGED <<driver, legacy, bolt, dir, file, pc>>
    BY <1>12 DEF Get, In
  <2>2. call[t].ns \in Namespaces
    BY <1>0, <2>1, CallTypes
  <2>3. Shown = View(IF driver = "file" THEN file ELSE bolt)
    BY <1>00, <2>1, ShownIs DEF Before, Migrating
  <2>4. seen' = [seen EXCEPT ![t] = Shown[call[t].ns]]
    BY <2>1, <2>2, <2>3 DEF View
  <2>5. \A u \in Threads : Migrating(u)' = Migrating(u)
    BY <1>0, <2>1 DEF Migrating, TypeOK
  <2>6. Abstract!Get(t)
    BY <2>1, <2>4, <2>5, ShownStays DEF Abstract!Get, Abstract!In, Abstract!Returns
  <2> QED BY <2>6 DEF Ok, Abstract!Kept
<1>13. CASE PutBolt(t)
  <2>1. /\ pc[t] = "use" /\ call[t] # Idle /\ call[t].op = "put" /\ driver = "bolt"
        /\ bolt' = [bolt EXCEPT ![call[t].ns] = call[t].val]
        /\ call' = [call EXCEPT ![t] = Idle]
        /\ UNCHANGED <<driver, legacy, dir, file, pc>>
    BY <1>13 DEF PutBolt, In
  <2>0. seen' = seen
    BY <1>13, <1>0 DEF PutBolt, TypeOK
  <2>2. call[t].ns \in Namespaces /\ call[t].val \in Vals \union {None}
    BY <1>0, <2>1, CallTypes
  <2>3. dir /\ \A u \in Threads : ~Migrating(u)
    BY <1>00, <2>1, ShownIs DEF Before, Migrating
  <2>4. \A u \in Threads : ~Migrating(u)'
    BY <1>0, <2>1, <2>3 DEF Migrating, TypeOK
  <2>5. Shown = View(bolt) /\ Shown' = View(bolt')
    BY <2>1, <2>3, <2>4 DEF Shown, View
  <2>6. View(bolt') = [View(bolt) EXCEPT ![call[t].ns] = call[t].val]
    BY <1>0, <2>1, <2>2, StorageAssumption DEF View, TypeOK, Contents
  <2>7. Abstract!Put(t)
    BY <2>0, <2>1, <2>5, <2>6 DEF Abstract!Put, Abstract!In, Abstract!Returns
  <2> QED BY <2>7 DEF Ok, Abstract!Kept
<1>23. CASE Used(t)
  <2>1. \A u \in Threads : Migrating(u)' = Migrating(u)
    BY <1>23 DEF Used, Migrating
  <2> QED BY <1>23, <1>01, <2>1 DEF Used
<1>14. CASE PutFile(t)
  <2>1. driver = "file" /\ UNCHANGED <<driver, file, call, seen>>
    BY <1>14 DEF PutFile
  <2>2. Shown' = Shown
    BY <2>1 DEF Shown, View
  <2> QED BY <2>1, <2>2 DEF Ok
<1>15. CASE Backup(t)
  <2>1. \A u \in Threads : Migrating(u)' = Migrating(u)
    BY <1>15, <1>0 DEF Backup, Migrating, TypeOK
  <2> QED BY <1>15, <1>01, <2>1 DEF Backup
<1>16. ASSUME NEW n \in Namespaces, ReadOne(t, n) PROVE Ok
  <2>1. \A u \in Threads : Migrating(u)' = Migrating(u)
    BY <1>16 DEF ReadOne, Migrating
  <2> QED BY <1>16, <1>01, <2>1 DEF ReadOne
<1>17. CASE CreateBackup(t) \/ WriteBackup(t)
  <2>1. \A u \in Threads : Migrating(u)' = Migrating(u)
    BY <1>17, <1>0 DEF CreateBackup, WriteBackup, Migrating, TypeOK
  <2> QED BY <1>17, <1>01, <2>1 DEF CreateBackup, WriteBackup
<1>18. CASE Recover(t)
  <2>1. /\ pc[t] = "ready" /\ UNCHANGED <<driver, legacy, bolt, dir, file, seen>>
        /\ \A u \in Threads \ {t} : call'[u] = call[u] /\ pc'[u] = pc[u]
        /\ call'[t] # Idle
    BY <1>18, <1>0, StorageAssumption DEF Recover, TypeOK, Requests
  <2>2. call[t] = Idle
    BY <1>0, <2>1 DEF CallSteps, CallStep
  <2>3. \A u \in Threads : Migrating(u)' = Migrating(u)
    BY <2>1 DEF Migrating
  <2>4. Abstract!Invoke(t)
    BY <2>1, <2>2, <2>3, ShownStays DEF Abstract!Invoke
  <2> QED BY <2>4 DEF Ok, Abstract!Kept
<1>19. ASSUME NEW ts \in SUBSET Threads, Ends(ts), \A u \in ts : ~Migrating(u),
              UNCHANGED <<driver, legacy, bolt, dir, file>>
       PROVE  Ok
  <2>1. \A u \in Threads : Migrating(u)' = Migrating(u)
    BY <1>19 DEF Ends, Migrating
  <2>2. Abstract!End(ts)
    BY <1>19, <2>1, ShownStays DEF Ends, Abstract!End
  <2> QED BY <2>2 DEF Ok, Abstract!Kept
<1>20. CASE Fail(t)
  BY <1>20, <1>19 DEF Fail
<1>21. CASE Close(t)
  BY <1>21, <1>19 DEF Close, Migrating
<1>22. CASE Kill(t)
  <2> DEFINE ts == IF shared THEN Threads ELSE {t}
  <2>1. Ends(ts) /\ ts \in SUBSET Threads /\ UNCHANGED <<driver, legacy, bolt, dir, file>>
    BY <1>22 DEF Kill
  <2>2. \A u \in ts : ~Migrating(u)
    <3> SUFFICES ASSUME NEW u \in ts, Migrating(u) PROVE "interrupted" \in excuse'
      OBVIOUS
    <3>1. u \in {v \in ts : Migrating(v)}
      OBVIOUS
    <3> QED BY <1>22, <3>1 DEF Kill
  <2> QED BY <1>19, <2>1, <2>2
<1> QED
  BY <1>1, <1>2, <1>3, <1>4, <1>5, <1>6, <1>7, <1>8, <1>9, <1>10, <1>11, <1>12, <1>13, <1>14,
     <1>15, <1>16, <1>17, <1>18, <1>20, <1>21, <1>22, <1>23
  DEF Steps, Commands

\* For any number of processes and of goroutines, whatever is killed, and for either
\* driver, what is read is what was last set, as long as nothing excuses the storage:
\* moves to bolt, backups and restores, writes in progress and crashes included.  What is
\* read from bolt is the caller's only until another goroutine writes: its Get returns the
\* memory of the database, and the first value lost to that ends the promise.
THEOREM StorageIsAMap == Spec => ImplementsKV
<1>1. Init => MapInv /\ Abstract!Init
  BY MapInitially
<1>2. MapInv /\ [Next]_vars => MapInv'
  BY MapStep
<1>3. MapInv /\ MapInv' /\ [Next]_vars => [Abstract!Next]_(Abstract!vars)
  <2> SUFFICES ASSUME MapInv, MapInv', [Next]_vars
               PROVE  Abstract!Next \/ UNCHANGED Abstract!vars
    OBVIOUS
  <2>1. CASE UNCHANGED vars
    <3>1. UNCHANGED <<driver, legacy, bolt, dir, file, call, seen, excuse>>
      BY <2>1 DEF vars, kind, old, dbs, disk
    <3>2. \A u \in Threads : Migrating(u)' = Migrating(u)
      BY <2>1 DEF vars, Migrating
    <3> QED BY <3>1, <3>2, ShownStays DEF Abstract!vars
  <2>2. CASE Next /\ excuse' # {}
    BY <2>2 DEF Abstract!Next
  <2>3. CASE Next /\ excuse' = {}
    <3>1. excuse = {}
      BY <2>3, ExcuseStays
    <3>2. Abstract!Kept \/ UNCHANGED <<Shown, call, seen>>
      BY <2>3, MapRefines
    <3> QED BY <2>3, <3>1, <3>2 DEF Abstract!Next, Abstract!vars
  <2> QED BY <2>1, <2>2, <2>3
<1> QED BY <1>1, <1>2, <1>3, PTL DEF Spec, ImplementsKV, Abstract!Spec
===============================================================================
