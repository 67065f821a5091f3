----------------------------- MODULE Upload_proofs -----------------------------
(***************************************************************************)
(* Proofs about the uploader, for any tree of files, filter and limit, and *)
(* whatever fails or is interrupted: the bound of the jobs, and that a run *)
(* which ends without an error has tried every file.                       *)
(***************************************************************************)
EXTENDS Upload, FiniteSetTheorems, TLAPS

\* What is to be uploaded is a sequence of files on the disk.
LEMMA FilesListed ==
  /\ Listed \in Seq(OnDisk) /\ Len(Listed) \in Nat /\ Entries = 1..Len(Listed)
  /\ IsFiniteSet(Entries) /\ \A e \in Entries : Path(e) \in OnDisk
<1> DEFINE n == Cardinality(Visits)
           Place(v) == Cardinality(UpTo(v))
<1>1. \A p \in DOMAIN Tree : p \in Nat /\ Tree[p] \in Seq(DOMAIN Ext) /\ DOMAIN Tree[p] = 1..Len(Tree[p])
  BY UploadAssumption
<1>2. \A v \in Visits : /\ v[1] \in DOMAIN Tree /\ v[2] \in DOMAIN Tree[v[1]] /\ v = <<v[1], v[2]>>
                        /\ v[1] \in Nat /\ v[2] \in Nat
  <2> SUFFICES ASSUME NEW v \in Visits
               PROVE  /\ v[1] \in DOMAIN Tree /\ v[2] \in DOMAIN Tree[v[1]] /\ v = <<v[1], v[2]>>
                      /\ v[1] \in Nat /\ v[2] \in Nat
    OBVIOUS
  <2>1. PICK p \in DOMAIN Tree : v \in {p} \X {i \in DOMAIN Tree[p] : Chosen(Tree[p][i])}
    BY DEF Visits
  <2>2. v[1] = p /\ v[2] \in DOMAIN Tree[p] /\ v = <<v[1], v[2]>>
    BY <2>1
  <2> QED BY <1>1, <2>2
<1>3. IsFiniteSet(Visits)
  <2> DEFINE Under(p) == {p} \X {i \in DOMAIN Tree[p] : Chosen(Tree[p][i])}
             All == {Under(p) : p \in DOMAIN Tree}
  <2>1. ASSUME NEW p \in DOMAIN Tree PROVE IsFiniteSet(Under(p))
    <3>1. DOMAIN Tree[p] = 1..Len(Tree[p]) /\ Len(Tree[p]) \in Nat
      BY <1>1
    <3>2. IsFiniteSet(DOMAIN Tree[p])
      <4>1. \A m \in Nat : IsFiniteSet(1..m)
        BY FS_Interval
      <4> QED BY <3>1, <4>1
    <3>3. {i \in DOMAIN Tree[p] : Chosen(Tree[p][i])} \in SUBSET DOMAIN Tree[p]
      OBVIOUS
    <3>4. IsFiniteSet({i \in DOMAIN Tree[p] : Chosen(Tree[p][i])})
      BY <3>2, <3>3, FS_Subset
    <3>5. IsFiniteSet({p})
      BY FS_Singleton
    <3> QED BY <3>4, <3>5, FS_Product
  <2>2. IsFiniteSet(DOMAIN Tree)
    <3>1. DOMAIN Tree = 1..Len(Tree) /\ Len(Tree) \in Nat
      BY UploadAssumption
    <3> QED BY <3>1, FS_Interval
  <2>3. IsFiniteSet(All)
    <3> DEFINE f == [p \in DOMAIN Tree |-> Under(p)]
    <3> HIDE DEF Under
    <3>1. f \in Surjection(DOMAIN Tree, All)
      BY DEF Surjection
    <3> QED BY <2>2, <3>1, FS_Surjection
  <2>4. \A T \in All : IsFiniteSet(T)
    BY <2>1
  <2>5. Visits = UNION All
    BY DEF Visits
  <2> HIDE DEF All
  <2> QED BY <2>3, <2>4, <2>5, FS_UNION
<1>4. n \in Nat
  BY <1>3, FS_CardinalityType
<1>5. ASSUME NEW v \in Visits
      PROVE  IsFiniteSet(UpTo(v)) /\ Place(v) \in 1..n /\ v \in UpTo(v)
  <2>1. UpTo(v) \in SUBSET Visits /\ v \in UpTo(v)
    BY <1>2 DEF UpTo
  <2>2. IsFiniteSet(UpTo(v)) /\ Cardinality(UpTo(v)) =< n
    BY <1>3, <2>1, FS_Subset
  <2>3. Cardinality(UpTo(v)) \in Nat /\ Cardinality(UpTo(v)) # 0
    BY <2>1, <2>2, FS_CardinalityType, FS_EmptySet
  <2> QED BY <1>4, <2>1, <2>2, <2>3
<1>6. ASSUME NEW u \in Visits, NEW v \in Visits, u \notin UpTo(v)
      PROVE  Place(v) < Place(u)
  <2>1. UpTo(v) \in SUBSET UpTo(u)
    <3>1. v[1] < u[1] \/ (v[1] = u[1] /\ v[2] < u[2])
      BY <1>2, <1>6 DEF UpTo
    <3> QED BY <1>2, <3>1 DEF UpTo
  <2>2. IsFiniteSet(UpTo(u)) /\ u \in UpTo(u) /\ Place(u) \in 1..n /\ Place(v) \in 1..n
    BY <1>5
  <2>3. Cardinality(UpTo(v)) =< Cardinality(UpTo(u)) /\ Cardinality(UpTo(v)) # Cardinality(UpTo(u))
    BY <1>6, <2>1, <2>2, FS_Subset
  <2> QED BY <1>4, <2>2, <2>3
<1>7. ASSUME NEW k \in 1..n PROVE \E v \in Visits : Place(v) = k
  <2> DEFINE r == [v \in Visits |-> Place(v)]
  <2>1. r \in [Visits -> 1..n]
    BY <1>5
  <2>2. \A u, v \in Visits : r[u] = r[v] => u = v
    <3> SUFFICES ASSUME NEW u \in Visits, NEW v \in Visits, r[u] = r[v], u # v PROVE FALSE
      OBVIOUS
    <3>1. u \notin UpTo(v) \/ v \notin UpTo(u)
      BY <1>2 DEF UpTo
    <3>2. Place(u) < Place(v) \/ Place(v) < Place(u)
      BY <1>6, <3>1
    <3>3. Place(u) \in Nat /\ Place(u) = Place(v)
      <4>1. Place(u) \in 1..n
        BY <1>5
      <4> QED BY <4>1
    <3> QED BY <3>2, <3>3
  <2>3. r \in Injection(Visits, 1..n)
    BY <2>1, <2>2 DEF Injection, IsInjective
  <2>4. IsFiniteSet(1..n) /\ Cardinality(1..n) = n
    BY <1>4, FS_Interval
  <2>5. r \in Surjection(Visits, 1..n)
    BY <1>3, <2>3, <2>4, FS_Injection
  <2> QED BY <2>5 DEF Surjection
<1>8. ASSUME NEW k \in 1..n PROVE Listed[k] \in OnDisk
  <2> DEFINE v == CHOOSE v \in Visits : Place(v) = k
  <2>1. v \in Visits
    BY <1>7
  <2>2. Listed[k] = Tree[v[1]][v[2]]
    BY DEF Listed
  <2> HIDE DEF v
  <2>3. v[1] \in DOMAIN Tree /\ v[2] \in DOMAIN Tree[v[1]]
    BY <1>2, <2>1
  <2>4. Tree[v[1]][v[2]] \in Range(Tree[v[1]])
    BY <2>3 DEF Range
  <2> QED BY <2>2, <2>3, <2>4 DEF OnDisk
<1>9. Listed \in Seq(OnDisk) /\ Len(Listed) = n
  <2>1. Listed = [k \in 1..n |-> Listed[k]]
    BY DEF Listed
  <2> HIDE DEF n
  <2> QED BY <1>4, <1>8, <2>1
<1>10. Entries = 1..n
  BY <1>9 DEF Entries
<1>11. IsFiniteSet(1..n)
  BY <1>4, FS_Interval
<1> HIDE DEF n
<1> QED BY <1>4, <1>8, <1>9, <1>10, <1>11 DEF Path

-----------------------------------------------------------------------------
(* The invariant.                                                           *)

Jobs == {"new", "check", "file", "send", "end"}

UpTypes ==
  /\ upMain \in {"next", "go", "wait", "prog", "close", "exit"} /\ upCur \in 0..Len(Listed)
  /\ upErr \in BOOLEAN /\ upCanceled \in BOOLEAN /\ upGroupErr \in BOOLEAN
  /\ files \subseteq OnDisk /\ open \subseteq Entries
  /\ step \in [Entries -> {"none", "gone"} \union Jobs]
  /\ upOutcome \in [Entries -> {"none", "sent", "failed", "canceled"}]
  /\ bar \in [Entries -> {"none", "active", "done", "errored"}]
  /\ tracked \in [OnDisk -> Entries \union {0}]
  /\ uploaded \subseteq Entries /\ removed \subseteq Entries

\* The files taken from the list, but for the one in hand, have a job; the others have none.
Taken ==
  /\ upMain = "go" => upCur \in Entries /\ step[upCur] = "none"
  /\ \A e \in Entries : e > upCur => step[e] = "none"
  /\ ~upErr => \A e \in Entries : e =< upCur /\ step[e] = "none" => upMain = "go" /\ e = upCur

\* Once nothing is left to take, everything was; and once the jobs have been waited for, none
\* runs.
Waited ==
  /\ upMain \in {"wait", "prog", "close", "exit"} /\ ~upErr => upCur = Len(Listed)
  /\ upMain \in {"prog", "close", "exit"} /\ ~upErr => Running = {}

\* A file is closed at the end of its job.
Closed == \A e \in open : step[e] # "gone"

Bounded == Cardinality(Running) =< Limit

UpInv == UpTypes /\ Taken /\ Waited /\ Closed /\ Bounded

\* Jobs can be counted.
LEMMA RunningFinite ==
  ASSUME NEW R \in SUBSET Entries
  PROVE  IsFiniteSet(R) /\ Cardinality(R) \in Nat
BY FilesListed, FS_Subset, FS_CardinalityType

\* At the start no file is taken.
LEMMA UpInitially == UpInit => UpInv
<1> SUFFICES ASSUME UpInit PROVE UpInv
  OBVIOUS
<1>1. Running = {} /\ Cardinality({}) = 0 /\ Limit \in Nat
  BY FS_EmptySet, UploadAssumption DEF UpInit, Running
<1>2. Len(Listed) \in Nat /\ Entries = 1..Len(Listed)
  BY FilesListed
<1> HIDE DEF Entries
<1>3. UpTypes
  <2>1. 0 \in 0..Len(Listed)
    BY <1>2
  <2>2. upCur = 0 /\ upMain = "next" /\ upErr = FALSE /\ upCanceled = FALSE /\ upGroupErr = FALSE
    BY DEF UpInit
  <2>3. /\ files = OnDisk /\ open = {} /\ uploaded = {} /\ removed = {}
        /\ step = [e \in Entries |-> "none"] /\ upOutcome = [e \in Entries |-> "none"]
        /\ bar = [e \in Entries |-> "none"] /\ tracked = [f \in OnDisk |-> 0]
    BY DEF UpInit
  <2> QED BY <2>1, <2>2, <2>3 DEF UpTypes
<1>4. Taken
  BY <1>2 DEF UpInit, Taken
<1>5. Waited /\ Closed
  BY DEF UpInit, Waited, Closed
<1>6. Bounded
  BY <1>1 DEF Bounded
<1> QED BY <1>3, <1>4, <1>5, <1>6 DEF UpInv

\* A step of the main goroutine that starts no job.
LEMMA JobsStay ==
  ASSUME UpInv, UNCHANGED <<step, upOutcome, bar, tracked, uploaded, removed, files, upGroupErr>>,
         upMain' \in {"next", "go", "wait", "prog", "close", "exit"}, upErr' \in BOOLEAN,
         upCanceled' \in BOOLEAN,
         \/ upCur' = upCur /\ open' = open
         \/ /\ upCur < Len(Listed) /\ upCur' = upCur + 1
            /\ open' \in {open, open \union {upCur + 1}}
  PROVE  /\ UpTypes' /\ Closed' /\ Bounded' /\ Running' = Running
         /\ \A e \in Entries : e > upCur' => step'[e] = "none"
<1>1. Len(Listed) \in Nat /\ Entries = 1..Len(Listed)
  BY FilesListed
<1> HIDE DEF Entries
<1>2. upCur' \in 0..Len(Listed) /\ upCur \in Nat /\ upCur' >= upCur
  BY <1>1 DEF UpInv, UpTypes
<1>3. open' \subseteq Entries /\ \A e \in open' : step[e] # "gone"
  <2>1. CASE open' = open
    BY <2>1 DEF UpInv, UpTypes, Closed
  <2>2. CASE upCur < Len(Listed) /\ open' = open \union {upCur + 1}
    <3>1. upCur + 1 \in Entries /\ upCur + 1 > upCur
      BY <1>1, <1>2, <2>2
    <3>2. step[upCur + 1] = "none"
      BY <3>1 DEF UpInv, Taken
    <3> QED BY <2>2, <3>1, <3>2 DEF UpInv, UpTypes, Closed
  <2> QED BY <2>1, <2>2
<1>4. UpTypes'
  BY <1>2, <1>3 DEF UpInv, UpTypes
<1>5. Running' = Running
  BY DEF Running
<1>6. Closed' /\ Bounded'
  BY <1>3, <1>5 DEF UpInv, Closed, Bounded
<1>7. \A e \in Entries : e > upCur' => e > upCur
  BY <1>1, <1>2
<1> QED BY <1>4, <1>5, <1>6, <1>7 DEF UpInv, Taken

\* The steps of the main goroutine, and an interrupt.
LEMMA MainKeeps ==
  ASSUME UpInv, UpMainSteps \/ UpCancel
  PROVE  UpInv'
<1> USE DEF upDisk, upJobs, upHist
<1>0. Len(Listed) \in Nat /\ Entries = 1..Len(Listed) /\ upCur \in 0..Len(Listed)
  BY FilesListed DEF UpInv, UpTypes
<1> HIDE DEF Entries
<1>1. CASE UpNextCanceled \/ UpNextEnds \/ UpWait \/ UpProgWait \/ UpExit \/ UpCancel
  <2>1. /\ UNCHANGED <<step, upOutcome, bar, tracked, uploaded, removed, files, upGroupErr, open, upCur>>
        /\ upMain' \in {"next", "go", "wait", "prog", "close", "exit"} /\ upErr' \in BOOLEAN
        /\ upCanceled' \in BOOLEAN
    BY <1>1 DEF UpNextCanceled, UpNextEnds, UpWait, UpProgWait, UpExit, UpCancel, UpInv, UpTypes
  <2>2. /\ UpTypes' /\ Closed' /\ Bounded' /\ Running' = Running
        /\ \A e \in Entries : e > upCur' => step'[e] = "none"
    BY <2>1, JobsStay
  <2>3. Taken'
    <3>1. upMain' = "go" <=> upMain = "go"
      BY <1>1 DEF UpNextCanceled, UpNextEnds, UpWait, UpProgWait, UpExit, UpCancel
    <3>2. ~upErr' => ~upErr
      BY <1>1 DEF UpNextCanceled, UpNextEnds, UpWait, UpProgWait, UpExit, UpCancel
    <3> QED BY <2>1, <2>2, <3>1, <3>2 DEF UpInv, Taken
  <2>4. Waited'
    <3>1. CASE UpNextCanceled
      BY <3>1 DEF UpNextCanceled, Waited
    <3>2. CASE UpNextEnds
      BY <3>2, <2>2 DEF UpNextEnds, Waited
    <3>3. CASE UpWait
      BY <3>3, <2>2 DEF UpWait, JobsAwaited, Waited, UpInv
    <3>4. CASE UpProgWait \/ UpExit \/ UpCancel
      BY <3>4, <2>2 DEF UpProgWait, UpExit, UpCancel, Waited, UpInv
    <3> QED BY <1>1, <3>1, <3>2, <3>3, <3>4
  <2> QED BY <2>2, <2>3, <2>4 DEF UpInv
<1>2. CASE UpNext \/ UpNextFails
  <2>1. /\ UNCHANGED <<step, upOutcome, bar, tracked, uploaded, removed, files, upGroupErr, upCanceled>>
        /\ upCur < Len(Listed) /\ upCur' = upCur + 1 /\ open' \in {open, open \union {upCur + 1}}
        /\ upMain = "next"
        /\ \/ upMain' = "go" /\ upErr' = upErr
           \/ upMain' = "prog" /\ upErr' = TRUE
    BY <1>2 DEF UpNext, UpNextFails
  <2>2. /\ UpTypes' /\ Closed' /\ Bounded' /\ Running' = Running
        /\ \A e \in Entries : e > upCur' => step'[e] = "none"
    <3>1. /\ upMain' \in {"next", "go", "wait", "prog", "close", "exit"} /\ upErr' \in BOOLEAN
          /\ upCanceled' \in BOOLEAN
      BY <2>1 DEF UpInv, UpTypes
    <3> QED BY <2>1, <3>1, JobsStay
  <2>3. upCur + 1 \in Entries /\ step[upCur + 1] = "none"
    <3>1. upCur + 1 \in Entries /\ upCur + 1 > upCur
      BY <1>0, <2>1
    <3> QED BY <3>1 DEF UpInv, Taken
  <2>4. \A e \in Entries : e =< upCur + 1 => e =< upCur \/ e = upCur + 1
    BY <1>0
  <2>5. Taken'
    BY <2>1, <2>2, <2>3, <2>4 DEF UpInv, Taken
  <2>6. Waited'
    BY <2>1 DEF Waited
  <2> QED BY <2>2, <2>5, <2>6 DEF UpInv
<1>3. CASE UpGo
  <2>1. /\ upMain = "go" /\ SlotFree /\ step' = [step EXCEPT ![upCur] = "new"] /\ upMain' = "next"
        /\ UNCHANGED <<upCur, upErr, upCanceled, upGroupErr, files, open, upOutcome, bar, tracked,
                       uploaded, removed>>
    BY <1>3 DEF UpGo
  <2>2. upCur \in Entries /\ step[upCur] = "none" /\ step \in [Entries -> {"none", "gone"} \union Jobs]
    BY <2>1 DEF UpInv, Taken, UpTypes
  <2>3. /\ step' \in [Entries -> {"none", "gone"} \union Jobs] /\ step'[upCur] = "new"
        /\ \A e \in Entries \ {upCur} : step'[e] = step[e]
    BY <2>1, <2>2 DEF Jobs
  <2>4. UpTypes'
    BY <2>1, <2>3 DEF UpInv, UpTypes
  <2>5. Running' = Running \union {upCur} /\ upCur \notin Running /\ Running \in SUBSET Entries
    BY <2>2, <2>3 DEF Running
  <2>6. Bounded'
    <3>1. Cardinality(Running \union {upCur}) = Cardinality(Running) + 1 /\ Cardinality(Running) \in Nat
      BY <2>5, RunningFinite, FS_AddElement
    <3>2. Limit \in Nat /\ Cardinality(Running) < Limit
      BY <2>1, UploadAssumption DEF SlotFree
    <3> HIDE DEF Running
    <3> QED BY <2>5, <3>1, <3>2 DEF Bounded
  <2>7. Taken'
    <3>1. ~(upCur > upCur)
      BY <1>0
    <3> QED BY <2>1, <2>2, <2>3, <3>1 DEF UpInv, Taken
  <2>8. Closed'
    BY <2>1, <2>2, <2>3 DEF UpInv, UpTypes, Closed
  <2>9. Waited'
    BY <2>1 DEF Waited
  <2> QED BY <2>4, <2>6, <2>7, <2>8, <2>9 DEF UpInv
<1> QED BY <1>1, <1>2, <1>3 DEF UpMainSteps

\* What a step of a job does to the steps of the others, and to its own.
LEMMA JobKeeps ==
  ASSUME UpInv, NEW e \in Entries, step[e] \in Jobs, upMain # "exit",
         NEW s \in Jobs \union {"gone"}, step' = [step EXCEPT ![e] = s],
         UNCHANGED <<upMain, upCur, upErr, upCanceled>>,
         open' = open \/ open' = open \ {e}, s = "gone" => e \notin open'
  PROVE  Taken' /\ Waited' /\ Closed' /\ Bounded'
         /\ step' \in [Entries -> {"none", "gone"} \union Jobs] /\ open' \subseteq Entries
<1>1. step \in [Entries -> {"none", "gone"} \union Jobs] /\ open \subseteq Entries
  BY DEF UpInv, UpTypes
<1>2. /\ step' \in [Entries -> {"none", "gone"} \union Jobs] /\ step'[e] = s
      /\ \A d \in Entries \ {e} : step'[d] = step[d]
  BY <1>1
<1>3. s # "none" /\ step[e] # "none" /\ step[e] # "gone"
  BY DEF Jobs
<1>4. Taken'
  BY <1>2, <1>3 DEF UpInv, Taken
<1>5. Running' \in SUBSET Running /\ e \in Running /\ Running \in SUBSET Entries
  BY <1>2, <1>3 DEF Running
<1>6. Waited'
  BY <1>5 DEF UpInv, Waited
<1>7. Closed' /\ open' \subseteq Entries
  BY <1>1, <1>2 DEF UpInv, Closed
<1>8. Bounded'
  <2>1. Cardinality(Running') =< Cardinality(Running)
        /\ Cardinality(Running) \in Nat /\ Cardinality(Running') \in Nat
    <3>1. IsFiniteSet(Running) /\ Cardinality(Running) \in Nat
      BY <1>5, RunningFinite
    <3>2. Running' \in SUBSET Entries
      BY <1>5
    <3>3. Cardinality(Running') \in Nat
      BY <3>2, RunningFinite
    <3> HIDE DEF Running
    <3> QED BY <1>5, <3>1, <3>3, FS_Subset
  <2>2. Limit \in Nat /\ Cardinality(Running) =< Limit
    BY UploadAssumption DEF UpInv, Bounded
  <2> HIDE DEF Running
  <2> QED BY <2>1, <2>2 DEF Bounded
<1> QED BY <1>2, <1>4, <1>6, <1>7, <1>8

\* The steps of a job.
LEMMA JobStepKeeps ==
  ASSUME UpInv, NEW e \in Entries, UpJob(e)
  PROVE  UpInv'
<1> USE DEF upDisk, upJobs, upHist, upOthers, At, To, Ended
<1>0. UpTypes /\ Path(e) \in OnDisk
  BY FilesListed DEF UpInv
<1>1. /\ step[e] \in Jobs /\ upMain # "exit" /\ UNCHANGED <<upMain, upCur, upErr, upCanceled>>
      /\ \E s \in Jobs \union {"gone"} : /\ step' = [step EXCEPT ![e] = s]
                                         /\ open' = open \/ open' = open \ {e}
                                         /\ s = "gone" => e \notin open'
  BY DEF UpJob, UpOnAdd, Check, UploadFile, SendMedia, JobFails, JobCanceled, UpOnDone, Jobs
<1>2. Taken' /\ Waited' /\ Closed' /\ Bounded'
      /\ step' \in [Entries -> {"none", "gone"} \union Jobs] /\ open' \subseteq Entries
  BY <1>1, JobKeeps
<1>3. /\ upOutcome' \in [Entries -> {"none", "sent", "failed", "canceled"}]
      /\ bar' \in [Entries -> {"none", "active", "done", "errored"}]
      /\ tracked' \in [OnDisk -> Entries \union {0}]
      /\ uploaded' \subseteq Entries /\ removed' \subseteq Entries /\ files' \subseteq OnDisk
      /\ upGroupErr' \in BOOLEAN
  <2>1. CASE UpOnAdd(e)
    BY <1>0, <2>1 DEF UpOnAdd, UpTypes
  <2>2. CASE Check(e)
    BY <1>0, <2>2 DEF Check, UpTypes
  <2>3. CASE UploadFile(e)
    BY <1>0, <2>3 DEF UploadFile, FullBar, UpTypes
  <2>4. CASE SendMedia(e)
    BY <1>0, <2>4 DEF SendMedia, UpTypes
  <2>5. CASE JobFails(e)
    BY <1>0, <2>5 DEF JobFails, UpTypes
  <2>6. CASE JobCanceled(e)
    BY <1>0, <2>6 DEF JobCanceled, UpTypes
  <2>7. CASE UpOnDone(e)
    BY <1>0, <2>7 DEF UpOnDone, UpTypes
  <2> QED BY <2>1, <2>2, <2>3, <2>4, <2>5, <2>6, <2>7 DEF UpJob
<1>4. UpTypes'
  BY <1>0, <1>1, <1>2, <1>3 DEF UpTypes
<1> QED BY <1>2, <1>4 DEF UpInv

\* The invariant holds.
LEMMA UpAlways == UpSpec => []UpInv
<1>1. UpInv /\ [UpSteps]_upVars => UpInv'
  <2> SUFFICES ASSUME UpInv, [UpSteps]_upVars PROVE UpInv'
    OBVIOUS
  <2>1. CASE UNCHANGED upVars
    BY <2>1 DEF upVars, upDisk, upJobs, upHist, UpInv, UpTypes, Taken, Waited, Closed, Bounded, Running
  <2> QED BY <2>1, MainKeeps, JobStepKeeps DEF UpSteps
<1> QED BY <1>1, UpInitially, PTL DEF UpSpec

-----------------------------------------------------------------------------
\* The types; and at most Limit jobs run at once, however they end.
THEOREM TypeCorrect == UpSpec => []UpTypeOK
<1>1. UpInv => UpTypeOK
  BY DEF UpInv, UpTypes, UpTypeOK, Bounded, Jobs
<1> QED BY <1>1, UpAlways, PTL

\* A run that ends without an error of the iterator has tried every file of the list and has
\* closed it: see AllTried.
THEOREM EveryFileIsTried == UpSpec => []AllTried
<1>1. UpInv => AllTried
  <2> SUFFICES ASSUME UpInv, upMain \in {"prog", "close", "exit"}, ~upErr
               PROVE  (\A e \in Entries : step[e] = "gone") /\ open = {}
    BY DEF AllTried
  <2>1. upCur = Len(Listed) /\ Running = {}
    BY DEF UpInv, Waited
  <2>2. ASSUME NEW e \in Entries PROVE step[e] = "gone"
    <3>1. e =< upCur
      BY <2>1, FilesListed
    <3>2. step[e] # "none"
      BY <3>1 DEF UpInv, Taken
    <3> QED BY <2>1, <3>2 DEF Running
  <2>3. open = {}
    BY <2>2 DEF UpInv, UpTypes, Closed
  <2> QED BY <2>2, <2>3
<1> QED BY <1>1, UpAlways, PTL
===============================================================================
