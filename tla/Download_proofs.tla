--------------------------- MODULE Download_proofs ---------------------------
(***************************************************************************)
(* Proofs about Download for any messages, albums, limit and events.       *)
(***************************************************************************)
EXTENDS Download, Lists_proofs

Before(p) == p \in {"next", "value", "ended", "progwait", "save"}

\* Until it saves, a run that was resumed has all the positions of the resume key.
KeyIsKept == mode = "continue" /\ Before(phase) => kv \subseteq finished

\* There is no continued run at the start.
LEMMA InitKept == Init => KeyIsKept
BY DEF Init, KeyIsKept, Before

\* Until it saves, a continued run only adds to what it has finished.
LEMMA NextKept == KeyIsKept /\ [Next]_vars => KeyIsKept'
<1> SUFFICES ASSUME KeyIsKept, [Next]_vars PROVE KeyIsKept'
  OBVIOUS
<1> USE DEF KeyIsKept, Before
<1>1. ASSUME NEW g \in Groups, NEW md \in Modes, Start(g, md) PROVE KeyIsKept'
  BY <1>1 DEF Start, Resumed
<1>2. ASSUME NextCanceled PROVE KeyIsKept'
  BY <1>2 DEF NextCanceled, runVars
<1>3. ASSUME NextBuffered PROVE KeyIsKept'
  BY <1>3 DEF NextBuffered, runVars
<1>4. ASSUME NextEnds PROVE KeyIsKept'
  BY <1>4 DEF NextEnds, runVars
<1>5. ASSUME SkipDeleted \/ NextPanics PROVE KeyIsKept'
  BY <1>5 DEF SkipDeleted, NextPanics, Iterating, runVars
<1>6. ASSUME Process PROVE KeyIsKept'
  BY <1>6 DEF Process, Iterating, runVars
<1>7. ASSUME ProcessFails PROVE KeyIsKept'
  BY <1>7 DEF ProcessFails, Iterating, runVars
<1>8. ASSUME Value PROVE KeyIsKept'
  BY <1>8 DEF Value, runVars
<1>9. ASSUME DownloadReturns PROVE KeyIsKept'
  BY <1>9 DEF DownloadReturns, runVars
<1>10. ASSUME ProgressWait PROVE KeyIsKept'
  BY <1>10 DEF ProgressWait, runVars
<1>11. ASSUME SaveProgress PROVE KeyIsKept'
  BY <1>11 DEF SaveProgress
<1>12. ASSUME Exit \/ Kill PROVE KeyIsKept'
  BY <1>12 DEF Exit, Kill, Over
<1>13. ASSUME NEW j \in jobs, Job(j) PROVE KeyIsKept'
  <2>1. UNCHANGED <<kv, mode, phase>> /\ finished \subseteq finished'
    BY <1>13 DEF Job, OnAdd, Downloaded, DownloadFails, DownloadCanceled, Finish, Rename,
                 RenameFails, mainVars, runVars, history
  <2>. QED
    BY <2>1
<1>14. ASSUME Cancel PROVE KeyIsKept'
  BY <1>14 DEF Cancel, runVars
<1>15. ASSUME NEW m \in Deletable, DeleteMessage(m) PROVE KeyIsKept'
  BY <1>15 DEF DeleteMessage, runVars
<1>16. ASSUME UNCHANGED vars PROVE KeyIsKept'
  BY <1>16 DEF vars, runVars
<1>. QED
  BY <1>1, <1>2, <1>3, <1>4, <1>5, <1>6, <1>7, <1>8, <1>9, <1>10, <1>11, <1>12, <1>13,
     <1>14, <1>15, <1>16 DEF Next, Main, Environment

\* Only SaveProgress and Start write the key, and Start does not in phase "save".
LEMMA SaveKeeps ==
  KeyIsKept /\ [Next]_vars =>
    (phase = "save" /\ mode = "continue" /\ ~cleared' => kv \subseteq kv')
<1> SUFFICES ASSUME KeyIsKept, [Next]_vars, phase = "save", mode = "continue", ~cleared'
             PROVE kv \subseteq kv'
  OBVIOUS
<1>1. CASE SaveProgress
  BY <1>1 DEF SaveProgress, Saved, KeyIsKept, Before
<1>2. CASE ~SaveProgress
  <2>1. ASSUME NEW j \in jobs, Job(j) PROVE kv' = kv
    BY <2>1 DEF Job, OnAdd, Downloaded, DownloadFails, DownloadCanceled, Finish, Rename,
                RenameFails, mainVars, runVars, history
  <2>2. ASSUME Environment PROVE kv' = kv
    BY <2>2 DEF Environment, Kill, Over, Cancel, DeleteMessage
  <2>3. ASSUME Main PROVE FALSE
    BY <1>2, <2>3 DEF Main, NextCanceled, NextBuffered, NextEnds, SkipDeleted, NextPanics,
                      Process, ProcessFails, Iterating, Value, DownloadReturns, ProgressWait,
                      Exit
  <2>. QED
    BY <2>1, <2>2, <2>3 DEF Next, Start, vars
<1>. QED
  BY <1>1, <1>2

\* Continuing a download and being interrupted again loses no finished position, whatever
\* else happens in the run.
THEOREM ContinuingKeepsProgress == Spec => ContinuingLosesNothing
<1>1. Spec => []KeyIsKept
  BY InitKept, NextKept, PTL DEF Spec
<1>2. KeyIsKept /\ [Next]_vars =>
        [phase = "save" /\ mode = "continue" /\ ~cleared' => kv \subseteq kv']_vars
  BY SaveKeeps
<1>. QED
  BY <1>1, <1>2, PTL DEF Spec, ContinuingLosesNothing

-----------------------------------------------------------------------------
(* What the message at hand stands for.                                    *)

\* The album of a message, if it has one, has the message.
LEMMA AlbumIs ==
  ASSUME NEW m
  PROVE  /\ AlbumOf(m) \subseteq Msgs /\ IsFiniteSet(AlbumOf(m))
         /\ AlbumOf(m) # {} => m \in AlbumOf(m)
<1>1. CASE \E a \in Albums : m \in a
  <2>1. PICK a \in Albums : m \in a
    BY <1>1
  <2>2. AlbumOf(m) = a
    <3>1. {b \in Albums : m \in b} = {a}
      BY <2>1, DownloadAssumption
    <3> QED BY <3>1 DEF AlbumOf
  <2> QED BY <2>1, <2>2, DownloadAssumption
<1>2. CASE ~\E a \in Albums : m \in a
  <2>1. AlbumOf(m) = {}
    BY <1>2 DEF AlbumOf
  <2> QED BY <2>1, FS_EmptySet
<1> QED BY <1>1, <1>2

\* A set of messages in order has each of them once.
LEMMA InOrder ==
  ASSUME NEW A \in SUBSET Msgs, IsFiniteSet(A)
  PROVE  /\ Ascending(A) \in Seq(Msgs) /\ Len(Ascending(A)) = Cardinality(A)
         /\ Cardinality(A) \in Nat /\ DOMAIN Ascending(A) = 1..Cardinality(A)
         /\ \A k, l \in DOMAIN Ascending(A) : Ascending(A)[k] = Ascending(A)[l] => k = l
         /\ \A k \in DOMAIN Ascending(A) : Ascending(A)[k] \in A
         /\ \A m \in A : \E k \in DOMAIN Ascending(A) : Ascending(A)[k] = m
<1> DEFINE s == Ascending(A)
           n == Cardinality(A)
<1>1. A \in SUBSET Nat
  BY DownloadAssumption
<1>2. /\ s \in Seq(A) /\ Len(s) = n
      /\ \A k, l \in 1..n : k < l => s[k] < s[l]
      /\ \A i \in A : \E k \in 1..n : s[k] = i
  BY <1>1, AscendingLists
<1>3. n \in Nat
  BY FS_CardinalityType
<1> HIDE DEF s, n
<1>4. DOMAIN s = 1..n
  BY <1>2, <1>3
<1>5. \A k \in 1..n : s[k] \in A
  BY <1>2, <1>3
<1>6. \A k \in 1..n : s[k] \in Nat /\ s[k] \in Msgs
  BY <1>1, <1>5
<1>7. \A k, l \in 1..n : s[k] = s[l] => k = l
  <2> SUFFICES ASSUME NEW k \in 1..n, NEW l \in 1..n, s[k] = s[l], k # l PROVE FALSE
    OBVIOUS
  <2>1. k < l \/ l < k
    BY <1>3
  <2>2. s[k] < s[l] \/ s[l] < s[k]
    BY <1>2, <2>1
  <2> QED BY <1>6, <2>2
<1>8. s \in Seq(Msgs)
  <2>1. s = [k \in 1..n |-> s[k]]
    BY <1>2
  <2>2. [k \in 1..n |-> s[k]] \in Seq(Msgs)
    BY <1>3, <1>6
  <2> QED BY <2>1, <2>2
<1> QED BY <1>2, <1>3, <1>4, <1>5, <1>7, <1>8 DEF s, n

\* An answer has nothing that is not there, and the album may be answered in full.
LEMMA AnswersAre ==
  ASSUME alive \subseteq Msgs, Current \in Msgs, NEW A \in Answers
  PROVE  /\ A \in SUBSET Msgs /\ IsFiniteSet(A) /\ A \subseteq Stands
         /\ Stands \in Answers
         /\ ~Grouped => A = {Current}
<1>1. Stands \subseteq Msgs /\ IsFiniteSet(Stands)
  BY AlbumIs, FS_Singleton, FS_Subset DEF Stands
<1>2. A \subseteq Stands
  BY DEF Answers
<1>3. ~Grouped => A = {Current}
  BY DEF Answers, Stands
<1> QED BY <1>1, <1>2, <1>3, FS_Subset DEF Answers

\* The elements made of an answer are its messages, in order and each once.
LEMMA MembersAre ==
  ASSUME alive \subseteq Msgs, Current \in Msgs, NEW A \in Answers
  PROVE  /\ Members(A) \in Seq(Msgs) /\ Len(Members(A)) = Cardinality(A)
         /\ DOMAIN Members(A) = 1..Len(Members(A)) /\ Len(Members(A)) \in Nat
         /\ Moves(Grouped, Len(Members(A))) = Len(Members(A))
<1>1. A \in SUBSET Msgs /\ IsFiniteSet(A) /\ (~Grouped => A = {Current})
  BY AnswersAre
<1>2. /\ Members(A) \in Seq(Msgs) /\ Len(Members(A)) = Cardinality(A)
      /\ DOMAIN Members(A) = 1..Cardinality(A) /\ Cardinality(A) \in Nat
  BY <1>1, InOrder DEF Members
<1>3. ~Grouped => Cardinality(A) = 1
  BY <1>1, FS_Singleton
<1> QED BY <1>2, <1>3 DEF Moves

\* The elements of an answer: one for each of its messages, at positions from lpos on.
LEMMA NumberedIs ==
  ASSUME alive \subseteq Msgs, Current \in Msgs, lpos \in Nat, NEW A \in Answers
  PROVE  /\ Numbered(A) \in Seq(Elems) /\ Len(Numbered(A)) = Len(Members(A))
         /\ DOMAIN Numbered(A) = 1..Len(Members(A)) /\ DOMAIN Members(A) = 1..Len(Members(A))
         /\ Len(Members(A)) \in Nat
         /\ \A k \in DOMAIN Numbered(A) :
              /\ Numbered(A)[k] \in Elems
              /\ Numbered(A)[k].msg = Members(A)[k] /\ Numbered(A)[k].pos = lpos + k - 1
<1>1. Members(A) \in Seq(Msgs)
  BY MembersAre
<1>2. \A k \in DOMAIN Members(A) : [msg |-> Members(A)[k], pos |-> lpos + k - 1] \in Elems
  BY <1>1 DEF Elems
<1>3. Numbered(A) \in Seq(Elems) /\ DOMAIN Numbered(A) = DOMAIN Members(A)
  BY <1>1, <1>2 DEF Numbered
<1> QED BY <1>1, <1>2, <1>3 DEF Numbered

\* The ones that become elements are those that are not finished and pass the filters.
LEMMA FreshIs ==
  ASSUME alive \subseteq Msgs, Current \in Msgs, lpos \in Nat, NEW A \in Answers
  PROVE  /\ Fresh(A) \in Seq(Elems)
         /\ \A k \in DOMAIN Fresh(A) :
              /\ Fresh(A)[k].pos \notin finished /\ Fresh(A)[k].msg \in Files
              /\ \E i \in DOMAIN Numbered(A) : Fresh(A)[k] = Numbered(A)[i]
         /\ \A i \in DOMAIN Numbered(A) :
              Wanted(Numbered(A)[i]) => \E k \in DOMAIN Fresh(A) : Fresh(A)[k] = Numbered(A)[i]
         /\ \A k, l \in DOMAIN Fresh(A) : Fresh(A)[k].pos = Fresh(A)[l].pos => k = l
<1> DEFINE I == {k \in DOMAIN Numbered(A) : Wanted(Numbered(A)[k])}
           n == Cardinality(I)
           a == Ascending(I)
<1>1. /\ Fresh(A) \in Seq(Elems) /\ Len(Fresh(A)) = n /\ n \in Nat
      /\ \A k \in 1..n : a[k] \in I /\ Fresh(A)[k] = Numbered(A)[a[k]]
      /\ \A k, l \in 1..n : k < l => a[k] < a[l]
      /\ \A i \in I : \E k \in 1..n : a[k] = i
  <2>1. /\ Numbered(A) \in Seq(Elems) /\ I \in SUBSET (DOMAIN Numbered(A))
        /\ Fresh(A) = Only(Numbered(A), I)
    BY NumberedIs DEF Fresh
  <2>2. /\ Cardinality(I) \in Nat
        /\ Only(Numbered(A), I) \in Seq(Elems) /\ Len(Only(Numbered(A), I)) = Cardinality(I)
        /\ \A k \in 1..Cardinality(I) : /\ Ascending(I)[k] \in I
                                        /\ Only(Numbered(A), I)[k] = Numbered(A)[Ascending(I)[k]]
        /\ \A k, l \in 1..Cardinality(I) : k < l => Ascending(I)[k] < Ascending(I)[l]
        /\ \A i \in I : \E k \in 1..Cardinality(I) : Ascending(I)[k] = i
    <3> HIDE DEF I, Numbered
    <3> DEFINE Kept(s, J) ==
          /\ Cardinality(J) \in Nat
          /\ Only(s, J) \in Seq(Elems) /\ Len(Only(s, J)) = Cardinality(J)
          /\ \A k \in 1..Cardinality(J) : /\ Ascending(J)[k] \in J
                                          /\ Only(s, J)[k] = s[Ascending(J)[k]]
          /\ \A k, l \in 1..Cardinality(J) : k < l => Ascending(J)[k] < Ascending(J)[l]
          /\ \A i \in J : \E k \in 1..Cardinality(J) : Ascending(J)[k] = i
    <3>1. ASSUME NEW s \in Seq(Elems), NEW J \in SUBSET (DOMAIN s) PROVE Kept(s, J)
      BY OnlyKeeps
    <3>2. Kept(Numbered(A), I)
      <4> HIDE DEF Kept
      <4> QED BY <2>1, <3>1
    <3> QED BY <3>2
  <2> HIDE DEF I
  <2> QED BY <2>1, <2>2
<1>2. DOMAIN Fresh(A) = 1..n
  BY <1>1
<1>3. \A k \in DOMAIN Fresh(A) : /\ Fresh(A)[k].pos \notin finished /\ Fresh(A)[k].msg \in Files
                              /\ \E i \in DOMAIN Numbered(A) : Fresh(A)[k] = Numbered(A)[i]
  BY <1>1, <1>2 DEF Wanted, NotYet
<1>4. \A i \in DOMAIN Numbered(A) :
        Wanted(Numbered(A)[i]) => \E k \in DOMAIN Fresh(A) : Fresh(A)[k] = Numbered(A)[i]
  BY <1>1, <1>2
<1>5. ASSUME NEW k \in DOMAIN Fresh(A), NEW l \in DOMAIN Fresh(A), Fresh(A)[k].pos = Fresh(A)[l].pos
      PROVE  k = l
  <2>1. a[k] \in 1..Len(Members(A)) /\ a[l] \in 1..Len(Members(A)) /\ Len(Members(A)) \in Nat
    BY <1>1, <1>2, NumberedIs
  <2>2. lpos + a[k] - 1 = lpos + a[l] - 1
    BY <1>1, <1>2, <1>5, NumberedIs
  <2>3. a[k] = a[l] /\ a[k] \in Nat /\ a[l] \in Nat
    <3> DEFINE i == a[k]
               o == a[l]
               w == Len(Members(A))
    <3>1. i \in 1..w /\ o \in 1..w /\ w \in Nat /\ lpos + i - 1 = lpos + o - 1
      BY <2>1, <2>2
    <3> HIDE DEF i, o, w
    <3>2. i = o /\ i \in Nat /\ o \in Nat
      BY <3>1
    <3> QED BY <3>2 DEF i, o
  <2>4. ~(k < l) /\ ~(l < k)
    BY <1>1, <1>2, <2>3
  <2> QED BY <1>1, <1>2, <2>4
<1> QED BY <1>1, <1>3, <1>4, <1>5

-----------------------------------------------------------------------------
(* Types.                                                                  *)

\* As Cardinality says nothing of an infinite set.
TypeInv == TypeOK /\ IsFiniteSet(jobs)

\* While it iterates, the iterator stands on a message.
LEMMA CurrentIs ==
  ASSUME TypeInv, Iterating
  PROVE  /\ di \in 1..Len(Dialogs) /\ mi \in 1..Len(Dialogs[di]) /\ Current \in Msgs
         /\ Len(Dialogs) \in Nat /\ Len(Dialogs[di]) \in Nat /\ Dialogs[di] \in Seq(Msgs)
BY DownloadAssumption DEF TypeInv, TypeOK, Iterating, AtEnd, Current

\* Stepping on stays within the dialogs.
LEMMA StepsOn ==
  ASSUME TypeInv, Iterating, StepOn
  PROVE  di' \in 1..Len(Dialogs) + 1 /\ mi' \in Nat \ {0}
<1>1. /\ di \in 1..Len(Dialogs) /\ mi \in 1..Len(Dialogs[di])
      /\ Len(Dialogs) \in Nat /\ Len(Dialogs[di]) \in Nat
  BY CurrentIs
<1> QED BY <1>1 DEF StepOn

\* The types of what Create writes, for any part of the fresh elements.
LEMMA CreateTypes ==
  ASSUME TypeInv, NEW new \in Seq(Elems), Create(new)
  PROVE  /\ elems' \in Seq(Elems) /\ issued' \in SUBSET Elems
         /\ tmp' \in [Msgs -> Contents] /\ spoiled' \subseteq Msgs
<1>1. \A k \in DOMAIN new : new[k] \in Elems
  OBVIOUS
<1>2. Range(new) \subseteq Elems
  BY <1>1 DEF Range
<1>3. \A e \in Elems : e.msg \in Msgs
  BY DEF Elems
<1> QED BY <1>2, <1>3 DEF Create, TypeInv, TypeOK, Contents

\* An error in the middle leaves the first few elements of an answer, or none.
LEMMA FailsWith ==
  ASSUME TypeInv, ProcessFails
  PROVE  /\ Iterating /\ StepOn /\ phase' = "ended" /\ ierr'
         /\ \E A \in Answers : \E k \in 0..Len(Fresh(A)) :
              Create(SubSeq(Fresh(A), 1, k)) /\ short' = short \union (Stands \ A)
<1>1. Iterating /\ StepOn /\ phase' = "ended" /\ ierr'
  BY DEF ProcessFails
<1>2. alive \subseteq Msgs /\ Current \in Msgs /\ lpos \in Nat
  BY <1>1, CurrentIs DEF TypeInv, TypeOK
<1>3. Stands \in Answers
  BY DEF Answers
<1>4. \A A \in Answers : Fresh(A) \in Seq(Elems)
  BY <1>2, FreshIs
<1> HIDE DEF Fresh
<1>5. CASE Create(<<>>) /\ UNCHANGED short
  <2>1. SubSeq(Fresh(Stands), 1, 0) = <<>> /\ 0 \in 0..Len(Fresh(Stands))
    BY <1>3, <1>4
  <2>2. Create(SubSeq(Fresh(Stands), 1, 0)) /\ short' = short \union (Stands \ Stands)
    BY <1>5, <2>1
  <2> QED BY <1>1, <1>3, <2>1, <2>2
<1>6. CASE \E A \in Answers : \E k \in 1..Len(Fresh(A)) - 1 :
             Create(SubSeq(Fresh(A), 1, k)) /\ short' = short \union (Stands \ A)
  <2>1. PICK A \in Answers : \E k \in 1..Len(Fresh(A)) - 1 :
               Create(SubSeq(Fresh(A), 1, k)) /\ short' = short \union (Stands \ A)
    BY <1>6
  <2>2. Len(Fresh(A)) \in Nat
    BY <1>4
  <2>3. 1..Len(Fresh(A)) - 1 \subseteq 0..Len(Fresh(A))
    BY <2>2
  <2> QED BY <1>1, <2>1, <2>3
<1> QED BY <1>5, <1>6 DEF ProcessFails

\* One job is put in the place of another, or goes.
LEMMA ToKeepsTypes ==
  ASSUME TypeInv, NEW j \in jobs, NEW s \in Steps, To(j, s) \/ Gone(j)
  PROVE  /\ jobs' \in SUBSET [elem : Elems, step : Steps] /\ IsFiniteSet(jobs')
         /\ Cardinality(jobs') =< Limit
<1> DEFINE k == [j EXCEPT !.step = s]
<1>1. j \in [elem : Elems, step : Steps] /\ k \in [elem : Elems, step : Steps]
  BY DEF TypeInv, TypeOK
<1>2. /\ IsFiniteSet(jobs \ {j}) /\ Cardinality(jobs \ {j}) = Cardinality(jobs) - 1
      /\ Cardinality(jobs) \in Nat /\ Cardinality(jobs) =< Limit /\ Limit \in Nat
  BY FS_RemoveElement, FS_CardinalityType, DownloadAssumption DEF TypeInv, TypeOK
<1>3. /\ IsFiniteSet((jobs \ {j}) \union {k})
      /\ \/ Cardinality((jobs \ {j}) \union {k}) = Cardinality(jobs \ {j})
         \/ Cardinality((jobs \ {j}) \union {k}) = Cardinality(jobs \ {j}) + 1
  BY <1>2, FS_AddElement
<1>4. CASE To(j, s)
  BY <1>1, <1>2, <1>3, <1>4 DEF To, TypeInv, TypeOK
<1>5. CASE Gone(j)
  BY <1>2, <1>5 DEF Gone, TypeInv, TypeOK
<1> QED BY <1>4, <1>5

\* What the variables are reset to.
LEMMA EmptyTypes ==
  /\ 1 \in 1..Len(Dialogs) + 1 /\ 1 \in Nat \ {0} /\ 0 \in Nat /\ 0 \in 0..MaxRuns
  /\ <<>> \in Seq(Elems) /\ {} \in SUBSET [elem : Elems, step : Steps]
  /\ IsFiniteSet({}) /\ Cardinality({}) =< Limit
<1>1. Len(Dialogs) \in Nat /\ Limit \in Nat /\ MaxRuns \in Nat
  BY DownloadAssumption
<1> QED BY <1>1, FS_EmptySet

\* The types at the start.
LEMMA InitTypes == Init => TypeInv
BY EmptyTypes DEF Init, TypeInv, TypeOK, Contents, Phases, AllModes

\* Every step keeps the types.
LEMMA NextTypes == TypeInv /\ [Next]_vars => TypeInv'
<1> SUFFICES ASSUME TypeInv, [Next]_vars PROVE TypeInv'
  OBVIOUS
<1> USE DEF TypeInv, TypeOK, Phases, Contents
<1>1. ASSUME NEW g \in Groups, NEW md \in Modes, Start(g, md) PROVE TypeInv'
  <2>1. kv' \in SUBSET Nat /\ finished' \in SUBSET Nat
    BY <1>1 DEF Start, Resumed
  <2>2. runs' \in 0..MaxRuns /\ group' \in BOOLEAN /\ mode' \in AllModes
    BY <1>1, DownloadAssumption DEF Start
  <2> QED BY <1>1, <2>1, <2>2, EmptyTypes DEF Start, disk
<1>2. ASSUME NextCanceled PROVE TypeInv'
  BY <1>2 DEF NextCanceled, disk, runVars, position, history
<1>3. ASSUME NextBuffered PROVE TypeInv'
  BY <1>3 DEF NextBuffered, disk, runVars, position, history
<1>4. ASSUME NextEnds PROVE TypeInv'
  BY <1>4 DEF NextEnds, disk, runVars, position, history
<1>5. ASSUME SkipDeleted \/ NextPanics PROVE TypeInv'
  <2>1. di' \in 1..Len(Dialogs) + 1 /\ mi' \in Nat \ {0} /\ lpos' \in Nat
    BY <1>5, StepsOn DEF SkipDeleted, NextPanics
  <2>2. CASE SkipDeleted
    <3>1. skipped' \subseteq Msgs
      BY <2>2, CurrentIs DEF SkipDeleted
    <3> QED BY <2>1, <2>2, <3>1 DEF SkipDeleted, disk, runVars, Iterating
  <2>3. CASE NextPanics
    BY <2>1, <2>3 DEF NextPanics, disk, history, Iterating
  <2> QED BY <1>5, <2>2, <2>3
<1>6. ASSUME Process PROVE TypeInv'
  <2>1. di' \in 1..Len(Dialogs) + 1 /\ mi' \in Nat \ {0} /\ Current \in Msgs
    BY <1>6, StepsOn, CurrentIs DEF Process
  <2>2. PICK A \in Answers :
          /\ Create(Fresh(A))
          /\ skipped' = skipped \union {e.msg : e \in {f \in Range(Numbered(A)) : ~NotYet(f)}}
          /\ lpos' = lpos + Moves(Grouped, Len(Members(A)))
          /\ phase' = IF HasValid(Fresh(A)) THEN "value" ELSE "next"
          /\ short' = short \union (Stands \ A)
    BY <1>6 DEF Process
  <2>3. lpos' \in Nat
    BY <2>1, <2>2, MembersAre
  <2>4. /\ elems' \in Seq(Elems) /\ issued' \in SUBSET Elems
        /\ tmp' \in [Msgs -> Contents] /\ spoiled' \subseteq Msgs
    <3>1. Fresh(A) \in Seq(Elems)
      BY <2>1, FreshIs
    <3> HIDE DEF Fresh
    <3> QED BY <2>2, <3>1, CreateTypes
  <2>5. skipped' \subseteq Msgs /\ short' \subseteq Msgs
    <3>1. Numbered(A) \in Seq(Elems) /\ Stands \subseteq Msgs
      BY <2>1, NumberedIs, AlbumIs DEF Stands
    <3>2. \A e \in Range(Numbered(A)) : e.msg \in Msgs
      <4> HIDE DEF Numbered
      <4>1. \A k \in DOMAIN Numbered(A) : Numbered(A)[k] \in Elems
        BY <3>1
      <4> QED BY <4>1 DEF Range, Elems
    <3> QED BY <2>2, <3>1, <3>2
  <2>6. phase' \in Phases /\ (phase' = "value" => elems' # <<>>)
    BY <2>2 DEF HasValid, Create
  <2> QED BY <1>6, <2>1, <2>3, <2>4, <2>5, <2>6 DEF Process, runVars
<1>7. ASSUME ProcessFails PROVE TypeInv'
  <2>1. di' \in 1..Len(Dialogs) + 1 /\ mi' \in Nat \ {0} /\ Current \in Msgs
    BY <1>7, StepsOn, CurrentIs DEF ProcessFails
  <2>2. PICK A \in Answers : \E k \in 0..Len(Fresh(A)) :
          Create(SubSeq(Fresh(A), 1, k)) /\ short' = short \union (Stands \ A)
    BY <1>7, FailsWith
  <2>3. PICK k \in 0..Len(Fresh(A)) :
          Create(SubSeq(Fresh(A), 1, k)) /\ short' = short \union (Stands \ A)
    BY <2>2
  <2>4. SubSeq(Fresh(A), 1, k) \in Seq(Elems)
    <3>1. Fresh(A) \in Seq(Elems)
      BY <2>1, FreshIs
    <3> HIDE DEF Fresh
    <3> QED BY <3>1
  <2>5. /\ elems' \in Seq(Elems) /\ issued' \in SUBSET Elems
        /\ tmp' \in [Msgs -> Contents] /\ spoiled' \subseteq Msgs
    BY <2>3, <2>4, CreateTypes
  <2>6. short' \subseteq Msgs
    BY <2>1, <2>3, AlbumIs DEF Stands
  <2> QED BY <1>7, <2>1, <2>5, <2>6 DEF ProcessFails, runVars
<1>8. ASSUME Value PROVE TypeInv'
  <2> DEFINE j == [elem |-> Head(elems), step |-> "new"]
  <2>1. Head(elems) \in Elems /\ Tail(elems) \in Seq(Elems)
    BY <1>8 DEF Value
  <2>2. /\ IsFiniteSet(jobs \union {j}) /\ Cardinality(jobs) \in Nat
        /\ \/ Cardinality(jobs \union {j}) = Cardinality(jobs)
           \/ Cardinality(jobs \union {j}) = Cardinality(jobs) + 1
    BY FS_AddElement, FS_CardinalityType
  <2>3. jobs' = jobs \union {j} /\ Cardinality(jobs) < Limit /\ Limit \in Nat
    BY <1>8, DownloadAssumption DEF Value
  <2>4. /\ jobs' \in SUBSET [elem : Elems, step : Steps] /\ IsFiniteSet(jobs')
        /\ Cardinality(jobs') =< Limit
    BY <2>1, <2>2, <2>3 DEF Steps
  <2> QED BY <1>8, <2>1, <2>4 DEF Value, disk, runVars, position, history
<1>9. ASSUME DownloadReturns PROVE TypeInv'
  BY <1>9 DEF DownloadReturns, disk, runVars, position, history
<1>10. ASSUME ProgressWait PROVE TypeInv'
  BY <1>10 DEF ProgressWait, disk, runVars, position, history
<1>11. ASSUME SaveProgress PROVE TypeInv'
  BY <1>11 DEF SaveProgress, Saved, Interrupted, disk, runVars, position
<1>12. ASSUME Exit \/ Kill PROVE TypeInv'
  BY <1>12, EmptyTypes DEF Exit, Kill, Over, disk, runVars
<1>13. ASSUME NEW j \in jobs, Job(j) PROVE TypeInv'
  <2>1. /\ jobs' \in SUBSET [elem : Elems, step : Steps] /\ IsFiniteSet(jobs')
        /\ Cardinality(jobs') =< Limit
    <3>1. \E s \in Steps : To(j, s) \/ Gone(j)
      BY <1>13 DEF Job, OnAdd, Downloaded, DownloadFails, DownloadCanceled, Finish, Rename,
                   RenameFails, Steps
    <3> QED BY <3>1, ToKeepsTypes
  <2>2. j.elem \in Elems /\ j.elem.msg \in Msgs /\ j.elem.pos \in Nat
    BY DEF Elems
  <2>3. /\ tmp' \in [Msgs -> Contents] /\ final' \in [Msgs -> Contents]
        /\ finished' \subseteq Nat /\ active' \subseteq Nat /\ spoiled' \subseteq Msgs
        /\ gerr' \in BOOLEAN
    BY <1>13, <2>2 DEF Job, OnAdd, Downloaded, DownloadFails, DownloadCanceled, Finish, Rename,
                       RenameFails, mainVars, disk, history, TrackerDone
  <2>4. UNCHANGED <<alive, skipped, kv, runs, phase, mode, canceled, group, panicked, ierr,
                    cleared, di, mi, lpos, elems, issued, short>>
    BY <1>13 DEF Job, OnAdd, Downloaded, DownloadFails, DownloadCanceled, Finish, Rename,
                 RenameFails, mainVars, history, runVars, position
  <2> QED BY <2>1, <2>3, <2>4
<1>14. ASSUME Cancel PROVE TypeInv'
  BY <1>14 DEF Cancel, disk, runVars, position, history
<1>15. ASSUME NEW m \in Deletable, DeleteMessage(m) PROVE TypeInv'
  BY <1>15 DEF DeleteMessage, disk, runVars, position, history
<1>16. ASSUME UNCHANGED vars PROVE TypeInv'
  BY <1>16 DEF vars, disk, runVars, position, history
<1>. QED
  BY <1>1, <1>2, <1>3, <1>4, <1>5, <1>6, <1>7, <1>8, <1>9, <1>10, <1>11, <1>12, <1>13,
     <1>14, <1>15, <1>16 DEF Next, Main, Environment

\* The variables keep their types, and never more jobs run than --limit allows.
THEOREM TypeCorrect == Spec => []TypeOK
<1>1. Spec => []TypeInv
  BY InitTypes, NextTypes, PTL DEF Spec
<1>2. TypeInv => TypeOK
  BY DEF TypeInv
<1> QED BY <1>1, <1>2, PTL

-----------------------------------------------------------------------------
(* Positions.                                                              *)

\* While the run iterates, the positions given so far are behind the iterator's.
Behind == phase \in {"next", "value"} => \A e \in issued : e.pos < lpos
PosInv == TypeInv /\ PositionsDistinct /\ Behind

\* The elements of an answer are all at or after lpos, before the position it leaves.
LEMMA FreshPositions ==
  ASSUME TypeInv, Iterating, NEW A \in Answers
  PROVE  /\ \A e \in Range(Fresh(A)) :
              e.pos \in Nat /\ lpos =< e.pos /\ e.pos < lpos + Len(Members(A))
         /\ \A e, f \in Range(Fresh(A)) : e.pos = f.pos => e = f
         /\ Fresh(A) \in Seq(Elems) /\ Len(Members(A)) \in Nat /\ lpos \in Nat
<1>1. alive \subseteq Msgs /\ Current \in Msgs /\ lpos \in Nat
  BY CurrentIs DEF TypeInv, TypeOK
<1>2. \A k \in DOMAIN Fresh(A) :
        /\ Fresh(A)[k].pos \in Nat
        /\ lpos =< Fresh(A)[k].pos /\ Fresh(A)[k].pos < lpos + Len(Members(A))
  <2>1. \A i \in DOMAIN Numbered(A) :
          /\ Numbered(A)[i].pos \in Nat
          /\ lpos =< Numbered(A)[i].pos /\ Numbered(A)[i].pos < lpos + Len(Members(A))
    <3> HIDE DEF Numbered, Members
    <3>1. /\ DOMAIN Numbered(A) = 1..Len(Members(A)) /\ Len(Members(A)) \in Nat
          /\ \A i \in DOMAIN Numbered(A) : Numbered(A)[i].pos = lpos + i - 1
      BY <1>1, NumberedIs
    <3> QED BY <1>1, <3>1
  <2> QED BY <1>1, <2>1, FreshIs
<1>3. \A k, l \in DOMAIN Fresh(A) : Fresh(A)[k].pos = Fresh(A)[l].pos => Fresh(A)[k] = Fresh(A)[l]
  BY <1>1, FreshIs
<1>4. Fresh(A) \in Seq(Elems) /\ Len(Members(A)) \in Nat
  BY <1>1, FreshIs, NumberedIs
<1> HIDE DEF Fresh
<1> QED BY <1>1, <1>2, <1>3, <1>4 DEF Range

\* A prefix of a sequence has no other elements.
LEMMA PrefixRange ==
  ASSUME NEW S, NEW s \in Seq(S), NEW k \in 0..Len(s)
  PROVE  Range(SubSeq(s, 1, k)) \subseteq Range(s)
<1>1. \A i \in DOMAIN SubSeq(s, 1, k) : i \in DOMAIN s /\ SubSeq(s, 1, k)[i] = s[i]
  OBVIOUS
<1> QED BY <1>1 DEF Range

\* At the start no element has been made.
LEMMA InitPositions == Init => PositionsDistinct /\ Behind
BY DEF Init, PositionsDistinct, Behind

\* Positions are given out in ascending order.
LEMMA NextPositions == PosInv /\ [Next]_vars => PositionsDistinct' /\ Behind'
<1> SUFFICES ASSUME PosInv, [Next]_vars PROVE PositionsDistinct' /\ Behind'
  OBVIOUS
<1>0. /\ lpos \in Nat /\ \A e \in issued : e.pos \in Nat
      /\ phase \in {"next", "value"} => \A e \in issued : e.pos < lpos
  BY DEF PosInv, TypeInv, TypeOK, Elems, Behind
<1>1. ASSUME NEW A \in Answers, issued' = issued \union Range(Fresh(A)), Iterating,
             phase' \in {"next", "value"} => lpos' = lpos + Len(Members(A))
      PROVE  PositionsDistinct' /\ Behind'
  <2> HIDE DEF Fresh
  <2>1. phase = "next"
    BY <1>1 DEF Iterating
  <2>2. /\ \A e \in Range(Fresh(A)) :
              e.pos \in Nat /\ lpos =< e.pos /\ e.pos < lpos + Len(Members(A))
        /\ \A e, f \in Range(Fresh(A)) : e.pos = f.pos => e = f
        /\ Len(Members(A)) \in Nat
    BY <1>1, FreshPositions DEF PosInv
  <2>3. PositionsDistinct'
    BY <1>0, <1>1, <2>1, <2>2 DEF PosInv, PositionsDistinct
  <2>4. Behind'
    BY <1>0, <1>1, <2>1, <2>2 DEF Behind
  <2> QED BY <2>3, <2>4
<1>2. ASSUME Process PROVE PositionsDistinct' /\ Behind'
  <2>1. Iterating /\ alive \subseteq Msgs /\ Current \in Msgs
    BY <1>2, CurrentIs DEF Process, PosInv, TypeInv, TypeOK
  <2>2. PICK A \in Answers : Create(Fresh(A)) /\ lpos' = lpos + Moves(Grouped, Len(Members(A)))
    BY <1>2 DEF Process
  <2>3. lpos' = lpos + Len(Members(A)) /\ issued' = issued \union Range(Fresh(A))
    BY <2>1, <2>2, MembersAre DEF Create
  <2> QED BY <1>1, <2>1, <2>3
<1>3. ASSUME ProcessFails PROVE PositionsDistinct' /\ Behind'
  <2>1. Iterating /\ phase' = "ended"
    BY <1>3 DEF ProcessFails
  <2>2. PICK A \in Answers : \E k \in 0..Len(Fresh(A)) : Create(SubSeq(Fresh(A), 1, k))
    BY <1>3, FailsWith DEF PosInv
  <2>3. PICK k \in 0..Len(Fresh(A)) : issued' = issued \union Range(SubSeq(Fresh(A), 1, k))
    BY <2>2 DEF Create
  <2>4. Range(SubSeq(Fresh(A), 1, k)) \subseteq Range(Fresh(A))
    BY <2>1, FreshPositions, PrefixRange DEF PosInv
  <2>5. PositionsDistinct'
    <3> HIDE DEF Fresh
    <3>1. phase = "next"
      BY <2>1 DEF Iterating
    <3>2. /\ \A e \in Range(Fresh(A)) : e.pos \in Nat /\ lpos =< e.pos
          /\ \A e, f \in Range(Fresh(A)) : e.pos = f.pos => e = f
      BY <2>1, FreshPositions DEF PosInv
    <3> QED BY <1>0, <2>3, <2>4, <3>1, <3>2 DEF PosInv, PositionsDistinct
  <2> QED BY <2>1, <2>5 DEF Behind
<1>4. ASSUME SkipDeleted PROVE PositionsDistinct' /\ Behind'
  <2>1. issued' = issued /\ lpos' = lpos + 1 /\ phase = "next"
    BY <1>4 DEF SkipDeleted, history, Iterating
  <2> QED BY <1>0, <2>1 DEF PosInv, PositionsDistinct, Behind
<1>5. ASSUME issued' = {} PROVE PositionsDistinct' /\ Behind'
  BY <1>5 DEF PositionsDistinct, Behind
<1>6. ASSUME UNCHANGED <<issued, lpos>>,
             phase' \in {"next", "value"} => phase \in {"next", "value"}
      PROVE  PositionsDistinct' /\ Behind'
  BY <1>6 DEF PosInv, PositionsDistinct, Behind
<1>7. ASSUME Main
      PROVE  \/ SkipDeleted \/ Process \/ ProcessFails \/ issued' = {}
             \/ /\ UNCHANGED <<issued, lpos>>
                /\ phase' \in {"next", "value"} => phase \in {"next", "value"}
  BY <1>7 DEF Main, NextCanceled, NextBuffered, NextEnds, NextPanics, Value, DownloadReturns,
              ProgressWait, SaveProgress, Exit, Over, position, history
<1>8. ASSUME Environment
      PROVE  issued' = {} \/ UNCHANGED <<issued, lpos, phase>>
  BY <1>8 DEF Environment, Kill, Over, Cancel, DeleteMessage, position, history
<1>9. ASSUME NEW j \in jobs, Job(j) PROVE UNCHANGED <<issued, lpos, phase>>
  BY <1>9 DEF Job, OnAdd, Downloaded, DownloadFails, DownloadCanceled, Finish, Rename,
              RenameFails, mainVars, position, history
<1>10. ASSUME NEW g \in Groups, NEW md \in Modes, Start(g, md) PROVE issued' = {}
  BY <1>10 DEF Start
<1>11. ASSUME UNCHANGED vars PROVE UNCHANGED <<issued, lpos, phase>>
  BY <1>11 DEF vars, position, history
<1> QED
  BY <1>2, <1>3, <1>4, <1>5, <1>6, <1>7, <1>8, <1>9, <1>10, <1>11 DEF Next

\* Two elements of a run never have one position: when one is finished, no other is taken
\* for finished with it.
THEOREM PositionsAreDistinct == Spec => []PositionsDistinct
<1>1. Spec => []PosInv
  BY InitTypes, NextTypes, InitPositions, NextPositions, PTL DEF Spec, PosInv
<1>2. PosInv => PositionsDistinct
  BY DEF PosInv
<1> QED BY <1>1, <1>2, PTL

-----------------------------------------------------------------------------
(* When positions mean the same messages in every run.                     *)

\* The messages that a listed one stands for, in order.
CoverSeq(m) == Ascending(Covers(m))

\* The places <<di, mi, lpos>> that the iterator passes: the least set that has the first
\* one and the one after each.
Places   == Nat \X Nat \X Nat
Entry(x) == x[1] \in DOMAIN Dialogs /\ x[2] \in DOMAIN Dialogs[x[1]]
At(x)    == Dialogs[x[1]][x[2]]
Width(x) == Len(CoverSeq(At(x)))
After(x) == IF x[2] < Len(Dialogs[x[1]]) THEN <<x[1], x[2] + 1, x[3] + Width(x)>>
                                         ELSE <<x[1] + 1, 1, x[3] + Width(x)>>
First    == <<1, 1, 0>>
Closed(T) == First \in T /\ \A x \in T : Entry(x) => After(x) \in T
Track    == {x \in Places : \A T \in SUBSET Places : Closed(T) => x \in T}

\* The messages with the positions they have in every run.
Slot(x, k) == [msg |-> CoverSeq(At(x))[k], pos |-> x[3] + k - 1]
Slots == {e \in Elems : \E x \in Track : Entry(x) /\ \E k \in 1..Width(x) : e = Slot(x, k)}

\* The messages covered by one, in the order of their positions.
LEMMA CoverSeqIs ==
  ASSUME NEW m \in Msgs
  PROVE  /\ CoverSeq(m) \in Seq(Msgs) /\ Len(CoverSeq(m)) \in Nat \ {0}
         /\ \A k, l \in 1..Len(CoverSeq(m)) : CoverSeq(m)[k] = CoverSeq(m)[l] => k = l
         /\ \A k \in 1..Len(CoverSeq(m)) : CoverSeq(m)[k] \in Covers(m)
         /\ \A n \in Covers(m) : \E k \in 1..Len(CoverSeq(m)) : CoverSeq(m)[k] = n
<1> DEFINE C == Covers(m)
<1>1. C \in SUBSET Msgs /\ IsFiniteSet(C) /\ C # {}
  BY AlbumIs, FS_Singleton DEF Covers
<1>2. CoverSeq(m) = Ascending(C)
  BY DEF CoverSeq
<1> HIDE DEF C
<1>3. Cardinality(C) # 0
  BY <1>1, FS_EmptySet
<1>4. /\ Ascending(C) \in Seq(Msgs) /\ Len(Ascending(C)) \in Nat \ {0}
      /\ \A k, l \in 1..Len(Ascending(C)) : Ascending(C)[k] = Ascending(C)[l] => k = l
      /\ \A k \in 1..Len(Ascending(C)) : Ascending(C)[k] \in C
      /\ \A n \in C : \E k \in 1..Len(Ascending(C)) : Ascending(C)[k] = n
  BY <1>1, <1>3, InOrder
<1> QED BY <1>2, <1>4 DEF C

\* An entry has a message and a positive width, and the place after it is further on.
LEMMA EntryIs ==
  ASSUME NEW x \in Places, Entry(x)
  PROVE  /\ At(x) \in Msgs /\ Width(x) \in Nat \ {0}
         /\ After(x) \in Places /\ After(x)[3] = x[3] + Width(x)
         /\ x[1] < After(x)[1] \/ (x[1] = After(x)[1] /\ x[2] < After(x)[2])
<1>1. /\ x[1] \in Nat /\ x[2] \in Nat /\ x[3] \in Nat
      /\ Dialogs \in Seq(Seq(Msgs)) /\ Dialogs[x[1]] \in Seq(Msgs)
  BY DownloadAssumption DEF Places, Entry
<1>2. At(x) \in Msgs
  BY <1>1 DEF Entry, At
<1>3. Width(x) \in Nat \ {0}
  BY <1>2, CoverSeqIs DEF Width
<1> DEFINE d == x[1]
           i == x[2]
           q == x[3] + Width(x)
<1>4. d \in Nat /\ i \in Nat /\ q \in Nat
  BY <1>1, <1>3
<1>5. After(x) = <<d, i + 1, q>> \/ After(x) = <<d + 1, 1, q>>
  BY DEF After
<1> HIDE DEF d, i, q
<1>6. /\ <<d, i + 1, q>> \in Places /\ <<d + 1, 1, q>> \in Places
      /\ i < i + 1 /\ d < d + 1
  BY <1>4 DEF Places
<1>7. /\ After(x) \in Places /\ After(x)[3] = q
      /\ d < After(x)[1] \/ (d = After(x)[1] /\ i < After(x)[2])
  BY <1>5, <1>6
<1> QED BY <1>2, <1>3, <1>7 DEF d, i, q

\* The track is the least set of places that has the first one and is closed.
LEMMA TrackIs ==
  /\ Track \subseteq Places /\ Closed(Track)
  /\ \A T \in SUBSET Places : Closed(T) => Track \subseteq T
<1>1. First \in Places
  BY DEF First, Places
<1>2. \A x \in Track : Entry(x) => After(x) \in Track
  <2> SUFFICES ASSUME NEW x \in Track, Entry(x) PROVE After(x) \in Track
    OBVIOUS
  <2>1. x \in Places
    BY DEF Track
  <2>2. After(x) \in Places
    BY <2>1, EntryIs
  <2>3. \A T \in SUBSET Places : Closed(T) => x \in T
    BY DEF Track
  <2>4. \A T \in SUBSET Places : Closed(T) => After(x) \in T
    BY <2>3 DEF Closed
  <2> QED BY <2>2, <2>4 DEF Track
<1> QED BY <1>1, <1>2 DEF Track, Closed

\* One place comes before another in the dialogs, and so do its positions.
Precedes(x, y) ==
  /\ Entry(x) /\ x[3] + Width(x) =< y[3]
  /\ x[1] < y[1] \/ (x[1] = y[1] /\ x[2] < y[2])

\* A place comes before the next, and before what comes after a later one.
LEMMA PrecedesAfter ==
  ASSUME NEW x \in Places, NEW y \in Places
  PROVE  /\ Entry(x) => Precedes(x, After(x))
         /\ Precedes(x, y) /\ Entry(y) => Precedes(x, After(y))
         /\ ~(Precedes(x, y) /\ Precedes(y, x))
<1>1. x[1] \in Nat /\ x[2] \in Nat /\ x[3] \in Nat /\ y[1] \in Nat /\ y[2] \in Nat /\ y[3] \in Nat
  BY DEF Places
<1>2. Entry(x) => Precedes(x, After(x))
  BY <1>1, EntryIs DEF Precedes
<1>3. ASSUME Precedes(x, y), Entry(y) PROVE Precedes(x, After(y))
  <2> DEFINE z == After(y)
  <2>1. /\ z \in Places /\ z[3] = y[3] + Width(y) /\ Width(y) \in Nat
        /\ y[1] < z[1] \/ (y[1] = z[1] /\ y[2] < z[2])
    BY <1>3, EntryIs
  <2>2. Entry(x) /\ Width(x) \in Nat
    BY <1>3, EntryIs DEF Precedes
  <2>3. z[1] \in Nat /\ z[2] \in Nat /\ z[3] \in Nat
    BY <2>1 DEF Places
  <2> HIDE DEF z
  <2>4. x[3] + Width(x) =< z[3]
    BY <1>1, <1>3, <2>1, <2>2 DEF Precedes
  <2>5. x[1] < z[1] \/ (x[1] = z[1] /\ x[2] < z[2])
    BY <1>1, <1>3, <2>1, <2>3 DEF Precedes
  <2>6. Precedes(x, z)
    BY <2>2, <2>4, <2>5 DEF Precedes
  <2> QED BY <2>6 DEF z
<1>4. ~(Precedes(x, y) /\ Precedes(y, x))
  BY <1>1 DEF Precedes
<1> QED BY <1>2, <1>3, <1>4

\* The places follow each other: of two that differ, one precedes the other.
LEMMA TrackIsOrdered ==
  ASSUME NEW x \in Track, NEW y \in Track
  PROVE  x = y \/ Precedes(x, y) \/ Precedes(y, x)
<1> DEFINE Apart(u, v) == u = v \/ Precedes(u, v) \/ Precedes(v, u)
           T == {v \in Track : \A u \in Track : Apart(u, v)}
<1>0. Track \subseteq Places /\ First \in Track /\ First \in Places
  BY TrackIs DEF Closed
<1>1. First \in T
  <2> DEFINE S == {u \in Track : Apart(u, First)}
  <2>1. ASSUME NEW u \in S, Entry(u) PROVE After(u) \in S
    <3>1. u \in Places /\ After(u) \in Track /\ After(u) \in Places
      BY <1>0, <2>1, TrackIs DEF Closed
    <3>2. ~Precedes(u, First)
      <4>1. u[1] \in Nat /\ u[2] \in Nat /\ u[3] \in Nat
        BY <3>1 DEF Places
      <4>2. Width(u) \in Nat \ {0}
        BY <2>1, <3>1, EntryIs
      <4> QED BY <4>1, <4>2 DEF Precedes, First
    <3>3. u = First \/ Precedes(First, u)
      BY <3>2
    <3>4. Precedes(First, After(u))
      BY <1>0, <2>1, <3>1, <3>3, PrecedesAfter
    <3> QED BY <3>1, <3>4
  <2>2. Closed(S) /\ S \in SUBSET Places
    BY <1>0, <2>1 DEF Closed
  <2> QED BY <1>0, <2>2, TrackIs
<1>2. ASSUME NEW v \in T, Entry(v) PROVE After(v) \in T
  <2> DEFINE w == After(v)
             S == {u \in Track : Apart(u, w)}
  <2>1. v \in Places /\ w \in Track /\ w \in Places /\ v \in Track /\ \A u \in Track : Apart(u, v)
    BY <1>0, <1>2, TrackIs DEF Closed
  <2>2. First \in S
    <3>1. First = v \/ Precedes(First, v) \/ Precedes(v, First)
      BY <1>0, <2>1
    <3>2. ~Precedes(v, First)
      <4>1. v[1] \in Nat /\ v[2] \in Nat /\ v[3] \in Nat
        BY <2>1 DEF Places
      <4>2. Width(v) \in Nat \ {0}
        BY <1>2, <2>1, EntryIs
      <4> QED BY <4>1, <4>2 DEF Precedes, First
    <3>3. Precedes(First, w)
      BY <1>0, <1>2, <2>1, <3>1, <3>2, PrecedesAfter
    <3> QED BY <1>0, <3>3
  <2>3. ASSUME NEW u \in S, Entry(u) PROVE After(u) \in S
    <3>1. u \in Track /\ u \in Places /\ After(u) \in Track /\ After(u) \in Places
      BY <1>0, <2>3, TrackIs DEF Closed
    <3>2. CASE u = w
      <4>1. Precedes(w, After(u))
        BY <2>1, <2>3, <3>2, PrecedesAfter
      <4> QED BY <3>1, <4>1
    <3>3. CASE Precedes(w, u)
      <4>1. Precedes(w, After(u))
        BY <2>1, <2>3, <3>1, <3>3, PrecedesAfter
      <4> QED BY <3>1, <4>1
    <3>4. CASE Precedes(u, w)
      <4>1. CASE u = v
        BY <3>1, <4>1
      <4>2. CASE Precedes(v, u)
        <5>1. w[3] =< u[3]
          BY <1>2, <2>1, <4>2, EntryIs DEF Precedes
        <5>2. u[3] + Width(u) =< w[3] /\ u[3] \in Nat /\ w[3] \in Nat /\ Width(u) \in Nat \ {0}
          BY <2>1, <2>3, <3>1, <3>4, EntryIs DEF Precedes, Places
        <5> QED BY <5>1, <5>2
      <4>3. CASE Precedes(u, v)
        <5>1. Apart(After(u), v)
          BY <2>1, <3>1
        <5>2. ~Precedes(v, After(u))
          <6>1. After(u)[3] = u[3] + Width(u) /\ u[3] + Width(u) =< v[3]
            BY <2>3, <3>1, <4>3, EntryIs DEF Precedes
          <6>2. v[3] \in Nat /\ Width(v) \in Nat \ {0}
            BY <1>2, <2>1, EntryIs DEF Places
          <6>3. u[3] + Width(u) \in Nat
            BY <2>3, <3>1, EntryIs DEF Places
          <6> QED BY <6>1, <6>2, <6>3 DEF Precedes
        <5>3. Precedes(After(u), w)
          BY <1>2, <2>1, <3>1, <5>1, <5>2, PrecedesAfter
        <5> QED BY <3>1, <5>3
      <4> QED BY <2>1, <3>1, <4>1, <4>2, <4>3
    <3> QED BY <2>3, <3>2, <3>3, <3>4
  <2>4. Closed(S) /\ S \in SUBSET Places
    BY <1>0, <2>2, <2>3 DEF Closed
  <2>5. Track \subseteq S
    BY <2>4, TrackIs
  <2> QED BY <2>1, <2>5
<1>3. Closed(T) /\ T \in SUBSET Places
  BY <1>0, <1>1, <1>2 DEF Closed
<1> QED BY <1>3, TrackIs

\* In a steady setting a position stands for one message, and a message has one position.
LEMMA SlotsApart ==
  ASSUME Steady, NEW e \in Slots, NEW f \in Slots, e.pos = f.pos \/ e.msg = f.msg
  PROVE  e = f
<1>01. PICK x \in Track : Entry(x) /\ \E k \in 1..Width(x) : e = Slot(x, k)
  BY DEF Slots
<1>1. PICK k \in 1..Width(x) : Entry(x) /\ e = Slot(x, k)
  BY <1>01
<1>02. PICK y \in Track : Entry(y) /\ \E l \in 1..Width(y) : f = Slot(y, l)
  BY DEF Slots
<1>2. PICK l \in 1..Width(y) : Entry(y) /\ f = Slot(y, l)
  BY <1>02
<1>3. x \in Places /\ y \in Places
  BY TrackIs
<1>4. /\ x[3] \in Nat /\ y[3] \in Nat /\ Width(x) \in Nat /\ Width(y) \in Nat
      /\ At(x) \in Msgs /\ At(y) \in Msgs /\ k \in Nat /\ l \in Nat
  BY <1>1, <1>2, <1>3, EntryIs DEF Places
<1>5. /\ e.pos = x[3] + k - 1 /\ f.pos = y[3] + l - 1
      /\ e.msg = CoverSeq(At(x))[k] /\ f.msg = CoverSeq(At(y))[l]
  BY <1>1, <1>2 DEF Slot
<1>6. e.msg \in Covers(At(x)) /\ f.msg \in Covers(At(y))
  BY <1>4, <1>5, CoverSeqIs DEF Width
<1>7. CASE x = y
  <2>1. k = l
    <3>1. CASE e.pos = f.pos
      BY <1>4, <1>5, <1>7, <3>1
    <3>2. CASE e.msg = f.msg
      BY <1>4, <1>5, <1>7, <3>2, CoverSeqIs DEF Width
    <3> QED BY <3>1, <3>2
  <2> QED BY <1>1, <1>2, <1>7, <2>1
<1>8. CASE x # y
  <2>1. Precedes(x, y) \/ Precedes(y, x)
    BY <1>8, TrackIsOrdered
  <2>2. e.pos # f.pos
    <3>1. x[3] + Width(x) =< y[3] \/ y[3] + Width(y) =< x[3]
      BY <2>1 DEF Precedes
    <3>2. k =< Width(x) /\ l =< Width(y) /\ 1 =< k /\ 1 =< l
      OBVIOUS
    <3> QED BY <1>4, <1>5, <3>1, <3>2
  <2>3. Covers(At(x)) \cap Covers(At(y)) # {}
    BY <1>6, <2>2
  <2>4. x[1] = y[1] /\ x[2] = y[2]
    BY <1>1, <1>2, <2>3 DEF Steady, Entry, At
  <2>5. x[1] \in Nat /\ x[2] \in Nat
    BY <1>3 DEF Places
  <2> QED BY <2>1, <2>4, <2>5 DEF Precedes
<1> QED BY <1>7, <1>8

-----------------------------------------------------------------------------
(* What a run does with the positions.                                     *)

HereNow == <<di, mi, lpos>>

\* Only what may be deleted is.
Kept == Msgs \ Deletable \subseteq alive

\* The iterator is at one of the places, and what it makes is there in every run.
Placed ==
  /\ phase # "off" => (group <=> WithG)
  /\ phase \in {"next", "value"} => HereNow \in Track
  /\ issued \subseteq Slots

\* In a steady setting the full answer gives the elements of the place it is at.
LEMMA HereIs ==
  ASSUME Steady, TypeInv, Kept, Placed, Iterating
  PROVE  /\ Entry(HereNow) /\ At(HereNow) = Current /\ HereNow \in Track
         /\ Width(HereNow) \in Nat \ {0}
         /\ Current \notin alive => Covers(Current) = {Current} /\ Width(HereNow) = 1
         /\ Stands \in Answers
         /\ Members(Stands) = CoverSeq(Current) /\ Len(Members(Stands)) = Width(HereNow)
         /\ Range(Numbered(Stands)) \subseteq Slots
         /\ Range(Fresh(Stands)) \subseteq Range(Numbered(Stands))
<1>1. /\ di \in DOMAIN Dialogs /\ mi \in DOMAIN Dialogs[di] /\ Current \in Msgs
      /\ lpos \in Nat /\ alive \subseteq Msgs
  BY CurrentIs DEF TypeInv, TypeOK
<1>2. phase = "next" /\ (group <=> WithG) /\ HereNow \in Track
  BY DEF Placed, Iterating
<1>3. Entry(HereNow) /\ At(HereNow) = Current
  BY <1>1 DEF Entry, At, HereNow, Current
<1>4. HereNow \in Places /\ HereNow[3] = lpos
  BY <1>2, TrackIs DEF HereNow
<1>5. Width(HereNow) \in Nat \ {0}
  BY <1>3, <1>4, EntryIs
<1>6. WithG /\ AlbumOf(Current) # {} => /\ AlbumOf(Current) \cap alive = AlbumOf(Current)
                                        /\ Current \in alive
  <2>1. SUFFICES ASSUME WithG, AlbumOf(Current) # {}
                 PROVE  AlbumOf(Current) \subseteq alive /\ Current \in alive
    OBVIOUS
  <2>2. \A n \in AlbumOf(Current) : n \in Msgs /\ n \notin Deletable
    BY <2>1, DownloadAssumption DEF Steady, AlbumOf
  <2> QED BY <2>1, <2>2, AlbumIs DEF Kept
<1>7. Stands \in Answers /\ Members(Stands) = CoverSeq(Current)
  BY <1>2, <1>6 DEF Answers, Members, Stands, Grouped, CoverSeq, Covers
<1>8. Current \notin alive => Covers(Current) = {Current} /\ Width(HereNow) = 1
  <2>1. SUFFICES ASSUME Current \notin alive
                 PROVE  Covers(Current) = {Current} /\ Width(HereNow) = 1
    OBVIOUS
  <2>2. Covers(Current) = {Current}
    BY <1>6, <2>1 DEF Covers
  <2>3. Len(Ascending({Current})) = Cardinality({Current}) /\ Cardinality({Current}) = 1
    BY <1>1, FS_Singleton, InOrder
  <2> QED BY <1>3, <2>2, <2>3 DEF Width, CoverSeq
<1>9. Len(Members(Stands)) = Width(HereNow)
  BY <1>3, <1>7 DEF Width
<1>10. Range(Numbered(Stands)) \subseteq Slots
  <2> DEFINE N == Numbered(Stands)
  <2>1. ASSUME NEW i \in DOMAIN N PROVE N[i] \in Slots
    <3>1. /\ N[i] \in Elems /\ N[i].msg = Members(Stands)[i]
          /\ N[i].pos = lpos + i - 1 /\ i \in 1..Width(HereNow)
      BY <1>1, <1>7, <1>9, <2>1, NumberedIs
    <3>2. N[i] = Slot(HereNow, i)
      BY <1>3, <1>4, <1>7, <3>1 DEF Slot, Elems
    <3> QED BY <1>2, <1>3, <3>1, <3>2 DEF Slots
  <2> HIDE DEF N
  <2>2. Range(N) \subseteq Slots
    BY <2>1 DEF Range
  <2> QED BY <2>2 DEF N
<1>11. Range(Fresh(Stands)) \subseteq Range(Numbered(Stands))
  <2>1. \A k \in DOMAIN Fresh(Stands) :
          \E i \in DOMAIN Numbered(Stands) : Fresh(Stands)[k] = Numbered(Stands)[i]
    BY <1>1, <1>7, FreshIs
  <2> HIDE DEF Numbered, Fresh
  <2> QED BY <2>1 DEF Range
<1> QED BY <1>2, <1>3, <1>5, <1>7, <1>8, <1>9, <1>10, <1>11

\* A deleted message has the position at which it is passed over.
LEMMA HereHasSlot ==
  ASSUME Steady, TypeInv, Kept, Placed, Iterating, Current \notin alive
  PROVE  \E e \in Slots : e.msg = Current /\ e.pos = lpos
<1>1. /\ Entry(HereNow) /\ At(HereNow) = Current /\ HereNow \in Track
      /\ Covers(Current) = {Current} /\ Width(HereNow) = 1
  BY HereIs
<1>2. Current \in Msgs /\ lpos \in Nat /\ HereNow[3] = lpos
  BY CurrentIs DEF TypeInv, TypeOK, HereNow
<1>3. CoverSeq(Current)[1] = Current
  <2>1. Len(CoverSeq(Current)) = 1 /\ 1 \in 1..1
    BY <1>1 DEF Width
  <2>2. \A k \in 1..Len(CoverSeq(Current)) : CoverSeq(Current)[k] \in Covers(Current)
    BY <1>2, CoverSeqIs
  <2>3. CoverSeq(Current)[1] \in Covers(Current)
    BY <2>1, <2>2
  <2> QED BY <1>1, <2>3
<1> DEFINE e == Slot(HereNow, 1)
<1>4. e = [msg |-> Current, pos |-> lpos]
  BY <1>1, <1>2, <1>3 DEF Slot
<1>5. e \in Elems /\ 1 \in 1..Width(HereNow)
  BY <1>1, <1>2, <1>4 DEF Elems
<1>6. e \in Slots
  BY <1>1, <1>5 DEF Slots
<1> QED BY <1>4, <1>6

\* When no answer has been short, the one at hand is full.
LEMMA FullAnswer ==
  ASSUME NEW A \in Answers, short' = short \union (Stands \ A), short' = {}
  PROVE  A = Stands
<1>1. A \subseteq Stands
  BY DEF Answers
<1> QED BY <1>1

\* When the position has moved by the width, the next place is on the track too.
LEMMA StepsToTrack ==
  ASSUME Steady, TypeInv, Kept, Placed, Iterating, StepOn, lpos' = lpos + Width(HereNow)
  PROVE  HereNow' \in Track
<1>1. Entry(HereNow) /\ HereNow \in Track
  BY HereIs
<1>2. After(HereNow) \in Track
  BY <1>1, TrackIs DEF Closed
<1>3. HereNow' = After(HereNow)
  BY DEF HereNow, After, StepOn
<1> QED BY <1>2, <1>3

\* At the start the iterator has made nothing.
LEMMA InitPlaced == Init => Kept /\ Placed
BY DEF Init, Kept, Placed

\* Only what may be deleted is.
LEMMA NextKeepsMessages == Kept /\ [Next]_vars => Kept'
<1>1. ASSUME Kept, NEW m \in Deletable, DeleteMessage(m) PROVE Kept'
  BY <1>1 DEF Kept, DeleteMessage
<1>2. ASSUME [Next]_vars, ~\E m \in Deletable : DeleteMessage(m) PROVE alive' = alive
  BY <1>2 DEF Next, Main, Environment, Job, Start, NextCanceled, NextBuffered, NextEnds,
              SkipDeleted, NextPanics, Process, ProcessFails, Value, DownloadReturns, ProgressWait,
              SaveProgress, Exit, Kill, Over, Cancel, OnAdd, Downloaded, DownloadFails,
              DownloadCanceled, Finish, Rename, RenameFails, mainVars, vars
<1> QED BY <1>1, <1>2 DEF Kept

\* In a steady setting every run begins at the first place.
LEMMA StartPlaced ==
  ASSUME Steady, NEW g \in Groups, NEW md \in Modes, Start(g, md)
  PROVE  Placed'
<1>1. group' <=> WithG
  <2>1. Groups \subseteq {TRUE, FALSE} /\ Groups # {TRUE, FALSE}
    BY DownloadAssumption DEF Steady
  <2>2. ~(TRUE \in Groups /\ FALSE \in Groups)
    BY <2>1
  <2>3. g = TRUE \/ g = FALSE
    BY <2>1
  <2>4. g <=> TRUE \in Groups
    BY <2>2, <2>3
  <2>5. group' = g
    BY DEF Start
  <2> QED BY <2>4, <2>5 DEF WithG
<1>2. HereNow' = First /\ First \in Track /\ issued' = {}
  BY TrackIs DEF Start, HereNow, First, Closed
<1> QED BY <1>1, <1>2 DEF Placed

\* In a steady setting every run stays on the track, while the answers are full.
LEMMA NextPlaced ==
  ASSUME Steady, TypeInv, Kept, Placed, [Next]_vars, short' = {}
  PROVE  Placed'
<1>1. ASSUME NEW g \in Groups, NEW md \in Modes, Start(g, md) PROVE Placed'
  BY <1>1, StartPlaced
<1>2. ASSUME SkipDeleted PROVE Placed'
  <2>1. HereNow' \in Track
    BY <1>2, HereIs, StepsToTrack DEF SkipDeleted
  <2> QED BY <1>2, <2>1 DEF SkipDeleted, Placed, history, runVars, Iterating
<1>3. ASSUME Process PROVE Placed'
  <2>1. Iterating /\ StepOn /\ alive \subseteq Msgs /\ Current \in Msgs
    BY <1>3, CurrentIs DEF Process, TypeInv, TypeOK
  <2>2. PICK A \in Answers : /\ Create(Fresh(A)) /\ lpos' = lpos + Moves(Grouped, Len(Members(A)))
                             /\ short' = short \union (Stands \ A)
    BY <1>3 DEF Process
  <2>3. A = Stands
    BY <2>2, FullAnswer
  <2>4. lpos' = lpos + Width(HereNow)
    BY <2>1, <2>2, <2>3, HereIs, MembersAre
  <2>5. HereNow' \in Track
    BY <2>1, <2>4, StepsToTrack
  <2>6. issued' \subseteq Slots
    <3>1. issued' = issued \union Range(Fresh(Stands))
      BY <2>2, <2>3 DEF Create
    <3> HIDE DEF Fresh, Numbered
    <3> QED BY <2>1, <3>1, HereIs DEF Placed
  <2> QED BY <1>3, <2>1, <2>5, <2>6 DEF Process, Placed, runVars, Iterating
<1>4. ASSUME ProcessFails PROVE Placed'
  <2>1. Iterating /\ phase' = "ended" /\ UNCHANGED group
    BY <1>4 DEF ProcessFails, runVars
  <2>2. PICK A \in Answers : \E k \in 0..Len(Fresh(A)) :
          Create(SubSeq(Fresh(A), 1, k)) /\ short' = short \union (Stands \ A)
    BY <1>4, FailsWith
  <2>3. PICK k \in 0..Len(Fresh(A)) :
          Create(SubSeq(Fresh(A), 1, k)) /\ short' = short \union (Stands \ A)
    BY <2>2
  <2>4. A = Stands
    BY <2>3, FullAnswer
  <2>5. Range(SubSeq(Fresh(A), 1, k)) \subseteq Range(Fresh(A))
    BY <2>1, FreshPositions, PrefixRange
  <2>6. issued' \subseteq Slots
    <3>1. issued' = issued \union Range(SubSeq(Fresh(Stands), 1, k))
      BY <2>3, <2>4 DEF Create
    <3> HIDE DEF Fresh, Numbered
    <3> QED BY <2>1, <2>4, <2>5, <3>1, HereIs DEF Placed
  <2> QED BY <2>1, <2>6 DEF Placed, Iterating
<1>5. ASSUME issued' = {}, phase' = "off" PROVE Placed'
  BY <1>5 DEF Placed
<1>6. ASSUME UNCHANGED <<issued, di, mi, lpos, group>>, phase' # "off" => phase # "off",
             phase' \in {"next", "value"} => phase \in {"next", "value"}
      PROVE  Placed'
  BY <1>6 DEF Placed, HereNow
<1>7. ASSUME Main
      PROVE  \/ SkipDeleted \/ NextPanics \/ Process \/ ProcessFails
             \/ issued' = {} /\ phase' = "off"
             \/ /\ UNCHANGED <<issued, di, mi, lpos, group>>
                /\ phase' # "off" => phase # "off"
                /\ phase' \in {"next", "value"} => phase \in {"next", "value"}
  BY <1>7 DEF Main, NextCanceled, NextBuffered, NextEnds, Value, DownloadReturns, ProgressWait,
              SaveProgress, Exit, Over, position, history, runVars
<1>8. ASSUME Environment
      PROVE  \/ issued' = {} /\ phase' = "off"
             \/ UNCHANGED <<issued, di, mi, lpos, group, phase>>
  BY <1>8 DEF Environment, Kill, Over, Cancel, DeleteMessage, position, history, runVars
<1>9. ASSUME NEW j \in jobs, Job(j) PROVE UNCHANGED <<issued, di, mi, lpos, group, phase>>
  BY <1>9 DEF Job, OnAdd, Downloaded, DownloadFails, DownloadCanceled, Finish, Rename,
              RenameFails, mainVars, position, history, runVars
<1>10. ASSUME UNCHANGED vars PROVE UNCHANGED <<issued, di, mi, lpos, group, phase>>
  BY <1>10 DEF vars, position, history, runVars
<1>11. ASSUME NextPanics PROVE Placed'
  BY <1>11 DEF NextPanics, Placed, Iterating, history
<1> QED
  BY <1>1, <1>2, <1>3, <1>4, <1>5, <1>6, <1>7, <1>8, <1>9, <1>10, <1>11 DEF Next

-----------------------------------------------------------------------------
(* What the resume key says of the files.                                  *)

Once(s)  == \A k, l \in DOMAIN s : s[k] = s[l] => k = l
Waiting  == Range(elems)

\* An element is waiting once, or in one job, or neither.
OnceEach ==
  /\ \A i, j \in jobs : i.elem = j.elem => i = j
  /\ Once(elems) /\ Waiting \subseteq issued
  /\ \A j \in jobs : j.elem \in issued /\ j.elem \notin Waiting

\* What is still to be downloaded is not taken for finished, now or when resumed.
Ahead(e) == e.pos \notin finished /\ (e.pos \in kv => e.msg \in spoiled)
NotDone ==
  /\ \A e \in Waiting : Ahead(e)
  /\ \A j \in jobs : j.step \in {"new", "run"} => Ahead(j.elem)

\* A job whose download has ended has the file, or the message is spoiled.
Fetched ==
  \A j \in jobs : j.step \in {"done", "finish"} =>
                   j.elem.msg \in spoiled \/ tmp[j.elem.msg] = "full"

\* A finished position, in memory or in the key, is one of a message downloaded.
Accounted ==
  \A e \in Slots : e.pos \in kv \union finished => e.msg \in spoiled \/ Complete(e.msg)

SkippedDone == \A m \in skipped : \E e \in Slots : e.msg = m /\ e.pos \in finished

SteadyInv == PosInv /\ Kept /\ Placed
ResumeInv == OnceEach /\ NotDone /\ Fetched /\ Accounted

\* Taking the first of a list without repetition.
LEMMA HeadAndTail ==
  ASSUME NEW S, NEW s \in Seq(S), s # <<>>, Once(s)
  PROVE  /\ Head(s) \in Range(s) /\ Range(Tail(s)) \subseteq Range(s)
         /\ Head(s) \notin Range(Tail(s)) /\ Once(Tail(s))
         /\ \A e \in Range(s) : e = Head(s) \/ e \in Range(Tail(s))
<1>1. /\ Len(s) \in Nat \ {0} /\ DOMAIN s = 1..Len(s) /\ Head(s) = s[1]
      /\ Len(Tail(s)) = Len(s) - 1 /\ DOMAIN Tail(s) = 1..Len(s) - 1
      /\ \A k \in DOMAIN Tail(s) : Tail(s)[k] = s[k + 1]
  OBVIOUS
<1>2. Head(s) \in Range(s) /\ Range(Tail(s)) \subseteq Range(s)
  BY <1>1 DEF Range
<1>3. Head(s) \notin Range(Tail(s))
  BY <1>1 DEF Range, Once
<1>4. Once(Tail(s))
  <2> SUFFICES ASSUME NEW k \in DOMAIN Tail(s), NEW l \in DOMAIN Tail(s),
                      Tail(s)[k] = Tail(s)[l]
               PROVE  k = l
    BY DEF Once
  <2>1. k + 1 = l + 1 /\ k \in Nat /\ l \in Nat
    BY <1>1 DEF Once
  <2> QED BY <2>1
<1>5. ASSUME NEW e \in Range(s) PROVE e = Head(s) \/ e \in Range(Tail(s))
  <2>1. PICK k \in DOMAIN s : e = s[k]
    BY DEF Range
  <2>2. CASE k = 1
    BY <1>1, <2>1, <2>2
  <2>3. CASE k # 1
    <3>1. k - 1 \in DOMAIN Tail(s) /\ Tail(s)[k - 1] = s[k]
      BY <1>1, <2>3
    <3> QED BY <2>1, <3>1 DEF Range
  <2> QED BY <2>2, <2>3
<1> QED BY <1>2, <1>3, <1>4, <1>5

\* An element is the only one with its message or its position, in what was made or among
\* all there are.
LEMMA IssuedApart ==
  ASSUME Steady, SteadyInv, OnceEach
  PROVE  /\ issued \subseteq Slots /\ \A e \in Slots : e.msg \in Msgs /\ e.pos \in Nat
         /\ \A e, f \in Slots : e.pos = f.pos \/ e.msg = f.msg => e = f
         /\ \A j \in jobs : j.elem \in Slots /\ j.elem.msg \in Msgs
         /\ \A i, j \in jobs : i # j => /\ i.elem.msg # j.elem.msg
                                        /\ i.elem.pos # j.elem.pos
         /\ \A e \in Waiting : \A j \in jobs : e.msg # j.elem.msg /\ e.pos # j.elem.pos
<1>1. issued \subseteq Slots /\ Slots \subseteq Elems
  BY DEF SteadyInv, Placed, Slots
<1>2. \A e \in Slots : e.msg \in Msgs /\ e.pos \in Nat
  BY <1>1 DEF Elems
<1>3. \A e, f \in Slots : e.pos = f.pos \/ e.msg = f.msg => e = f
  BY SlotsApart
<1>4. \A j \in jobs : j.elem \in Slots
  BY <1>1 DEF OnceEach
<1>5. \A i, j \in jobs : i # j => i.elem.msg # j.elem.msg /\ i.elem.pos # j.elem.pos
  BY <1>3, <1>4 DEF OnceEach
<1>6. \A e \in Waiting : e \in Slots
  BY <1>1 DEF OnceEach
<1>7. \A e \in Waiting : \A j \in jobs : e.msg # j.elem.msg /\ e.pos # j.elem.pos
  BY <1>3, <1>4, <1>6 DEF OnceEach
<1> QED BY <1>1, <1>2, <1>3, <1>4, <1>5, <1>7

\* At the start nothing is finished, passed over or under way.
LEMMA InitResume == Init => ResumeInv /\ SkippedDone
<1> SUFFICES ASSUME Init PROVE ResumeInv /\ SkippedDone
  OBVIOUS
<1>1. Waiting = {} /\ Once(elems) /\ jobs = {} /\ kv = {} /\ finished = {} /\ skipped = {}
  BY DEF Init, Waiting, Range, Once
<1> QED BY <1>1 DEF ResumeInv, OnceEach, NotDone, Fetched, Accounted, SkippedDone

\* Making elements for the message at hand, all of them or the first few.
LEMMA CreateResume ==
  ASSUME Steady, SteadyInv, ResumeInv, Iterating, UNCHANGED <<jobs, kv, finished, final>>,
         NEW new \in Seq(Elems), Range(new) \subseteq Range(Fresh(Stands)), Once(new), Create(new)
  PROVE  ResumeInv'
<1> HIDE DEF Fresh
<1>1. /\ elems' = new /\ Waiting' = Range(new) /\ issued' = issued \union Range(new)
      /\ elems = <<>>
  BY DEF Create, Iterating, Waiting
<1>2. /\ \A m \in Msgs : tmp'[m] = IF m \in {e.msg : e \in Range(new)} THEN "part" ELSE tmp[m]
      /\ spoiled' = spoiled \union {e.msg : e \in {f \in Range(new) : f.pos \in kv}}
  BY DEF Create
<1>3. /\ issued \subseteq Slots /\ \A e \in Slots : e.msg \in Msgs /\ e.pos \in Nat
      /\ \A e, f \in Slots : e.pos = f.pos \/ e.msg = f.msg => e = f
      /\ \A j \in jobs : j.elem \in Slots /\ j.elem.msg \in Msgs
  BY IssuedApart DEF ResumeInv
<1>4. \A e \in Range(new) : /\ e \in Slots /\ e.pos \notin finished
                            /\ e \notin issued /\ e.msg \in Msgs
  <2>1. Range(Fresh(Stands)) \subseteq Slots /\ \A e \in Range(Fresh(Stands)) : lpos =< e.pos
    BY HereIs, FreshPositions DEF SteadyInv, PosInv
  <2>2. \A k \in DOMAIN Fresh(Stands) : Fresh(Stands)[k].pos \notin finished
    BY CurrentIs, FreshIs, HereIs DEF SteadyInv, PosInv, TypeInv, TypeOK
  <2>3. \A e \in Range(Fresh(Stands)) : e.pos \notin finished
    BY <2>2 DEF Range
  <2>4. \A e \in issued : e.pos < lpos /\ e.pos \in Nat /\ lpos \in Nat
    BY <1>3 DEF SteadyInv, PosInv, Behind, Iterating, TypeInv, TypeOK
  <2> QED BY <1>3, <2>1, <2>3, <2>4
<1>5. OnceEach'
  BY <1>1, <1>4 DEF ResumeInv, OnceEach
<1>6. NotDone'
  <2>1. \A e \in Waiting' : Ahead(e)'
    BY <1>1, <1>2, <1>4 DEF Ahead
  <2>2. \A j \in jobs : Ahead(j.elem) => Ahead(j.elem)'
    BY <1>2 DEF Ahead
  <2> QED BY <2>1, <2>2 DEF ResumeInv, NotDone
<1>7. Fetched'
  <2>1. \A j \in jobs : tmp'[j.elem.msg] = tmp[j.elem.msg]
    BY <1>2, <1>3, <1>4 DEF ResumeInv, OnceEach
  <2> QED BY <1>2, <2>1 DEF ResumeInv, Fetched
<1>8. Accounted'
  <2> SUFFICES ASSUME NEW e \in Slots, e.pos \in kv \union finished
               PROVE  e.msg \in spoiled' \/ Complete(e.msg)'
    BY DEF Accounted
  <2>1. CASE e \in Range(new)
    BY <1>2, <1>4, <2>1
  <2>2. CASE e \notin Range(new)
    <3>1. tmp'[e.msg] = tmp[e.msg] /\ final'[e.msg] = final[e.msg]
      BY <1>2, <1>3, <1>4, <2>2
    <3> QED BY <1>2, <3>1 DEF ResumeInv, Accounted, Complete
  <2> QED BY <2>1, <2>2
<1> QED BY <1>5, <1>6, <1>7, <1>8 DEF ResumeInv

\* What is made of an answer has each element once, and so has any part of it.
LEMMA FreshOnce ==
  ASSUME TypeInv, Iterating, NEW A \in Answers
  PROVE  /\ Fresh(A) \in Seq(Elems) /\ Once(Fresh(A))
         /\ \A k \in 0..Len(Fresh(A)) :
              SubSeq(Fresh(A), 1, k) \in Seq(Elems) /\ Once(SubSeq(Fresh(A), 1, k))
<1>1. /\ Fresh(A) \in Seq(Elems)
      /\ \A k, l \in DOMAIN Fresh(A) : Fresh(A)[k].pos = Fresh(A)[l].pos => k = l
  BY CurrentIs, FreshIs DEF TypeInv, TypeOK
<1> HIDE DEF Fresh
<1>2. Once(Fresh(A))
  BY <1>1 DEF Once
<1>3. ASSUME NEW k \in 0..Len(Fresh(A))
      PROVE  SubSeq(Fresh(A), 1, k) \in Seq(Elems) /\ Once(SubSeq(Fresh(A), 1, k))
  <2>1. SubSeq(Fresh(A), 1, k) \in Seq(Elems)
    BY <1>1
  <2>2. \A i \in DOMAIN SubSeq(Fresh(A), 1, k) :
          i \in DOMAIN Fresh(A) /\ SubSeq(Fresh(A), 1, k)[i] = Fresh(A)[i]
    BY <1>1
  <2> QED BY <1>2, <2>1, <2>2 DEF Once
<1> QED BY <1>1, <1>2, <1>3

\* A job makes a step: the others stay, and it keeps its element or is gone.
LEMMA JobSteps ==
  ASSUME TypeInv, NEW j \in jobs, NEW s \in Steps, To(j, s) \/ Gone(j)
  PROVE  \A k \in jobs' : (k \in jobs /\ k # j) \/ (To(j, s) /\ k.elem = j.elem /\ k.step = s)
<1>1. j \in [elem : Elems, step : Steps]
  BY DEF TypeInv, TypeOK
<1>2. [j EXCEPT !.step = s].elem = j.elem /\ [j EXCEPT !.step = s].step = s
  BY <1>1
<1>3. CASE To(j, s)
  <2>1. \A k \in jobs' : (k \in jobs /\ k # j) \/ k = [j EXCEPT !.step = s]
    BY <1>3 DEF To
  <2>2. \A k \in jobs' : (k \in jobs /\ k # j) \/ (k.elem = j.elem /\ k.step = s)
    BY <1>2, <2>1
  <2> QED BY <1>3, <2>2, Zenon
<1>4. CASE Gone(j)
  <2>1. \A k \in jobs' : k \in jobs /\ k # j
    BY <1>4 DEF Gone
  <2> QED BY <2>1, Zenon
<1> QED BY <1>3, <1>4

\* A job that goes on, or ends, is the only one of its element.
LEMMA JobOnce ==
  ASSUME TypeInv, OnceEach, NEW j \in jobs, NEW s \in Steps, To(j, s) \/ Gone(j),
         UNCHANGED <<elems, issued>>
  PROVE  OnceEach'
<1>1. Waiting' = Waiting /\ (Once(elems) => Once(elems)')
  BY DEF Waiting, Once
<1>2. \A i, k \in jobs' : i.elem = k.elem => i = k
  BY DEF To, Gone, TypeInv, TypeOK, OnceEach
<1>3. \A k \in jobs' : \E i \in jobs : k.elem = i.elem
  BY JobSteps
<1> QED BY <1>1, <1>2, <1>3 DEF OnceEach

\* What a job finishes, it has downloaded, or a failure has spoiled it.
LEMMA JobResume ==
  ASSUME Steady, SteadyInv, ResumeInv, NEW j \in jobs, Job(j)
  PROVE  ResumeInv' /\ (SkippedDone => SkippedDone')
<1> DEFINE e == j.elem
           m == j.elem.msg
<1>1. /\ issued \subseteq Slots /\ \A f \in Slots : f.msg \in Msgs /\ f.pos \in Nat
      /\ \A f, g \in Slots : f.pos = g.pos \/ f.msg = g.msg => f = g
      /\ e \in Slots /\ m \in Msgs
      /\ \A i \in jobs : i # j => i.elem.msg # m /\ i.elem.pos # e.pos
      /\ \A f \in Waiting : f.msg # m /\ f.pos # e.pos
  BY IssuedApart DEF ResumeInv
<1>2. PICK s \in Steps : To(j, s) \/ Gone(j)
  BY DEF Job, OnAdd, Downloaded, DownloadFails, DownloadCanceled, Finish, Rename, RenameFails,
         Steps
<1>3. /\ UNCHANGED <<elems, issued, kv, skipped, Waiting>> /\ finished \subseteq finished'
      /\ spoiled \subseteq spoiled'
  BY DEF Job, OnAdd, Downloaded, DownloadFails, DownloadCanceled, Finish, Rename, RenameFails,
         mainVars, history, Waiting
<1>4. OnceEach'
  BY <1>2, <1>3, JobOnce DEF SteadyInv, PosInv, ResumeInv
<1>5. SkippedDone => SkippedDone'
  BY <1>3 DEF SkippedDone
<1>6. TypeInv /\ tmp \in [Msgs -> Contents] /\ final \in [Msgs -> Contents]
  BY DEF SteadyInv, PosInv, TypeInv, TypeOK
\* Until the download ends.
<1>7. CASE OnAdd(j)
  <2>1. To(j, "run") /\ j.step = "new" /\ UNCHANGED <<finished, spoiled, tmp, final>>
    BY <1>7 DEF OnAdd, mainVars, disk, history
  <2>2. \A k \in jobs' : (k \in jobs /\ k # j) \/ (k.elem = e /\ k.step = "run")
    BY <1>6, <2>1, JobSteps DEF Steps
  <2>3. NotDone' /\ Fetched' /\ Accounted'
    BY <1>3, <2>1, <2>2 DEF ResumeInv, NotDone, Ahead, Fetched, Accounted, Complete
  <2> QED BY <1>4, <1>5, <2>3 DEF ResumeInv
<1>8. CASE Downloaded(j)
  <2>1. /\ To(j, "done") /\ j.step = "run" /\ UNCHANGED <<finished, spoiled, final>>
        /\ tmp' = [tmp EXCEPT ![m] = "full"]
    BY <1>8 DEF Downloaded, mainVars, history
  <2>2. \A k \in jobs' : (k \in jobs /\ k # j) \/ (k.elem = e /\ k.step = "done")
    BY <1>6, <2>1, JobSteps DEF Steps
  <2>3. NotDone'
    BY <1>3, <2>1, <2>2 DEF ResumeInv, NotDone, Ahead
  <2>4. tmp'[m] = "full" /\ \A n \in Msgs : tmp'[n] = tmp[n] \/ tmp'[n] = "full"
    BY <1>1, <1>6, <2>1
  <2>5. \A k \in jobs' : k.elem.msg \in Msgs
    BY <1>1, <2>2, IssuedApart DEF ResumeInv
  <2>6. Fetched'
    BY <2>1, <2>2, <2>4, <2>5 DEF ResumeInv, Fetched
  <2>7. Accounted'
    BY <1>1, <1>3, <2>1, <2>4 DEF ResumeInv, Accounted, Complete
  <2> QED BY <1>4, <1>5, <2>3, <2>6, <2>7 DEF ResumeInv
<1>9. CASE DownloadFails(j)
  <2>1. /\ To(j, "done") /\ j.step = "run" /\ UNCHANGED <<finished, tmp, final>>
        /\ spoiled' = spoiled \union {m}
    BY <1>9 DEF DownloadFails, disk
  <2>2. \A k \in jobs' : (k \in jobs /\ k # j) \/ (k.elem = e /\ k.step = "done")
    BY <1>6, <2>1, JobSteps DEF Steps
  <2>3. NotDone' /\ Fetched' /\ Accounted'
    BY <1>3, <2>1, <2>2 DEF ResumeInv, NotDone, Ahead, Fetched, Accounted, Complete
  <2> QED BY <1>4, <1>5, <2>3 DEF ResumeInv
<1>10. CASE DownloadCanceled(j)
  <2>1. /\ Gone(j) /\ j.step = "run" /\ UNCHANGED <<finished, spoiled, final>>
        /\ tmp' = [tmp EXCEPT ![m] = "none"]
    BY <1>10 DEF DownloadCanceled, mainVars, history
  <2>2. \A k \in jobs' : k \in jobs /\ k # j
    BY <2>1 DEF Gone
  <2>3. \A n \in Msgs : n # m => tmp'[n] = tmp[n]
    BY <1>6, <2>1
  <2>4. NotDone'
    BY <1>3, <2>1, <2>2 DEF ResumeInv, NotDone, Ahead
  <2>5. Fetched'
    BY <1>1, <2>1, <2>2, <2>3, IssuedApart DEF ResumeInv, Fetched
  <2>6. Ahead(e)
    BY <2>1 DEF ResumeInv, NotDone
  <2>7. Accounted'
    <3> SUFFICES ASSUME NEW f \in Slots, f.pos \in kv \union finished
                 PROVE  f.msg \in spoiled \/ Complete(f.msg)'
      BY <1>3, <2>1 DEF Accounted
    <3>1. f.msg \in spoiled \/ Complete(f.msg)
      BY DEF ResumeInv, Accounted
    <3>2. CASE f = e
      BY <2>6, <3>2 DEF Ahead
    <3>3. CASE f # e
      BY <1>1, <2>1, <2>3, <3>1, <3>3 DEF Complete
    <3> QED BY <3>2, <3>3
  <2> QED BY <1>4, <1>5, <2>4, <2>5, <2>7 DEF ResumeInv
\* The file is finished, then renamed.
<1>11. CASE Finish(j)
  <2>1. /\ To(j, "finish") /\ j.step = "done" /\ UNCHANGED <<spoiled, tmp, final>>
        /\ finished' = finished \union {e.pos}
    BY <1>11 DEF Finish, mainVars, disk, history
  <2>2. \A k \in jobs' : (k \in jobs /\ k # j) \/ (k.elem = e /\ k.step = "finish")
    BY <1>6, <2>1, JobSteps DEF Steps
  <2>3. NotDone'
    BY <1>1, <1>3, <2>1, <2>2 DEF ResumeInv, NotDone, Ahead
  <2>4. Fetched'
    BY <2>1, <2>2 DEF ResumeInv, Fetched
  <2>5. m \in spoiled \/ tmp[m] = "full"
    BY <2>1 DEF ResumeInv, Fetched
  <2>6. Accounted'
    BY <1>1, <1>3, <2>1, <2>5 DEF ResumeInv, Accounted, Complete
  <2> QED BY <1>4, <1>5, <2>3, <2>4, <2>6 DEF ResumeInv
<1>12. CASE Rename(j)
  <2>1. /\ Gone(j) /\ j.step = "finish" /\ UNCHANGED <<finished, spoiled>>
        /\ tmp' = [tmp EXCEPT ![m] = "none"] /\ final' = [final EXCEPT ![m] = tmp[m]]
    BY <1>12 DEF Rename, mainVars, history
  <2>2. \A k \in jobs' : k \in jobs /\ k # j
    BY <2>1 DEF Gone
  <2>3. /\ \A n \in Msgs : n # m => tmp'[n] = tmp[n] /\ final'[n] = final[n]
        /\ final'[m] = tmp[m]
    BY <1>1, <1>6, <2>1
  <2>4. NotDone'
    BY <1>3, <2>1, <2>2 DEF ResumeInv, NotDone, Ahead
  <2>5. Fetched'
    BY <1>1, <2>1, <2>2, <2>3, IssuedApart DEF ResumeInv, Fetched
  <2>6. m \in spoiled \/ tmp[m] = "full"
    BY <2>1 DEF ResumeInv, Fetched
  <2>7. Accounted'
    <3> SUFFICES ASSUME NEW f \in Slots, f.pos \in kv \union finished
                 PROVE  f.msg \in spoiled \/ Complete(f.msg)'
      BY <1>3, <2>1 DEF Accounted
    <3>1. f.msg \in spoiled \/ Complete(f.msg)
      BY DEF ResumeInv, Accounted
    <3> QED BY <1>1, <2>3, <2>6, <3>1 DEF Complete
  <2> QED BY <1>4, <1>5, <2>4, <2>5, <2>7 DEF ResumeInv
<1>13. CASE RenameFails(j)
  <2>1. Gone(j) /\ UNCHANGED <<finished, spoiled, tmp, final>>
    BY <1>13 DEF RenameFails, mainVars, disk, history
  <2>2. \A k \in jobs' : k \in jobs
    BY <2>1 DEF Gone
  <2>3. NotDone' /\ Fetched' /\ Accounted'
    BY <1>3, <2>1, <2>2 DEF ResumeInv, NotDone, Ahead, Fetched, Accounted, Complete
  <2> QED BY <1>4, <1>5, <2>3 DEF ResumeInv
<1> QED BY <1>7, <1>8, <1>9, <1>10, <1>11, <1>12, <1>13 DEF Job

\* An element that gets its job leaves the list.
LEMMA ValueResume ==
  ASSUME Steady, SteadyInv, ResumeInv, Value
  PROVE  ResumeInv'
<1> DEFINE e == Head(elems)
           k == [elem |-> e, step |-> "new"]
<1>1. elems \in Seq(Elems) /\ elems # <<>> /\ Once(elems)
  BY DEF Value, SteadyInv, PosInv, TypeInv, TypeOK, ResumeInv, OnceEach
<1>2. /\ e \in Waiting /\ Range(Tail(elems)) \subseteq Waiting
      /\ e \notin Range(Tail(elems)) /\ Once(Tail(elems))
  BY <1>1, HeadAndTail DEF Waiting
<1>3. /\ jobs' = jobs \union {k} /\ elems' = Tail(elems) /\ Waiting' = Range(Tail(elems))
      /\ UNCHANGED <<tmp, final, kv, finished, issued, spoiled>>
  BY DEF Value, Waiting, disk, history
<1>4. k.elem = e /\ k.step = "new"
  OBVIOUS
<1> HIDE DEF e, k
<1>5. OnceEach'
  BY <1>2, <1>3, <1>4 DEF ResumeInv, OnceEach
<1>6. NotDone'
  BY <1>2, <1>3, <1>4 DEF ResumeInv, NotDone, Ahead
<1>7. Fetched' /\ Accounted'
  BY <1>3, <1>4 DEF ResumeInv, Fetched, Accounted, Complete
<1> QED BY <1>5, <1>6, <1>7 DEF ResumeInv

\* Every step keeps the accounts, while the answers are full.
LEMMA NextResume ==
  ASSUME Steady, SteadyInv, ResumeInv, SkippedDone, [Next]_vars, short' = {}
  PROVE  ResumeInv' /\ SkippedDone'
<1>1. ASSUME elems' = <<>>, jobs' = {}, UNCHANGED <<tmp, final, spoiled>>, skipped' = {},
             kv' \union finished' \subseteq kv \union finished
      PROVE  ResumeInv' /\ SkippedDone'
  <2>1. Waiting' = {} /\ Once(elems)'
    BY <1>1 DEF Waiting, Range, Once
  <2> QED BY <1>1, <2>1 DEF ResumeInv, OnceEach, NotDone, Fetched, Accounted, Complete, SkippedDone
<1>2. ASSUME NEW g \in Groups, NEW md \in Modes, Start(g, md) PROVE ResumeInv' /\ SkippedDone'
  BY <1>1, <1>2 DEF Start, Resumed, disk
<1>3. ASSUME Over PROVE ResumeInv' /\ SkippedDone'
  BY <1>1, <1>3 DEF Over, disk
<1>4. ASSUME Process PROVE ResumeInv' /\ SkippedDone'
  <2>1. Iterating /\ UNCHANGED <<jobs, kv, finished, final>>
    BY <1>4 DEF Process
  <2>2. PICK A \in Answers :
          /\ Create(Fresh(A)) /\ short' = short \union (Stands \ A)
          /\ skipped' = skipped \union {e.msg : e \in {f \in Range(Numbered(A)) : ~NotYet(f)}}
    BY <1>4 DEF Process
  <2>3. A = Stands
    BY <2>2, FullAnswer
  <2>4. Fresh(A) \in Seq(Elems) /\ Once(Fresh(A))
    BY <2>1, FreshOnce DEF SteadyInv, PosInv
  <2>5. ResumeInv'
    <3> HIDE DEF Fresh
    <3> QED BY <2>1, <2>2, <2>3, <2>4, CreateResume
  <2>6. SkippedDone'
    <3>1. Range(Numbered(A)) \subseteq Slots
      BY <2>1, <2>3, HereIs DEF SteadyInv, PosInv
    <3>2. skipped' = skipped \union {e.msg : e \in {f \in Range(Numbered(A)) : f.pos \in finished}}
      BY <2>2 DEF NotYet
    <3> HIDE DEF Numbered
    <3> QED BY <2>1, <3>1, <3>2 DEF SkippedDone
  <2> QED BY <2>5, <2>6
<1>5. ASSUME ProcessFails PROVE ResumeInv' /\ SkippedDone'
  <2>1. Iterating /\ UNCHANGED <<jobs, kv, finished, final, skipped>>
    BY <1>5 DEF ProcessFails
  <2>2. PICK A \in Answers : \E k \in 0..Len(Fresh(A)) :
          Create(SubSeq(Fresh(A), 1, k)) /\ short' = short \union (Stands \ A)
    BY <1>5, FailsWith DEF SteadyInv, PosInv
  <2>3. PICK k \in 0..Len(Fresh(A)) :
          Create(SubSeq(Fresh(A), 1, k)) /\ short' = short \union (Stands \ A)
    BY <2>2
  <2>4. A = Stands
    BY <2>3, FullAnswer
  <2>5. /\ SubSeq(Fresh(A), 1, k) \in Seq(Elems) /\ Once(SubSeq(Fresh(A), 1, k))
        /\ Fresh(A) \in Seq(Elems)
    BY <2>1, FreshOnce DEF SteadyInv, PosInv
  <2>6. Range(SubSeq(Fresh(A), 1, k)) \subseteq Range(Fresh(A))
    BY <2>5, PrefixRange
  <2>7. ResumeInv'
    <3> HIDE DEF Fresh
    <3> QED BY <2>1, <2>3, <2>4, <2>5, <2>6, CreateResume
  <2>8. SkippedDone'
    BY <2>1 DEF SkippedDone
  <2> QED BY <2>7, <2>8
<1>6. ASSUME Value PROVE ResumeInv' /\ SkippedDone'
  BY <1>6, ValueResume DEF Value, history, SkippedDone
<1>7. ASSUME SaveProgress PROVE ResumeInv' /\ SkippedDone'
  <2>1. /\ kv' \subseteq finished
        /\ UNCHANGED <<tmp, final, finished, elems, jobs, issued, skipped, spoiled, Waiting>>
    BY <1>7 DEF SaveProgress, Saved, disk, Waiting
  <2> QED BY <2>1 DEF ResumeInv, OnceEach, Once, NotDone, Ahead, Fetched, Accounted, Complete,
                      SkippedDone
<1>8. ASSUME UNCHANGED <<tmp, final, kv, finished, elems, jobs, issued, skipped, spoiled>>
      PROVE  ResumeInv' /\ SkippedDone'
  <2>1. Waiting' = Waiting
    BY <1>8 DEF Waiting
  <2> QED BY <1>8, <2>1 DEF ResumeInv, OnceEach, Once, NotDone, Ahead, Fetched, Accounted,
                            Complete, SkippedDone
<1>9. ASSUME Main
      PROVE  \/ SkipDeleted \/ Process \/ ProcessFails \/ Value \/ SaveProgress \/ Over
             \/ UNCHANGED <<tmp, final, kv, finished, elems, jobs, issued, skipped, spoiled>>
  BY <1>9 DEF Main, NextCanceled, NextBuffered, NextEnds, NextPanics, DownloadReturns, ProgressWait,
              Exit, disk, history
<1>10. ASSUME Environment
      PROVE  \/ Over
             \/ UNCHANGED <<tmp, final, kv, finished, elems, jobs, issued, skipped, spoiled>>
  BY <1>10 DEF Environment, Kill, Cancel, DeleteMessage, disk, history
<1>11. ASSUME UNCHANGED vars
       PROVE  UNCHANGED <<tmp, final, kv, finished, elems, jobs, issued, skipped, spoiled>>
  BY <1>11 DEF vars, disk, history
<1>12. ASSUME NEW j \in jobs, Job(j) PROVE ResumeInv' /\ SkippedDone'
  BY <1>12, JobResume
<1>13. ASSUME SkipDeleted PROVE ResumeInv' /\ SkippedDone'
  <2>1. /\ Iterating /\ Current \notin alive /\ (HistoryEmpty(Current) => lpos \in finished)
        /\ skipped' = skipped \union (IF HistoryEmpty(Current) THEN {Current} ELSE {})
        /\ UNCHANGED <<tmp, final, kv, finished, elems, jobs, issued, spoiled, Waiting>>
    BY <1>13 DEF SkipDeleted, disk, Waiting
  <2>2. ResumeInv'
    BY <2>1 DEF ResumeInv, OnceEach, Once, NotDone, Ahead, Fetched, Accounted, Complete
  <2>3. \E e \in Slots : e.msg = Current /\ e.pos = lpos
    BY <2>1, HereHasSlot DEF SteadyInv, PosInv
  <2> QED BY <2>1, <2>2, <2>3 DEF SkippedDone
<1> QED
  BY <1>2, <1>3, <1>4, <1>5, <1>6, <1>7, <1>8, <1>9, <1>10, <1>11, <1>12, <1>13 DEF Next

\* What is finished was downloaded, and with it what is passed over.
LEMMA SkippedAreComplete ==
  ASSUME ResumeInv, SkippedDone PROVE \A m \in skipped \ spoiled : Complete(m)
BY DEF ResumeInv, Accounted, SkippedDone

\* While the answers for albums are full, the accounts hold.
Told == short = {} => Placed /\ ResumeInv /\ SkippedDone

\* What was short is forgotten only when a run begins without progress.
LEMMA ShortIsForgotten ==
  ASSUME [Next]_vars, short' = {}, short # {}
  PROVE  \E g \in Groups, md \in Modes :
           Start(g, md) /\ kv' = {} /\ finished' = {}
<1>1. ASSUME NEW g \in Groups, NEW md \in Modes, Start(g, md) PROVE kv' = {} /\ finished' = {}
  BY <1>1 DEF Start, Resumed
<1>2. ASSUME Main PROVE short \subseteq short'
  BY <1>2 DEF Main, NextCanceled, NextBuffered, NextEnds, SkipDeleted, NextPanics, Process,
              ProcessFails, Value, DownloadReturns, ProgressWait, SaveProgress, Exit, Over,
              history
<1>3. ASSUME Environment PROVE short' = short
  BY <1>3 DEF Environment, Kill, Over, Cancel, DeleteMessage, history
<1>4. ASSUME NEW j \in jobs, Job(j) PROVE short' = short
  BY <1>4 DEF Job, OnAdd, Downloaded, DownloadFails, DownloadCanceled, Finish, Rename,
              RenameFails, mainVars, history
<1>5. ASSUME UNCHANGED vars PROVE short' = short
  BY <1>5 DEF vars, history
<1> QED BY <1>1, <1>2, <1>3, <1>4, <1>5 DEF Next

\* A run that begins without progress owes nothing.
LEMMA StartResume ==
  ASSUME NEW g \in Groups, NEW md \in Modes, Start(g, md), kv' = {}, finished' = {}
  PROVE  ResumeInv' /\ SkippedDone'
<1>1. elems' = <<>> /\ jobs' = {} /\ skipped' = {}
  BY DEF Start
<1>2. Waiting' = {} /\ Once(elems)'
  BY <1>1 DEF Waiting, Range, Once
<1> QED BY <1>1, <1>2 DEF ResumeInv, OnceEach, NotDone, Fetched, Accounted, SkippedDone

\* The accounts are kept, or begun anew.
LEMMA NextTold ==
  ASSUME Steady, PosInv, Kept, Told, [Next]_vars
  PROVE  Told'
<1> SUFFICES ASSUME short' = {} PROVE Placed' /\ ResumeInv' /\ SkippedDone'
  BY DEF Told
<1>1. CASE short = {}
  BY <1>1, NextPlaced, NextResume DEF Told, SteadyInv, PosInv
<1>2. CASE short # {}
  <2>1. PICK g \in Groups, md \in Modes : Start(g, md) /\ kv' = {} /\ finished' = {}
    BY <1>2, ShortIsForgotten
  <2> QED BY <2>1, StartPlaced, StartResume
<1> QED BY <1>1, <1>2

\* In a steady setting no run passes over a message that has not been downloaded, as long
\* as no answer for an album has been short since there was last no progress.
THEOREM ResumeIsExact ==
  ASSUME Steady PROVE Spec => []ResumeSkipsOnlyDownloaded
<1> DEFINE I == PosInv /\ Kept /\ Told
<1>1. Init => I
  BY InitTypes, InitPositions, InitPlaced, InitResume DEF Told, PosInv
<1>2. I /\ [Next]_vars => I'
  BY NextTypes, NextPositions, NextKeepsMessages, NextTold DEF PosInv
<1>3. I => ResumeSkipsOnlyDownloaded
  BY SkippedAreComplete DEF Told, ResumeSkipsOnlyDownloaded
<1>. QED
  BY <1>1, <1>2, <1>3, PTL DEF Spec

-----------------------------------------------------------------------------
(* What the end of a run says of the messages.                             *)

\* A message the iterator has come by is not to be had, or is an element, or was finished.
Handled(m) ==
  \/ m \notin alive \/ m \notin Files
  \/ \E e \in Slots : e.msg = m /\ (e.pos \in finished \/ e \in issued)

Passed(d, i) == d < di \/ (d = di /\ i < mi)

Covered ==
  phase # "off" /\ ~ierr =>
    \A d \in DOMAIN Dialogs : \A i \in DOMAIN Dialogs[d] :
      Passed(d, i) => \A m \in Covers(Dialogs[d][i]) : Handled(m)

\* Unless a job has failed, an element is waiting, in a job, or finished.
IssuedWhere ==
  phase # "off" /\ ~gerr =>
    \A e \in issued : \/ e \in Waiting \/ e.pos \in finished
                      \/ \E j \in jobs : j.elem = e

FinishIsMarked == \A j \in jobs : j.step = "finish" => j.elem.pos \in finished

\* How far the main goroutine has come.
Ended == {"ended", "progwait", "save", "exit"}
Stopped ==
  /\ phase \in Ended /\ ~ierr /\ ~panicked => AtEnd /\ elems = <<>>
  /\ phase \in Ended \ {"ended"} /\ ~ierr /\ ~panicked => jobs = {}
  /\ di \in DOMAIN Dialogs => mi = 1 \/ mi =< Len(Dialogs[di])
  /\ phase = "off" => jobs = {} /\ elems = <<>>
  /\ cleared => phase \in {"off", "exit"} /\ (panicked \/ jobs = {})

EndInv == IssuedWhere /\ FinishIsMarked /\ Stopped

\* While the answers for albums are full.
PassedAll == short = {} => Covered

\* At the start there is no key that could be removed.
LEMMA InitEnd == Init => EndInv /\ PassedAll /\ ClearedMeansDone
<1> SUFFICES ASSUME Init PROVE EndInv /\ PassedAll /\ ClearedMeansDone
  OBVIOUS
<1>1. phase = "off" /\ jobs = {} /\ elems = <<>> /\ mi = 1 /\ cleared = FALSE
  BY DEF Init
<1> QED BY <1>1 DEF EndInv, PassedAll, Covered, IssuedWhere, FinishIsMarked, Stopped, Ended,
                    ClearedMeansDone

\* What was handled stays handled while the run goes on.
LEMMA HandledStays ==
  ASSUME alive' \subseteq alive, finished \subseteq finished', issued \subseteq issued',
         NEW m, Handled(m)
  PROVE  Handled(m)'
BY DEF Handled

\* What is covered stays so while the iterator stands.
LEMMA CoveredStays ==
  ASSUME Covered, phase' # "off" => phase # "off", ierr \/ ierr' = ierr,
         ierr => ierr', UNCHANGED <<di, mi>>,
         alive' \subseteq alive, finished \subseteq finished', issued \subseteq issued'
  PROVE  Covered'
<1> SUFFICES ASSUME phase' # "off", ~ierr', NEW d \in DOMAIN Dialogs,
                    NEW i \in DOMAIN Dialogs[d], Passed(d, i)', NEW m \in Covers(Dialogs[d][i])
             PROVE  Handled(m)'
  BY DEF Covered
<1>1. Passed(d, i)
  BY DEF Passed
<1>2. Handled(m)
  BY <1>1 DEF Covered
<1> QED BY <1>2, HandledStays

\* Stepping on passes the message at hand and no other.
LEMMA StepCovers ==
  ASSUME TypeInv, Covered, Iterating, StepOn, ~ierr, UNCHANGED alive,
         finished \subseteq finished', issued \subseteq issued',
         \A m \in Covers(Current) : Handled(m)'
  PROVE  Covered'
<1> SUFFICES ASSUME NEW d \in DOMAIN Dialogs, NEW i \in DOMAIN Dialogs[d], Passed(d, i)',
                    NEW m \in Covers(Dialogs[d][i])
             PROVE  Handled(m)'
  BY DEF Covered
<1>1. /\ di \in 1..Len(Dialogs) /\ mi \in 1..Len(Dialogs[di]) /\ Len(Dialogs) \in Nat
      /\ Len(Dialogs[di]) \in Nat /\ Dialogs \in Seq(Seq(Msgs)) /\ Dialogs[di] \in Seq(Msgs)
  BY CurrentIs, DownloadAssumption
<1>2. Passed(d, i) \/ (d = di /\ i = mi)
  <2> DEFINE n == Len(Dialogs[di])
  <2>1. DOMAIN Dialogs = 1..Len(Dialogs) /\ DOMAIN Dialogs[di] = 1..n
    BY <1>1
  <2>2. d \in Nat /\ di \in Nat /\ mi \in 1..n /\ n \in Nat
    BY <1>1, <2>1
  <2>3. i \in Nat \ {0} /\ (d = di => i =< n)
    <3>1. Dialogs[d] \in Seq(Msgs)
      BY <1>1
    <3>2. i \in 1..Len(Dialogs[d]) /\ Len(Dialogs[d]) \in Nat
      BY <3>1
    <3> QED BY <3>2
  <2>4. d < di' \/ (d = di' /\ i < mi')
    BY DEF Passed
  <2>5. (di' = di /\ mi' = mi + 1) \/ (mi >= n /\ di' = di + 1 /\ mi' = 1)
    BY <2>2 DEF StepOn
  <2> HIDE DEF n
  <2>6. d < di \/ (d = di /\ i =< mi)
    BY <2>2, <2>3, <2>4, <2>5
  <2> QED BY <2>2, <2>3, <2>6 DEF Passed
<1>3. CASE Passed(d, i)
  <2>1. Handled(m)
    BY <1>3 DEF Covered, Iterating
  <2> QED BY <2>1, HandledStays
<1>4. CASE d = di /\ i = mi
  BY <1>4 DEF Current
<1> QED BY <1>2, <1>3, <1>4

\* A message that is passed over has been deleted.
LEMMA SkipCovers ==
  ASSUME Steady, SteadyInv, Covered, SkipDeleted \/ NextPanics
  PROVE  Covered'
<1>1. /\ Iterating /\ Current \notin alive /\ StepOn
      /\ UNCHANGED <<alive, finished, issued, ierr>>
  BY DEF SkipDeleted, NextPanics, history
<1>2. \A m \in Covers(Current) : m = Current
  BY <1>1, HereIs DEF SteadyInv, PosInv
<1>3. \A m \in Covers(Current) : Handled(m)'
  BY <1>1, <1>2 DEF Handled
<1>4. CASE ierr
  BY <1>1, <1>4 DEF Covered
<1>5. CASE ~ierr
  BY <1>1, <1>3, <1>5, StepCovers DEF SteadyInv, PosInv
<1> QED BY <1>4, <1>5

\* A message that is processed is finished, or its elements are made, when the answer for
\* it is full.
LEMMA ProcessCovers ==
  ASSUME Steady, SteadyInv, Covered, Process, short' = {}
  PROVE  Covered'
<1>1. Iterating /\ StepOn /\ UNCHANGED <<alive, finished, ierr>>
  BY DEF Process
<1>2. PICK A \in Answers : Create(Fresh(A)) /\ short' = short \union (Stands \ A)
  BY DEF Process
<1>3. A = Stands
  BY <1>2, FullAnswer
<1>4. issued' = issued \union Range(Fresh(A))
  BY <1>2 DEF Create
<1>5. ASSUME NEW m \in Covers(Current) PROVE Handled(m)'
  <2> DEFINE N == Numbered(A)
             F == Fresh(A)
  <2>1. Current \in Msgs /\ alive \subseteq Msgs /\ lpos \in Nat
    BY <1>1, CurrentIs DEF SteadyInv, PosInv, TypeInv, TypeOK
  <2>2. Members(A) = CoverSeq(Current) /\ Range(N) \subseteq Slots
    BY <1>1, <1>3, HereIs DEF SteadyInv, PosInv
  <2>3. PICK k \in 1..Len(Members(A)) : Members(A)[k] = m
    BY <2>1, <2>2, CoverSeqIs
  <2>4. k \in DOMAIN N /\ N[k].msg = m
    BY <2>1, <2>3, NumberedIs
  <2>5. Wanted(N[k]) => \E l \in DOMAIN F : F[l] = N[k]
    BY <2>1, <2>4, FreshIs
  <2> HIDE DEF N, F
  <2>6. N[k] \in Slots
    BY <2>2, <2>4 DEF Range
  <2>7. CASE Wanted(N[k])
    <3>1. N[k] \in Range(F)
      BY <2>5, <2>7 DEF Range
    <3>2. N[k] \in issued'
      BY <1>4, <3>1 DEF F
    <3> QED BY <2>4, <2>6, <3>2 DEF Handled
  <2>8. CASE ~Wanted(N[k])
    <3>1. N[k].pos \in finished \/ m \notin Files
      BY <2>4, <2>8 DEF Wanted, NotYet
    <3> QED BY <1>1, <2>4, <2>6, <3>1 DEF Handled
  <2> QED BY <2>7, <2>8
<1>6. CASE ierr
  BY <1>1, <1>6 DEF Covered
<1>7. CASE ~ierr
  <2> HIDE DEF Fresh
  <2> QED BY <1>1, <1>4, <1>5, <1>7, StepCovers DEF SteadyInv, PosInv
<1> QED BY <1>6, <1>7

\* At the first message nothing is passed.
LEMMA StartCovered ==
  ASSUME NEW g \in Groups, NEW md \in Modes, Start(g, md)
  PROVE  Covered'
<1>1. di' = 1 /\ mi' = 1
  BY DEF Start
<1>2. \A d \in DOMAIN Dialogs : \A i \in DOMAIN Dialogs[d] : ~Passed(d, i)'
  <2> SUFFICES ASSUME NEW d \in DOMAIN Dialogs, NEW i \in DOMAIN Dialogs[d]
               PROVE  ~Passed(d, i)'
    OBVIOUS
  <2>1. d \in Nat \ {0} /\ i \in Nat \ {0}
    BY DownloadAssumption
  <2> QED BY <1>1, <2>1 DEF Passed
<1> QED BY <1>2 DEF Covered

\* Every step leaves nothing behind the iterator uncovered, while the answers are full.
LEMMA NextCovered ==
  ASSUME Steady, SteadyInv, Covered, [Next]_vars, short' = {}
  PROVE  Covered'
<1>1. ASSUME NEW g \in Groups, NEW md \in Modes, Start(g, md) PROVE Covered'
  BY <1>1, StartCovered
<1>2. ASSUME Over \/ ierr' PROVE Covered'
  BY <1>2 DEF Over, Covered
<1>3. ASSUME Main
      PROVE  \/ SkipDeleted \/ NextPanics \/ Process \/ Over \/ ierr'
             \/ /\ UNCHANGED <<di, mi, alive, finished, issued, ierr>>
                /\ phase # "off"
  BY <1>3 DEF Main, NextCanceled, NextBuffered, NextEnds, ProcessFails, Value, DownloadReturns,
              ProgressWait, SaveProgress, Exit, position, history
<1>4. ASSUME Environment
      PROVE  \/ Over
             \/ UNCHANGED <<di, mi, phase, finished, issued, ierr>> /\ alive' \subseteq alive
  BY <1>4 DEF Environment, Kill, Cancel, DeleteMessage, position, history
<1>5. ASSUME NEW j \in jobs, Job(j)
      PROVE  UNCHANGED <<di, mi, phase, alive, issued, ierr>> /\ finished \subseteq finished'
  BY <1>5 DEF Job, OnAdd, Downloaded, DownloadFails, DownloadCanceled, Finish, Rename,
              RenameFails, mainVars, position, history
<1>6. ASSUME UNCHANGED vars PROVE UNCHANGED <<di, mi, phase, alive, finished, issued, ierr>>
  BY <1>6 DEF vars, position, history
<1>7. ASSUME phase # "off" \/ phase' = phase, UNCHANGED <<di, mi, ierr>>, alive' \subseteq alive,
             finished \subseteq finished', issued \subseteq issued'
      PROVE  Covered'
  BY <1>7, CoveredStays
<1>8. ASSUME Main PROVE Covered'
  <2>1. CASE /\ UNCHANGED <<di, mi, alive, finished, issued, ierr>>
             /\ phase # "off"
    BY <1>7, <2>1
  <2> QED BY <1>2, <1>3, <1>8, <2>1, SkipCovers, ProcessCovers
<1>9. ASSUME Environment PROVE Covered'
  <2>1. CASE UNCHANGED <<di, mi, phase, finished, issued, ierr>> /\ alive' \subseteq alive
    BY <1>7, <2>1
  <2> QED BY <1>2, <1>4, <1>9, <2>1
<1>10. ASSUME NEW j \in jobs, Job(j) PROVE Covered'
  BY <1>5, <1>7, <1>10
<1>11. ASSUME UNCHANGED vars PROVE Covered'
  BY <1>6, <1>7, <1>11
<1> QED
  BY <1>1, <1>8, <1>9, <1>10, <1>11 DEF Next

\* After the iteration without an error, no job is left.
LEMMA NextStopped ==
  ASSUME TypeInv, Stopped, [Next]_vars
  PROVE  Stopped'
<1> USE DEF Ended
<1>1. ASSUME NEW g \in Groups, NEW md \in Modes, Start(g, md) PROVE Stopped'
  BY <1>1 DEF Start, Stopped
<1>2. ASSUME Over PROVE Stopped'
  BY <1>2 DEF Over, Stopped
<1>3. ASSUME NextEnds PROVE Stopped'
  BY <1>3 DEF NextEnds, Stopped, AtEnd, position, history, runVars
<1>4. ASSUME SkipDeleted \/ NextPanics \/ Process \/ ProcessFails PROVE Stopped'
  <2>1. /\ Iterating /\ StepOn /\ UNCHANGED <<jobs, cleared>>
        /\ \/ phase' \in {"next", "value"} \/ (phase' = "ended" /\ ierr')
           \/ phase' = "progwait" /\ panicked'
    BY <1>4 DEF SkipDeleted, NextPanics, Process, ProcessFails, history, Iterating
  <2>2. di' \in DOMAIN Dialogs => mi' = 1 \/ mi' =< Len(Dialogs[di'])
    <3>1. mi \in Nat /\ Len(Dialogs[di]) \in Nat
      BY <2>1, CurrentIs
    <3> QED BY <2>1, <3>1 DEF StepOn
  <2>3. ~cleared
    BY <2>1 DEF Stopped, Iterating
  <2> QED BY <2>1, <2>2, <2>3 DEF Stopped
<1>5. ASSUME Value PROVE Stopped'
  BY <1>5 DEF Value, Stopped, position, history, runVars
<1>6. ASSUME DownloadReturns PROVE Stopped'
  BY <1>6 DEF DownloadReturns, WaitsForJobs, Stopped, AtEnd, position, history, runVars
<1>7. ASSUME SaveProgress PROVE Stopped'
  BY <1>7 DEF SaveProgress, Interrupted, Stopped, AtEnd, position, runVars
<1>8. ASSUME NextCanceled \/ NextBuffered \/ ProgressWait PROVE Stopped'
  BY <1>8 DEF NextCanceled, NextBuffered, ProgressWait, Stopped, AtEnd, position, history, runVars
<1>9. ASSUME NEW j \in jobs, Job(j) PROVE Stopped'
  <2>1. UNCHANGED <<phase, ierr, elems, di, mi, cleared, panicked>>
    BY <1>9 DEF Job, OnAdd, Downloaded, DownloadFails, DownloadCanceled, Finish, Rename,
                RenameFails, mainVars, position, history, runVars
  <2> QED BY <1>9, <2>1 DEF Stopped, AtEnd
<1>10. ASSUME UNCHANGED <<phase, ierr, elems, di, mi, cleared, panicked, jobs>> PROVE Stopped'
  BY <1>10 DEF Stopped, AtEnd
<1>11. ASSUME UNCHANGED vars \/ Cancel \/ \E m \in Deletable : DeleteMessage(m)
       PROVE  UNCHANGED <<phase, ierr, elems, di, mi, cleared, panicked, jobs>>
  BY <1>11 DEF vars, Cancel, DeleteMessage, position, history, runVars
<1> QED
  BY <1>1, <1>2, <1>3, <1>4, <1>5, <1>6, <1>7, <1>8, <1>9, <1>10, <1>11
     DEF Next, Main, Environment, Exit, Kill

\* A job that has come to the rename has finished its position.
LEMMA NextFinishIsMarked ==
  ASSUME TypeInv, FinishIsMarked, [Next]_vars
  PROVE  FinishIsMarked'
<1>1. ASSUME UNCHANGED jobs, finished \subseteq finished' PROVE FinishIsMarked'
  BY <1>1 DEF FinishIsMarked
<1>2. ASSUME jobs' = {} PROVE FinishIsMarked'
  BY <1>2 DEF FinishIsMarked
<1>3. ASSUME Value PROVE FinishIsMarked'
  BY <1>3 DEF Value, FinishIsMarked
<1>4. ASSUME NEW j \in jobs, Job(j) PROVE FinishIsMarked'
  <2>1. CASE Finish(j)
    <3>1. To(j, "finish") /\ finished' = finished \union {j.elem.pos}
      BY <2>1 DEF Finish
    <3>2. \A k \in jobs' : (k \in jobs /\ k # j) \/ (k.elem = j.elem /\ k.step = "finish")
      BY <3>1, JobSteps DEF Steps
    <3> QED BY <3>1, <3>2 DEF FinishIsMarked
  <2>2. CASE ~Finish(j)
    <3>1. PICK s \in Steps \ {"finish"} : To(j, s) \/ Gone(j)
      BY <1>4, <2>2 DEF Job, OnAdd, Downloaded, DownloadFails, DownloadCanceled, Rename,
                        RenameFails, Steps
    <3>2. finished' = finished
      BY <1>4, <2>2 DEF Job, OnAdd, Downloaded, DownloadFails, DownloadCanceled, Rename,
                        RenameFails
    <3>3. \A k \in jobs' : k \in jobs \/ k.step # "finish"
      BY <3>1, JobSteps
    <3> QED BY <3>2, <3>3 DEF FinishIsMarked
  <2> QED BY <2>1, <2>2
<1>5. ASSUME NEW g \in Groups, NEW md \in Modes, Start(g, md) PROVE jobs' = {}
  BY <1>5 DEF Start
<1>6. ASSUME Main \/ Environment \/ UNCHANGED vars
      PROVE  Value \/ jobs' = {} \/ UNCHANGED <<jobs, finished>>
  BY <1>6 DEF Main, Environment, vars, NextCanceled, NextBuffered, NextEnds, SkipDeleted,
              NextPanics, Process, ProcessFails, DownloadReturns, ProgressWait, SaveProgress,
              Exit, Kill, Over, Cancel, DeleteMessage
<1> QED BY <1>1, <1>2, <1>3, <1>4, <1>5, <1>6 DEF Next

\* An element that was made waits, has a job, or is done with.
LEMMA NextIssuedWhere ==
  ASSUME TypeInv, IssuedWhere, FinishIsMarked, [Next]_vars
  PROVE  IssuedWhere'
<1>1. ASSUME NEW g \in Groups, NEW md \in Modes, Start(g, md) PROVE IssuedWhere'
  BY <1>1 DEF Start, IssuedWhere
<1>2. ASSUME Over PROVE IssuedWhere'
  BY <1>2 DEF Over, IssuedWhere
<1>3. ASSUME NEW new, Create(new), Iterating, UNCHANGED <<finished, jobs, gerr>>
      PROVE  IssuedWhere'
  <2>1. /\ issued' = issued \union Range(new) /\ Waiting' = Range(new) /\ Waiting = {}
        /\ phase # "off"
    BY <1>3 DEF Create, Iterating, Waiting, Range
  <2> QED BY <1>3, <2>1 DEF IssuedWhere
<1>4. ASSUME Process \/ ProcessFails PROVE IssuedWhere'
  <2>1. Iterating /\ UNCHANGED <<finished, jobs, gerr>>
    BY <1>4 DEF Process, ProcessFails
  <2>2. \E new : Create(new)
    <3> HIDE DEF Create
    <3> QED BY <1>4 DEF Process, ProcessFails
  <2> QED BY <1>3, <2>1, <2>2
<1>5. ASSUME Value PROVE IssuedWhere'
  <2> DEFINE k == [elem |-> Head(elems), step |-> "new"]
  <2>1. elems \in Seq(Elems) /\ elems # <<>>
    BY <1>5 DEF Value, TypeInv, TypeOK
  <2>2. \A e \in Waiting : e = Head(elems) \/ e \in Range(Tail(elems))
    <3>1. /\ Len(elems) \in Nat \ {0} /\ DOMAIN elems = 1..Len(elems) /\ Head(elems) = elems[1]
          /\ DOMAIN Tail(elems) = 1..Len(elems) - 1
          /\ \A i \in DOMAIN Tail(elems) : Tail(elems)[i] = elems[i + 1]
      BY <2>1
    <3> SUFFICES ASSUME NEW i \in DOMAIN elems, i # 1 PROVE elems[i] \in Range(Tail(elems))
      BY <3>1 DEF Waiting, Range
    <3>2. i - 1 \in DOMAIN Tail(elems) /\ Tail(elems)[i - 1] = elems[i]
      BY <3>1
    <3> QED BY <3>2 DEF Range
  <2>3. /\ Waiting' = Range(Tail(elems)) /\ jobs' = jobs \union {k} /\ phase # "off"
        /\ UNCHANGED <<issued, finished, gerr>>
    BY <1>5 DEF Value, Waiting, history
  <2>4. k \in jobs' /\ k.elem = Head(elems)
    BY <2>3
  <2> HIDE DEF k
  <2> QED BY <2>2, <2>3, <2>4 DEF IssuedWhere
<1>6. ASSUME NEW j \in jobs, Job(j) PROVE IssuedWhere'
  <2>1. /\ UNCHANGED <<issued, phase, Waiting>> /\ finished \subseteq finished'
        /\ gerr => gerr'
    BY <1>6 DEF Job, OnAdd, Downloaded, DownloadFails, DownloadCanceled, Finish, Rename,
                RenameFails, mainVars, history, Waiting
  <2>2. CASE \E s \in Steps : To(j, s)
    <3>1. PICK s \in Steps : To(j, s)
      BY <2>2
    <3>2. j \in [elem : Elems, step : Steps]
      BY DEF TypeInv, TypeOK
    <3>3. [j EXCEPT !.step = s].elem = j.elem
      BY <3>2
    <3>4. \A i \in jobs : \E k \in jobs' : k.elem = i.elem
      BY <3>1, <3>3 DEF To
    <3> QED BY <2>1, <3>4 DEF IssuedWhere
  <2>3. CASE DownloadCanceled(j)
    BY <2>3 DEF DownloadCanceled, IssuedWhere
  <2>4. CASE Rename(j) \/ RenameFails(j)
    <3>1. j.elem.pos \in finished /\ jobs' = jobs \ {j}
      BY <2>4 DEF Rename, RenameFails, Gone, FinishIsMarked
    <3> QED BY <2>1, <3>1 DEF IssuedWhere
  <2>5. \/ \E s \in Steps : To(j, s)
        \/ DownloadCanceled(j) \/ Rename(j) \/ RenameFails(j)
    BY <1>6 DEF Job, OnAdd, Downloaded, DownloadFails, Finish, Steps
  <2> QED BY <2>2, <2>3, <2>4, <2>5
<1>7. ASSUME UNCHANGED <<issued, elems, jobs, finished, gerr>>, phase # "off" \/ phase' = phase
      PROVE  IssuedWhere'
  BY <1>7 DEF IssuedWhere, Waiting
<1>8. ASSUME Main \/ Environment \/ UNCHANGED vars
      PROVE  \/ Process \/ ProcessFails \/ Value \/ Over
             \/ /\ UNCHANGED <<issued, elems, jobs, finished, gerr>>
                /\ phase # "off" \/ phase' = phase
  BY <1>8 DEF Main, Environment, vars, NextCanceled, NextBuffered, NextEnds, SkipDeleted,
              NextPanics, DownloadReturns, ProgressWait, SaveProgress, Exit, Kill, Cancel,
              DeleteMessage, Iterating, history
<1> QED BY <1>1, <1>2, <1>4, <1>5, <1>6, <1>7, <1>8 DEF Next

\* When the key is cleared, all the messages that were reached have been passed.
LEMMA ClearedIsDone ==
  ASSUME Steady, SteadyInv, ResumeInv, Covered, EndInv, SaveProgress, ~Interrupted, ~panicked
  PROVE  ClearedMeansDone'
<1>1. /\ phase = "save" /\ UNCHANGED <<alive, tmp, final, group, spoiled>>
      /\ ~ierr /\ ~gerr
  BY DEF SaveProgress, Interrupted, disk, runVars
<1>2. jobs = {} /\ Waiting = {} /\ AtEnd /\ (di \in DOMAIN Dialogs => mi = 1 \/ mi =< Len(Dialogs[di]))
  BY <1>1 DEF EndInv, Stopped, Ended, Waiting, Range
<1>3. \A e \in issued : e.pos \in finished
  BY <1>1, <1>2 DEF EndInv, IssuedWhere
<1>4. ASSUME NEW m \in WithAlbums(Reached)
      PROVE  \E d \in DOMAIN Dialogs : \E i \in DOMAIN Dialogs[d] :
               Passed(d, i) /\ m \in Covers(Dialogs[d][i])
  <2>1. PICK n \in Reached : m = n \/ (group /\ m \in AlbumOf(n))
    BY DEF WithAlbums
  <2>2. PICK d \in DOMAIN Dialogs : n \in Range(Dialogs[d]) /\ \A f \in 1..d : Dialogs[f] # <<>>
    BY <2>1 DEF Reached
  <2>3. PICK i \in DOMAIN Dialogs[d] : Dialogs[d][i] = n
    BY <2>2 DEF Range
  <2>4. d < di
    <3>1. /\ di \in Nat \ {0} /\ mi \in Nat /\ d \in Nat /\ DOMAIN Dialogs = 1..Len(Dialogs)
          /\ Len(Dialogs) \in Nat
      BY DownloadAssumption DEF SteadyInv, PosInv, TypeInv, TypeOK
    <3> SUFFICES ASSUME di =< d PROVE FALSE
      BY <3>1
    <3>2. di \in DOMAIN Dialogs /\ di \in 1..d
      BY <3>1
    <3>3. Dialogs[di] # <<>> /\ Dialogs[di] \in Seq(Msgs)
      BY <2>2, <3>2, DownloadAssumption
    <3>4. Len(Dialogs[di]) \in Nat \ {0}
      BY <3>3
    <3>5. mi > Len(Dialogs[di])
      BY <1>2, <3>2 DEF AtEnd
    <3> QED BY <1>2, <3>1, <3>2, <3>4, <3>5
  <2>5. m \in Covers(n)
    <3>1. group <=> WithG
      BY <1>1 DEF SteadyInv, Placed
    <3>2. CASE m = n
      BY <3>2, AlbumIs DEF Covers
    <3>3. CASE group /\ m \in AlbumOf(n)
      BY <3>1, <3>3 DEF Covers
    <3> QED BY <2>1, <3>2, <3>3
  <2> QED BY <2>3, <2>4, <2>5 DEF Passed
<1>5. ASSUME NEW m \in (WithAlbums(Reached) \cap alive \cap Files) \ spoiled PROVE Complete(m)
  <2>1. Handled(m)
    BY <1>1, <1>4 DEF Covered
  <2>2. PICK e \in Slots : e.msg = m /\ (e.pos \in finished \/ e \in issued)
    BY <2>1 DEF Handled
  <2>3. e.pos \in finished
    BY <1>3, <2>2
  <2> QED BY <2>2, <2>3 DEF ResumeInv, Accounted
<1>6. \A m \in (WithAlbums(Reached) \cap alive \cap Files) \ spoiled : Complete(m)'
  BY <1>1, <1>5 DEF Complete
<1>7. WithAlbums(Reached)' = WithAlbums(Reached)
  BY <1>1 DEF WithAlbums
<1> QED BY <1>1, <1>6, <1>7 DEF ClearedMeansDone

\* Once the key is cleared nothing is downloaded any more, until the next run.
LEMMA NextCleared ==
  ASSUME Steady, PosInv, Kept, Told, PassedAll, EndInv, ClearedMeansDone, [Next]_vars
  PROVE  ClearedMeansDone'
<1> SUFFICES ASSUME cleared', ~panicked', short' = {} PROVE ClearedMeansDone'
  BY DEF ClearedMeansDone
<1>1. ASSUME NEW g \in Groups, NEW md \in Modes, Start(g, md) PROVE FALSE
  BY <1>1 DEF Start
<1>2. short = {}
  BY <1>1, ShortIsForgotten
<1>3. ~panicked
  <2>1. ASSUME Main \/ Environment \/ UNCHANGED vars PROVE ~panicked
    BY <2>1 DEF Main, Environment, vars, NextCanceled, NextBuffered, NextEnds, SkipDeleted,
                NextPanics, Process, ProcessFails, Value, DownloadReturns, ProgressWait,
                SaveProgress, Exit, Kill, Over, Cancel, DeleteMessage, runVars
  <2>2. ASSUME NEW j \in jobs, Job(j) PROVE ~panicked
    BY <2>2 DEF Job, OnAdd, Downloaded, DownloadFails, DownloadCanceled, Finish, Rename,
                RenameFails, mainVars, runVars
  <2> QED BY <1>1, <2>1, <2>2 DEF Next
<1>4. CASE SaveProgress
  <2>1. ~Interrupted
    BY <1>4 DEF SaveProgress
  <2> QED BY <1>2, <1>3, <1>4, <2>1, ClearedIsDone DEF Told, PassedAll, SteadyInv
<1>5. ASSUME alive' \subseteq alive, UNCHANGED <<tmp, final, group, spoiled, cleared>>
      PROVE  ClearedMeansDone'
  <2>1. WithAlbums(Reached)' = WithAlbums(Reached)
    BY <1>5 DEF WithAlbums
  <2>2. \A m : Complete(m)' <=> Complete(m)
    BY <1>5 DEF Complete
  <2> QED BY <1>2, <1>3, <1>5, <2>1, <2>2 DEF ClearedMeansDone
<1>6. ASSUME cleared, ~SaveProgress, Main \/ \E j \in jobs : Job(j)
      PROVE  Exit
  <2>1. phase \in {"off", "exit"} /\ jobs = {}
    BY <1>3, <1>6 DEF EndInv, Stopped
  <2> QED BY <1>6, <2>1 DEF Main, NextCanceled, NextBuffered, NextEnds, SkipDeleted, NextPanics,
                            Process, ProcessFails, Iterating, Value, DownloadReturns,
                            ProgressWait
<1>7. ASSUME Exit \/ Environment \/ UNCHANGED vars
      PROVE  alive' \subseteq alive /\ UNCHANGED <<tmp, final, group, spoiled, cleared>>
  BY <1>7 DEF Exit, Environment, Kill, Over, Cancel, DeleteMessage, vars, disk, runVars, history
<1>8. ASSUME ~cleared, ~SaveProgress, Main \/ \E j \in jobs : Job(j) PROVE ~cleared'
  BY <1>8 DEF Main, NextCanceled, NextBuffered, NextEnds, SkipDeleted, NextPanics, Process,
              ProcessFails, Value, DownloadReturns, ProgressWait, Exit, Over, Job, OnAdd,
              Downloaded, DownloadFails, DownloadCanceled, Finish, Rename, RenameFails,
              mainVars, history
<1> QED
  BY <1>1, <1>4, <1>5, <1>6, <1>7, <1>8 DEF Next

\* What the end of a run rests on is kept.
LEMMA NextPassedAll ==
  ASSUME Steady, PosInv, Kept, Told, PassedAll, [Next]_vars
  PROVE  PassedAll'
<1> SUFFICES ASSUME short' = {} PROVE Covered'
  BY DEF PassedAll
<1>1. CASE short = {}
  BY <1>1, NextCovered DEF Told, PassedAll, SteadyInv
<1>2. CASE short # {}
  BY <1>2, ShortIsForgotten, StartCovered
<1> QED BY <1>1, <1>2

\* In a steady setting the resume key is removed at the end of a run only when every
\* message that was reached and can be had has been downloaded, unless the run has
\* panicked, or an answer for an album has been short since there was last no progress.
THEOREM ClearedIsComplete ==
  ASSUME Steady PROVE Spec => []ClearedMeansDone
<1> DEFINE I == PosInv /\ Kept /\ Told /\ PassedAll /\ EndInv /\ ClearedMeansDone
<1>1. Init => I
  BY InitTypes, InitPositions, InitPlaced, InitResume, InitEnd DEF Told, PosInv
<1>2. I /\ [Next]_vars => I'
  <2> SUFFICES ASSUME I, [Next]_vars PROVE I'
    OBVIOUS
  <2>1. PosInv' /\ Kept' /\ Told'
    BY NextTypes, NextPositions, NextKeepsMessages, NextTold DEF PosInv
  <2>2. TypeInv
    BY DEF PosInv
  <2>3. EndInv'
    BY <2>2, NextIssuedWhere, NextFinishIsMarked, NextStopped DEF EndInv
  <2>4. PassedAll'
    BY NextPassedAll
  <2> QED BY <2>1, <2>3, <2>4, NextCleared
<1>. QED
  BY <1>1, <1>2, PTL DEF Spec
===============================================================================
