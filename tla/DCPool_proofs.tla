----------------------------- MODULE DCPool_proofs -----------------------------
(***************************************************************************)
(* Proofs about DCPool for any jobs and data centers: the mutex excludes,  *)
(* one of each connection and session is open, and an orderly Close leaves *)
(* nothing open.                                                           *)
(***************************************************************************)
EXTENDS DCPool, TLAPS

-----------------------------------------------------------------------------
(* Types and the mutex.                                                    *)

\* The types at the start.
LEMMA InitType == Init => TypeOK
<1> SUFFICES ASSUME Init PROVE TypeOK
  OBVIOUS
<1>1. /\ pc \in [Threads -> {"idle", "lock", "init", "get"}]
      /\ takes \in [Threads -> BOOLEAN] /\ dc \in [Threads -> DCs]
      /\ opened \in [DCs -> Nat]
  BY PoolAssumption DEF Init
<1>2. ASSUME NEW t \in Threads PROVE pc[t] = "idle" /\ mu # t
  BY PoolAssumption DEF Init, Threads
<1>. QED
  BY <1>1, <1>2 DEF Init, TypeOK

\* Sessions are counted up from those there are; FinishSession runs when there is one.
SessionInv ==
  /\ sessions = 1 => sid
  /\ sessions \in {0, 1}
  /\ sid /\ closing \in {"no", "finish"} => sessions = 1
  /\ closing = "finish" => sid
  /\ \A t \in Threads : pc[t] = "init" => ~sid

\* An open connection is a known one, and is closed once.
ConnInv ==
  /\ \A d \in DCs : opened[d] \in {0, 1} /\ (opened[d] = 1 => d \in invokers)
  /\ \A d \in toClose : opened[d] = 1
  /\ closes = invokers
  /\ closing \in {"no", "finish"} => \A d \in invokers : opened[d] = 1

\* After an orderly Close nobody is inside the pool, and what is open is in toClose.
CloseInv ==
  /\ closing \in {"close", "closed"} => pc[Main] = "idle"
  /\ closing = "no" => pc[Main] = "idle" /\ ~early
  /\ closing = "closed" => toClose = {}
  /\ ~early /\ closing # "no" => \A j \in Jobs : pc[j] = "idle"
  /\ ~early /\ closing \in {"close", "closed"} =>
       /\ \A d \in DCs : opened[d] = 1 => d \in toClose
       /\ sessions = 0 \/ "finish" \in failed

PoolInv == TypeOK /\ SessionInv /\ ConnInv /\ CloseInv

\* At the start nothing is open.
LEMMA InitPool == Init => PoolInv
<1> SUFFICES ASSUME Init PROVE PoolInv
  OBVIOUS
<1>1. SessionInv
  BY DEF Init, SessionInv
<1>2. ConnInv
  BY DEF Init, ConnInv
<1>3. CloseInv
  BY DEF Init, CloseInv, Threads
<1>. QED
  BY <1>1, <1>2, <1>3, InitType DEF PoolInv

-----------------------------------------------------------------------------
(* One lemma for each part of the invariant.                               *)

\* Every step keeps the types.
LEMMA NextType == PoolInv /\ [Next]_vars => TypeOK'
<1> SUFFICES ASSUME TypeOK, SessionInv, ConnInv, [Next]_vars PROVE TypeOK'
  BY DEF PoolInv
<1> USE PoolAssumption DEF Threads
<1>1. ASSUME NEW j \in Jobs, NEW k \in BOOLEAN, NEW d \in DCs, Call(j, k, d) PROVE TypeOK'
  BY <1>1 DEF Call, Enter, Goes, TypeOK, conns, closers
<1>2. ASSUME NEW t \in Threads, Lock(t) PROVE TypeOK'
  BY <1>2 DEF Lock, Goes, TypeOK, conns, closers, call
<1>3. ASSUME NEW t \in Threads, InitSession(t) PROVE TypeOK'
  BY <1>3 DEF InitSession, Goes, TypeOK, conns, closers, call
<1>4. ASSUME NEW t \in Threads, InitSessionFails(t) PROVE TypeOK'
  BY <1>4 DEF InitSessionFails, Goes, TypeOK, conns, closers
<1>5. ASSUME NEW t \in Threads, GetKnown(t) PROVE TypeOK'
  BY <1>5 DEF GetKnown, Return, Unlocked, Goes, TypeOK, conns, closers, call
<1>6. ASSUME NEW t \in Threads, GetNew(t) PROVE TypeOK'
  BY <1>6 DEF GetNew, Return, Unlocked, Registered, Goes, TypeOK, closers, call
<1>7. ASSUME NEW t \in Threads, GetDegraded(t) PROVE TypeOK'
  BY <1>7 DEF GetDegraded, Return, Unlocked, Goes, TypeOK, conns, closers, call
<1>8. ASSUME NEW e \in BOOLEAN, Close(e) PROVE TypeOK'
  BY <1>8 DEF Close, SessionToEnd, Enter, Goes, TypeOK, conns, call
<1>9. ASSUME FinishSession PROVE TypeOK'
  <2>1. sessions = 1 /\ sid
    BY <1>9 DEF FinishSession, SessionInv, TypeOK
  <2>2. sessions' \in {0, 1}
    BY <1>9, <2>1, 1 - 1 = 0 DEF FinishSession
  <2>3. failed' = failed \/ failed' = failed \union {"finish"}
    BY <1>9 DEF FinishSession
  <2>4. failed' \subseteq {"init", "finish"}
    BY <2>3 DEF TypeOK
  <2>. QED
    BY <1>9, <2>2, <2>4 DEF FinishSession, TypeOK, conns, call
<1>10. ASSUME NEW d \in DCs, CloseOne(d) PROVE TypeOK'
  BY <1>10 DEF CloseOne, ConnInv, TypeOK, call
<1>11. ASSUME Closed PROVE TypeOK'
  BY <1>11 DEF Closed, TypeOK, conns, call
<1>12. ASSUME UNCHANGED vars PROVE TypeOK'
  BY <1>12 DEF vars, TypeOK, conns, call, closers
<1>. QED
  BY <1>1, <1>2, <1>3, <1>4, <1>5, <1>6, <1>7, <1>8, <1>9, <1>10, <1>11, <1>12
  DEF Next, Inside, Closing

\* A second session would need a goroutine past the test for the first.
LEMMA NextSession == PoolInv /\ [Next]_vars => SessionInv'
<1> SUFFICES ASSUME PoolInv, [Next]_vars PROVE SessionInv'
  OBVIOUS
<1> USE PoolAssumption DEF Threads, PoolInv, TypeOK
<1>1. ASSUME NEW j \in Jobs, NEW k \in BOOLEAN, NEW d \in DCs, Call(j, k, d) PROVE SessionInv'
  BY <1>1 DEF Call, Enter, Goes, conns, closers, SessionInv
<1>2. ASSUME NEW t \in Threads, Lock(t) PROVE SessionInv'
  BY <1>2 DEF Lock, NeedsSession, Goes, conns, closers, call, SessionInv
<1>3. ASSUME NEW t \in Threads, InitSession(t) PROVE SessionInv'
  BY <1>3 DEF InitSession, Goes, conns, closers, call, SessionInv
<1>4. ASSUME NEW t \in Threads, InitSessionFails(t) PROVE SessionInv'
  BY <1>4 DEF InitSessionFails, Goes, conns, closers, SessionInv
<1>5. ASSUME NEW t \in Threads, GetKnown(t) PROVE SessionInv'
  BY <1>5 DEF GetKnown, Return, Goes, conns, closers, call, SessionInv
<1>6. ASSUME NEW t \in Threads, GetNew(t) PROVE SessionInv'
  BY <1>6 DEF GetNew, Return, Known, Registered, Goes, closers, call, SessionInv
<1>7. ASSUME NEW t \in Threads, GetDegraded(t) PROVE SessionInv'
  BY <1>7 DEF GetDegraded, Return, Goes, conns, closers, call, SessionInv
<1>8. ASSUME NEW e \in BOOLEAN, Close(e) PROVE SessionInv'
  BY <1>8 DEF Close, SessionToEnd, Enter, Goes, conns, call, SessionInv
<1>9. ASSUME FinishSession PROVE SessionInv'
  BY <1>9 DEF FinishSession, conns, call, SessionInv
<1>10. ASSUME NEW d \in DCs, CloseOne(d) PROVE SessionInv'
  BY <1>10 DEF CloseOne, call, SessionInv
<1>11. ASSUME Closed PROVE SessionInv'
  BY <1>11 DEF Closed, conns, call, SessionInv
<1>12. ASSUME UNCHANGED vars PROVE SessionInv'
  BY <1>12 DEF vars, conns, call, closers, SessionInv
<1>. QED
  BY <1>1, <1>2, <1>3, <1>4, <1>5, <1>6,
     <1>7, <1>8, <1>9, <1>10, <1>11, <1>12 DEF Next, Inside, Closing

\* Every step keeps the count of the connections.
LEMMA NextConn == PoolInv /\ [Next]_vars => ConnInv'
<1> SUFFICES ASSUME PoolInv, [Next]_vars PROVE ConnInv'
  OBVIOUS
<1> USE PoolAssumption DEF Threads, PoolInv, TypeOK
<1>1. ASSUME NEW j \in Jobs, NEW k \in BOOLEAN, NEW d \in DCs, Call(j, k, d) PROVE ConnInv'
  BY <1>1 DEF Call, Enter, Goes, conns, closers, ConnInv, SessionInv
<1>2. ASSUME NEW t \in Threads, Lock(t) PROVE ConnInv'
  BY <1>2 DEF Lock, NeedsSession, Goes, conns, closers, call, ConnInv, SessionInv
<1>3. ASSUME NEW t \in Threads, InitSession(t) PROVE ConnInv'
  BY <1>3 DEF InitSession, Goes, conns, closers, call, ConnInv, SessionInv
<1>4. ASSUME NEW t \in Threads, InitSessionFails(t) PROVE ConnInv'
  BY <1>4 DEF InitSessionFails, Goes, conns, closers, ConnInv, SessionInv
<1>5. ASSUME NEW t \in Threads, GetKnown(t) PROVE ConnInv'
  BY <1>5 DEF GetKnown, Return, Goes, conns, closers, call, ConnInv, SessionInv
<1>6. ASSUME NEW t \in Threads, GetNew(t) PROVE ConnInv'
  BY <1>6 DEF GetNew, Return, Known, Registered, Goes, closers, call, ConnInv, SessionInv
<1>7. ASSUME NEW t \in Threads, GetDegraded(t) PROVE ConnInv'
  BY <1>7 DEF GetDegraded, Return, Goes, conns, closers, call, ConnInv, SessionInv
<1>8. ASSUME NEW e \in BOOLEAN, Close(e) PROVE ConnInv'
  BY <1>8 DEF Close, SessionToEnd, Enter, Goes, conns, call, ConnInv, SessionInv
<1>9. ASSUME FinishSession PROVE ConnInv'
  BY <1>9 DEF FinishSession, conns, call, ConnInv, SessionInv
<1>10. ASSUME NEW d \in DCs, CloseOne(d) PROVE ConnInv'
  BY <1>10 DEF CloseOne, call, ConnInv, SessionInv
<1>11. ASSUME Closed PROVE ConnInv'
  BY <1>11 DEF Closed, conns, call, ConnInv, SessionInv
<1>12. ASSUME UNCHANGED vars PROVE ConnInv'
  BY <1>12 DEF vars, conns, call, closers, ConnInv, SessionInv
<1>. QED
  BY <1>1, <1>2, <1>3, <1>4, <1>5, <1>6,
     <1>7, <1>8, <1>9, <1>10, <1>11, <1>12 DEF Next, Inside, Closing

\* Every step keeps the count of what is left to close.
LEMMA NextClose == PoolInv /\ [Next]_vars => CloseInv'
<1> SUFFICES ASSUME PoolInv, [Next]_vars PROVE CloseInv'
  OBVIOUS
<1> USE PoolAssumption DEF Threads, PoolInv, TypeOK
<1>1. ASSUME NEW j \in Jobs, NEW k \in BOOLEAN, NEW d \in DCs, Call(j, k, d) PROVE CloseInv'
  BY <1>1 DEF Call, Enter, Goes, conns, closers, CloseInv, ConnInv, SessionInv
<1>2. ASSUME NEW t \in Threads, Lock(t) PROVE CloseInv'
  BY <1>2 DEF Lock, NeedsSession, Goes, conns, closers, call, CloseInv, ConnInv, SessionInv
<1>3. ASSUME NEW t \in Threads, InitSession(t) PROVE CloseInv'
  BY <1>3 DEF InitSession, Goes, conns, closers, call, CloseInv, ConnInv, SessionInv
<1>4. ASSUME NEW t \in Threads, InitSessionFails(t) PROVE CloseInv'
  BY <1>4 DEF InitSessionFails, Goes, conns, closers, CloseInv, ConnInv, SessionInv
<1>5. ASSUME NEW t \in Threads, GetKnown(t) PROVE CloseInv'
  BY <1>5 DEF GetKnown, Return, Goes, conns, closers, call, CloseInv, ConnInv, SessionInv
<1>6. ASSUME NEW t \in Threads, GetNew(t) PROVE CloseInv'
  BY <1>6 DEF GetNew, Return, Known, Registered, Goes, closers, call, CloseInv, ConnInv, SessionInv
<1>7. ASSUME NEW t \in Threads, GetDegraded(t) PROVE CloseInv'
  BY <1>7 DEF GetDegraded, Return, Goes, conns, closers, call, CloseInv, ConnInv, SessionInv
<1>8. ASSUME NEW e \in BOOLEAN, Close(e) PROVE CloseInv'
  BY <1>8 DEF Close, SessionToEnd, Enter, Goes, conns, call, CloseInv, ConnInv, SessionInv
<1>9. ASSUME FinishSession PROVE CloseInv'
  BY <1>9 DEF FinishSession, conns, call, CloseInv, ConnInv, SessionInv
<1>10. ASSUME NEW d \in DCs, CloseOne(d) PROVE CloseInv'
  BY <1>10 DEF CloseOne, call, CloseInv, ConnInv, SessionInv
<1>11. ASSUME Closed PROVE CloseInv'
  BY <1>11 DEF Closed, conns, call, CloseInv, ConnInv, SessionInv
<1>12. ASSUME UNCHANGED vars PROVE CloseInv'
  BY <1>12 DEF vars, conns, call, closers, CloseInv, ConnInv, SessionInv
<1>. QED
  BY <1>1, <1>2, <1>3, <1>4, <1>5, <1>6,
     <1>7, <1>8, <1>9, <1>10, <1>11, <1>12 DEF Next, Inside, Closing

\* The invariant holds.
LEMMA PoolInvariant == Spec => []PoolInv
<1>1. PoolInv /\ [Next]_vars => PoolInv'
  BY NextType, NextSession, NextConn, NextClose DEF PoolInv
<1>. QED
  BY InitPool, <1>1, PTL DEF Spec

-----------------------------------------------------------------------------
(* The theorems.                                                           *)

\* The mutex of the pool excludes, and everything has its type.
THEOREM TypeCorrect == Spec => []TypeOK
<1>1. PoolInv => TypeOK
  BY DEF PoolInv
<1>. QED
  BY PoolInvariant, <1>1, PTL

\* Whatever number of goroutines ask for whatever data centers, and whenever Close runs,
\* the lazy inits open one connection to each and one takeout session.
THEOREM OpensOneOfEach == Spec => []OneOfEach
<1>1. PoolInv => OneOfEach
  BY DEF PoolInv, ConnInv, SessionInv, OneOfEach
<1>. QED
  BY PoolInvariant, <1>1, PTL

\* A Close that runs after the jobs have ended leaves nothing open that it could end.
THEOREM OrderlyCloseLeavesNothing == Spec => []NothingLeft
<1>1. PoolInv => NothingLeft
  <2> SUFFICES ASSUME PoolInv, closing = "closed", ~early
               PROVE (\A d \in DCs : opened[d] = 0) /\ (sessions = 0 \/ "finish" \in failed)
    BY DEF NothingLeft
  <2>. QED
    BY DEF PoolInv, ConnInv, CloseInv
<1>. QED
  BY PoolInvariant, <1>1, PTL
===============================================================================
