-------------------------------- MODULE DCPool --------------------------------
(***************************************************************************)
(* The pool of connections to Telegram's data centers (core/dcpool): one   *)
(* invoker per data center, made when it is first asked for and kept, and  *)
(* at most one takeout session.  Goroutines (the jobs of a download,       *)
(* upload or forward) call Client and Takeout; the main goroutine calls    *)
(* Close when the run is over, and may do so while a job is still inside a *)
(* call (Downloader.Download does not wait for jobs when its iterator      *)
(* fails).  The mutex is held across the network calls.                    *)
(***************************************************************************)
EXTENDS Naturals, FiniteSets

CONSTANTS
  Jobs, Main,   \* goroutines: jobs, and the one that calls Close
  DCs, Current, \* data centers, and the one the client is connected to
  Nobody

ASSUME PoolAssumption == Main \notin Jobs /\ Nobody \notin Jobs \union {Main} /\ Current \in DCs

\* (An operator "wrong on purpose" stands in for the next one when the properties are
\* put to the test.)

Threads == Jobs \union {Main}

VARIABLES
  mu,         \* who holds pool.mu
  pc,         \* where a goroutine stands in Client or Takeout
  takes, dc,  \* whether it calls Takeout, and for which data center
  invokers,   \* data centers in pool.invokers
  closes,     \* data centers in pool.closes
  sid,        \* pool.takeout # 0
  opened,     \* connections open, per data center
  sessions,   \* takeout sessions open on the server
  closing,    \* where Close stands
  toClose,    \* data centers whose connection Close has still to close
  early,      \* Close was called before the jobs had ended (history)
  failed      \* calls that have failed: "init", "finish" (history)

call    == <<takes, dc>>
conns   == <<invokers, closes, opened>>
closers == <<closing, toClose, early>>
vars    == <<mu, pc, call, conns, sid, sessions, closers, failed>>

Init ==
  /\ mu = Nobody
  /\ pc = [t \in Threads |-> "idle"]
  /\ takes = [t \in Threads |-> FALSE] /\ dc = [t \in Threads |-> Current]
  /\ invokers = {} /\ closes = {} /\ opened = [d \in DCs |-> 0]
  /\ sid = FALSE /\ sessions = 0
  /\ closing = "no" /\ toClose = {} /\ early = FALSE /\ failed = {}

Goes(t, p) == pc' = [pc EXCEPT ![t] = p]

-----------------------------------------------------------------------------
(* Client, Default (Client for the current data center), Takeout, invoker. *)

Enter(t, k, d) ==
  /\ pc[t] = "idle" /\ Goes(t, "lock")
  /\ takes' = [takes EXCEPT ![t] = k] /\ dc' = [dc EXCEPT ![t] = d]

Call(j, k, d) ==
  /\ closing = "no" \/ early
  /\ Enter(j, k, d)
  /\ UNCHANGED <<mu, conns, sid, sessions, closers, failed>>

\* Wrong on purpose: every call of Takeout asks for a session.
NeedsSessionAlways(t) == takes[t]
NeedsSession(t) == takes[t] /\ ~sid

Lock(t) ==
  /\ pc[t] = "lock" /\ mu = Nobody
  /\ mu' = t
  /\ Goes(t, IF NeedsSession(t) THEN "init" ELSE "get")
  /\ UNCHANGED <<call, conns, sid, sessions, closers, failed>>

InitSession(t) ==
  /\ pc[t] = "init"
  /\ sid' = TRUE /\ sessions' = sessions + 1
  /\ Goes(t, "get")
  /\ UNCHANGED <<mu, call, conns, closers, failed>>

\* Takeout falls back on Client, which takes the mutex that Takeout still holds.
InitSessionFails(t) ==
  /\ pc[t] = "init"
  /\ failed' = failed \union {"init"}
  /\ takes' = [takes EXCEPT ![t] = FALSE]
  /\ Goes(t, "lock")
  /\ UNCHANGED <<mu, dc, conns, sid, sessions, closers>>

\* Wrong on purpose: the mutex is not given back when a call degrades.
UnlockedKept(t) == mu
Unlocked(t) == Nobody

Return(t) == mu' = Unlocked(t) /\ Goes(t, "idle")

\* Wrong on purpose: the lookup before the lazy init is left out.
KnownNever(d) == FALSE
Known(d) == d \in invokers

GetKnown(t) ==
  /\ pc[t] = "get" /\ Known(dc[t])
  /\ Return(t)
  /\ UNCHANGED <<call, conns, sid, sessions, closers, failed>>

\* Wrong on purpose: the close function of a connection is forgotten.
RegisteredNot(d) == {}
Registered(d) == {d}

\* api.Pool or api.DC.
GetNew(t) ==
  /\ pc[t] = "get" /\ ~Known(dc[t])
  /\ opened' = [opened EXCEPT ![dc[t]] = @ + 1]
  /\ closes' = closes \union Registered(dc[t])
  /\ invokers' = invokers \union {dc[t]}
  /\ Return(t)
  /\ UNCHANGED <<call, sid, sessions, closers, failed>>

\* Degraded: the client itself is returned, and nothing is kept.
GetDegraded(t) ==
  /\ pc[t] = "get" /\ ~Known(dc[t])
  /\ Return(t)
  /\ UNCHANGED <<call, conns, sid, sessions, closers, failed>>

-----------------------------------------------------------------------------
(* Close, in the main goroutine, without the mutex.                        *)

\* Wrong on purpose: Close ends a session without looking whether there is one.
SessionToEndAlways == TRUE
SessionToEnd == sid

\* Early: the iterator failed, and jobs still call the pool.
Close(e) ==
  /\ closing = "no"
  /\ e \/ \A j \in Jobs : pc[j] = "idle"
  /\ early' = e
  /\ IF SessionToEnd
     THEN closing' = "finish" /\ Enter(Main, TRUE, Current) /\ UNCHANGED toClose
     ELSE closing' = "close" /\ toClose' = closes /\ UNCHANGED <<pc, call>>
  /\ UNCHANGED <<mu, conns, sid, sessions, failed>>

\* UnTakeout, once Takeout has returned.
FinishSession ==
  /\ closing = "finish" /\ pc[Main] = "idle"
  /\ \/ sessions' = sessions - 1 /\ UNCHANGED failed
     \/ failed' = failed \union {"finish"} /\ UNCHANGED sessions
  /\ closing' = "close" /\ toClose' = closes
  /\ UNCHANGED <<mu, pc, call, conns, sid, early>>

CloseOne(d) ==
  /\ closing = "close" /\ d \in toClose
  /\ toClose' = toClose \ {d}
  /\ opened' = [opened EXCEPT ![d] = @ - 1]
  /\ UNCHANGED <<mu, pc, call, invokers, closes, sid, sessions, closing, early, failed>>

Closed ==
  /\ closing = "close" /\ toClose = {}
  /\ closing' = "closed"
  /\ UNCHANGED <<mu, pc, call, conns, sid, sessions, toClose, early, failed>>

-----------------------------------------------------------------------------
Inside(t) == \/ InitSession(t) \/ InitSessionFails(t)
             \/ GetKnown(t) \/ GetNew(t) \/ GetDegraded(t)
Closing == FinishSession \/ Closed \/ \E d \in DCs : CloseOne(d)

Next == \/ \E j \in Jobs, k \in BOOLEAN, d \in DCs : Call(j, k, d)
        \/ \E t \in Threads : Lock(t) \/ Inside(t)
        \/ \E e \in BOOLEAN : Close(e)
        \/ Closing

Spec == Init /\ [][Next]_vars

\* A sync.Mutex starves nobody, the calls to the server return, and Close runs on.
FairSpec ==
  /\ Spec
  /\ \A t \in Threads : SF_vars(Lock(t)) /\ WF_vars(Inside(t))
  /\ WF_vars(Closing)

-----------------------------------------------------------------------------
\* With the types: who is past the mutex holds it, and who has returned does not.
TypeOK ==
  /\ mu \in Threads \union {Nobody}
  /\ pc \in [Threads -> {"idle", "lock", "init", "get"}]
  /\ takes \in [Threads -> BOOLEAN] /\ dc \in [Threads -> DCs]
  /\ invokers \subseteq DCs /\ closes \subseteq DCs /\ toClose \subseteq DCs
  /\ opened \in [DCs -> Nat] /\ sessions \in Nat
  /\ sid \in BOOLEAN /\ early \in BOOLEAN
  /\ closing \in {"no", "finish", "close", "closed"} /\ failed \subseteq {"init", "finish"}
  /\ \A t \in Threads : /\ pc[t] \in {"init", "get"} => mu = t
                        /\ mu = t => pc[t] # "idle"

\* However many goroutines ask for a data center at once, one connection to it is open,
\* and at most one takeout session on the server (lazy init in invoker and Takeout, which
\* hold the mutex across the calls that open them).
OneOfEach == (\A d \in DCs : opened[d] =< 1) /\ sessions =< 1

\* When Close is done, and the jobs were done before it was called, no connection is left
\* open, and no takeout session unless the server refused to end it.  Close may itself
\* open a connection, for the call that ends the session.
NothingLeft ==
  closing = "closed" /\ ~early =>
    /\ \A d \in DCs : opened[d] = 0
    /\ sessions = 0 \/ "finish" \in failed

\* Every call of the pool returns, unless a takeout session could not be had.
CallsReturn == \A j \in Jobs : pc[j] # "idle" ~> (pc[j] = "idle" \/ "init" \in failed)

\* Close always comes to its end: it needs the mutex only if there is a session, and
\* then no call can be stuck holding it.
CloseEnds == (closing # "no") ~> (closing = "closed")

-----------------------------------------------------------------------------
(* Not so in this code.                                                    *)

\* "ignore init delay error and return non-takeout client" (dcpool.go:122): a call of
\* Takeout returns, with or without a session.
TakeoutDegrades == \A j \in Jobs : pc[j] = "init" ~> pc[j] = "idle"
===============================================================================
