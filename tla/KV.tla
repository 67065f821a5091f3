---------------------------------- MODULE KV ----------------------------------
(***************************************************************************)
(* What tdl's commands take a key-value storage to be (core/storage's      *)
(* Storage interface, and the Storage of pkg/kv it is opened from): one    *)
(* map that every thread reads and writes at once, whatever runs beside    *)
(* it, that survives the end of the process at any point, and in which a   *)
(* backup can be restored.  A namespace is reduced to one key.             *)
(***************************************************************************)
CONSTANTS Threads, Namespaces, Vals, None, Idle

VARIABLES
  store, \* the map
  call,  \* the call a thread is in, or Idle
  seen,  \* what the last Get of a thread returned
  void   \* the promise has ceased to hold

vars == <<store, call, seen, void>>

Init ==
  /\ store \in [Namespaces -> Vals \union {None}]
  /\ call = [t \in Threads |-> Idle] /\ seen = [t \in Threads |-> None]
  /\ void = FALSE

In(t, op)  == call[t] # Idle /\ call[t].op = op
Returns(t) == call' = [call EXCEPT ![t] = Idle]

Invoke(t) ==
  /\ call[t] = Idle /\ \A u \in Threads \ {t} : call'[u] = call[u]
  /\ UNCHANGED <<store, seen>>

\* Set, or with None Delete.
Put(t) ==
  /\ In(t, "put")
  /\ store' = [store EXCEPT ![call[t].ns] = call[t].val]
  /\ Returns(t)
  /\ UNCHANGED seen

Get(t) ==
  /\ In(t, "get")
  /\ seen' = [seen EXCEPT ![t] = store[call[t].ns]]
  /\ Returns(t)
  /\ UNCHANGED store

\* A backup is restored one namespace at a time, or all at once in place of the map.
RestoreOne(t, n) ==
  /\ In(t, "restore") /\ call[t].data[n] \in Vals
  /\ store' = [store EXCEPT ![n] = call[t].data[n]]
  /\ UNCHANGED <<call, seen>>

RestoreAll(t) ==
  /\ In(t, "restore")
  /\ store' = [n \in Namespaces |-> IF call[t].data[n] \in Vals THEN call[t].data[n] ELSE None]
  /\ Returns(t)
  /\ UNCHANGED seen

\* Threads end, by themselves, with an error or killed: what they have called has not
\* been done and never will be, but a backup may have been restored in part.
End(ts) ==
  /\ call' = [t \in Threads |-> IF t \in ts THEN Idle ELSE call[t]]
  /\ seen' = [t \in Threads |-> IF t \in ts THEN None ELSE seen[t]]
  /\ UNCHANGED store

\* A backup has been restored.
Restored(t) == In(t, "restore") /\ Returns(t) /\ UNCHANGED <<store, seen>>

Kept ==
  \/ \E t \in Threads : \/ Invoke(t) \/ Put(t) \/ Get(t) \/ RestoreAll(t) \/ Restored(t)
                        \/ \E n \in Namespaces : RestoreOne(t, n)
  \/ \E ts \in SUBSET Threads : End(ts)

Next == (void => void') /\ (void' \/ Kept)

Spec == Init /\ [][Next]_vars
===============================================================================
