-------------------------------- MODULE Invoke --------------------------------
(***************************************************************************)
(* One request of tdl to Telegram, through the middlewares every client    *)
(* gets (core/tclient: recovery around retry around flood wait).  retry    *)
(* sends the request again when the server answers with an internal error, *)
(* MaxTries times; recovery sends it again whenever what comes back is no  *)
(* answer of the server, until its backoff has run out or the user         *)
(* interrupts.  Each time it is the same request, with the random id that  *)
(* lets the server tell it has acted on it before.  The server is          *)
(* external: it may act on a request and the answer may be lost.           *)
(***************************************************************************)
EXTENDS Naturals, FiniteSets

CONSTANTS
  Payloads, \* what requests put in a chat
  NoReq,
  MaxTries, \* retry.max
  MaxRounds \* (bound) times recovery sends a request again before its backoff runs out

ASSUME InvokeAssumption ==
  MaxTries \in Nat \ {0} /\ MaxRounds \in Nat /\ NoReq \notin [id : Nat, puts : SUBSET Payloads]

VARIABLES
  req,       \* the request that is being invoked
  tries,     \* retries, in retry.Handle
  rounds,    \* times recovery has sent it again
  answer,    \* what the caller gets: "none" yet, "ok", "error" or "canceled"
  interrupt, \* the context is done
  served,    \* random ids the server has acted on (external)
  arrived,   \* how often each payload was put in its chat (external)
  doubt      \* payloads that arrived though their request ended in an error (history)

server     == <<served, arrived>>
invokeVars == <<req, tries, rounds, answer, interrupt, server, doubt>>

InvokeInit ==
  /\ req = NoReq /\ tries = 0 /\ rounds = 0 /\ answer = "none" /\ interrupt = FALSE
  /\ served = {} /\ arrived = [m \in Payloads |-> 0] /\ doubt = {}

Invoking == req # NoReq /\ answer = "none"

\* The caller makes a request, of an id it has not used, and takes the answer.
Send(r) ==
  /\ req = NoReq
  /\ req' = r /\ tries' = 0 /\ rounds' = 0 /\ answer' = "none"
  /\ UNCHANGED <<interrupt, server, doubt>>

Taken == req' = NoReq /\ answer' = "none" /\ UNCHANGED <<tries, rounds, interrupt, server, doubt>>

\* Wrong on purpose: each attempt has a random id of its own.
ServedBeforeNever == FALSE
ServedBefore == req.id \in served

Serve ==
  /\ served' = served \union {req.id}
  /\ arrived' = [m \in Payloads |->
       IF m \in req.puts /\ ~ServedBefore THEN arrived[m] + 1 ELSE arrived[m]]

\* The request ends; if in an error, its payloads may have arrived all the same.
Ends(a) ==
  /\ answer' = a
  /\ doubt' = IF a # "ok" /\ req.id \in served' THEN doubt \union req.puts ELSE doubt

Answered ==
  /\ Invoking
  /\ Serve /\ Ends("ok")
  /\ UNCHANGED <<req, tries, rounds, interrupt>>

\* A business error: the server refuses the request, or says its random id has been used
\* (RANDOM_ID_DUPLICATE).  retry and recovery hand it on.
Refused ==
  /\ Invoking
  /\ UNCHANGED <<req, tries, rounds, interrupt, server>>
  /\ Ends("error")

\* recovery is given an error that is no answer: the invocation starts over, or is given up.
\* At the bound the backoff has run out.
Recovers ==
  /\ ~interrupt /\ rounds < MaxRounds
  /\ rounds' = rounds + 1 /\ tries' = 0
  /\ UNCHANGED <<answer, doubt>>

GivesUp == Ends(IF interrupt THEN "canceled" ELSE "error") /\ UNCHANGED <<tries, rounds>>

\* The connection is lost, before or after the server has acted.
ConnectionLost(acted) ==
  /\ Invoking
  /\ IF acted THEN Serve ELSE UNCHANGED server
  /\ Recovers \/ GivesUp
  /\ UNCHANGED <<req, interrupt>>

\* Wrong on purpose: when its tries are used up retry returns no error.
LimitIsNoError == Ends("ok") /\ UNCHANGED <<tries, rounds>>
\* The error retry then returns is none of the server's, and recovery starts over.
LimitReached == Recovers \/ GivesUp

\* An internal error, which does not tell whether the server has acted.
InternalError(acted) ==
  /\ Invoking
  /\ IF acted THEN Serve ELSE UNCHANGED server
  /\ IF tries + 1 < MaxTries
     THEN tries' = tries + 1 /\ UNCHANGED <<rounds, answer, doubt>>
     ELSE LimitReached
  /\ UNCHANGED <<req, interrupt>>

Interrupt ==
  /\ ~interrupt /\ interrupt' = TRUE
  /\ UNCHANGED <<req, tries, rounds, answer, server, doubt>>

\* The context is done while the request is under way.
Canceled ==
  /\ Invoking /\ interrupt
  /\ UNCHANGED <<req, tries, rounds, interrupt, server>>
  /\ Ends("canceled")

Invocation ==
  \/ Answered \/ Refused \/ Canceled
  \/ \E acted \in BOOLEAN : ConnectionLost(acted) \/ InternalError(acted)

\* The types; and neither retry nor recovery exceeds its number of attempts.
InvokeTypeOK ==
  /\ req \in [id : Nat, puts : SUBSET Payloads] \union {NoReq}
  /\ tries \in 0..MaxTries /\ rounds \in 0..MaxRounds
  /\ answer \in {"none", "ok", "error", "canceled"} /\ interrupt \in BOOLEAN
  /\ served \subseteq Nat /\ arrived \in [Payloads -> Nat] /\ doubt \subseteq Payloads
===============================================================================
