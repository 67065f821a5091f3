------------------------------- MODULE Commands -------------------------------
(***************************************************************************)
(* A run of tdl is one command (cmd): the forwarding of messages, one of   *)
(* the chat tools, or a run of the management of extensions or of the      *)
(* update of tdl itself, of which several may follow one another.  The     *)
(* commands share the client and its middlewares, not the state modelled.  *)
(***************************************************************************)
EXTENDS Forward, ChatTools, Extensions, SelfUpdate

VARIABLE command \* the command that was called

Init ==
  /\ command \in {"forward", "chat", "extension", "update"}
  /\ FwInit /\ CtInit /\ ExInit /\ SuInit
  /\ command # "chat" => ctOp = "ls"
  /\ command # "update" => suOS = "unix" /\ suExe = All(0)

Next ==
  \/ command = "forward" /\ FwSteps /\ UNCHANGED <<command, ctVars, exVars, suVars>>
  \/ command = "chat" /\ CtSteps /\ UNCHANGED <<command, fwVars, exVars, suVars>>
  \/ command = "extension" /\ ExSteps /\ UNCHANGED <<command, fwVars, ctVars, suVars>>
  \/ command = "update" /\ SuSteps /\ UNCHANGED <<command, fwVars, ctVars, exVars>>

Spec == Init /\ [][Next]_<<command, fwVars, ctVars, exVars, suVars>>

-----------------------------------------------------------------------------
\* The variables of every command have their types.
TypeOK ==
  /\ command \in {"forward", "chat", "extension", "update"}
  /\ FwTypeOK /\ CtTypeOK /\ ExTypeOK /\ SuTypeOK
===============================================================================
