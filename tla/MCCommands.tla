------------------------------ MODULE MCCommands ------------------------------
(* An instance of Commands for TLC.  Forwarded: the messages 1 and 2 of an album, one    *)
(* with other media and one with text alone, 2 twice; 9 is a service message.  Listed: a *)
(* channel whose entity is missing has the bare id of a chat.  Exported: the messages 2  *)
(* and 3 have one date.  The name of the extension tdl-a.b is that of tdl-a.             *)
EXTENDS Commands

MCSources == <<<<1, 9, 2, 3>>, <<2>>, <<4>>>>
MCBareId  == [c \in Chats |-> CASE c = "user" -> 1 [] c = "lost" -> 2 [] c = "chat" -> 2
                                [] c = "forum" -> 3 [] OTHER -> 0]
MCHistory == <<1, 2, 2, 4, 5>>
MCExtDirs == <<"tdl-a", "tdl-a.b">>
MCStem    == [d \in {"tdl-a", "tdl-a.b"} |-> "tdl-a"]
===============================================================================
