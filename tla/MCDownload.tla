------------------------------ MODULE MCDownload ------------------------------
(* Instances of Download for TLC.  Messages asked for in four dialogs: a text   *)
(* message that may be deleted, one of an album of two, the first message of   *)
(* another chat, a text that may be deleted too, an empty dialog, and a        *)
(* message behind that.                                                        *)
EXTENDS Download

MCMsgs    == 0..5
MCChat    == [m \in MCMsgs |-> IF m < 4 THEN "group" ELSE "channel"]
MCDialogs == <<<<1, 2>>, <<4>>, <<>>, <<5>>>>
MCAlbums  == {{2, 3}}
MCFiles   == {2, 3, 5}

\* Without an empty dialog.
MCTwoDialogs == <<<<1, 2>>, <<4, 5>>>>

\* The hypothesis of the theorems about the resume key is met.
ASSUME MCSteady == Steady
===============================================================================
