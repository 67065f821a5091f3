------------------------------- MODULE MCUpload -------------------------------
(* An instance of Upload for TLC: a directory with a video and its thumbnail, a     *)
(* picture, and a text that is excluded; then the video once more, named by itself. *)
EXTENDS Upload

MCTree == <<<<"video", "thumbnail", "picture", "note">>, <<"video">>>>
MCExt  == [f \in {"video", "thumbnail", "picture", "note"} |->
             CASE f = "video" -> "mp4" [] f = "thumbnail" -> "thumb"
               [] f = "picture" -> "jpg" [] OTHER -> "txt"]
MCThumbName == [f \in {"video", "thumbnail", "picture", "note"} |->
                  IF f = "video" THEN "thumbnail" ELSE "none"]
===============================================================================
