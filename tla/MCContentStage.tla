--------------------------- MODULE MCContentStage ---------------------------
(* Three files with the same content, of which two are paths of one inode.   *)
EXTENDS ContentStage

MCInodeOf == [f \in {"a", "b", "c"} |-> IF f = "c" THEN "j" ELSE "i"]
MCContents == Contents
=============================================================================
