---------------------------- MODULE MCScanWalk ----------------------------
(* A small tree for ScanWalk: a root without files over a directory with a file
   and one with a file and a subdirectory.                                  *)
EXTENDS ScanWalk

MCDirs == {"/", "a", "b", "b/c"}
MCNodes == MCDirs \cup {"a/1", "b/2", "b/c/3"}
MCChildren ==
    [d \in MCDirs |->
       CASE d = "/" -> {"a", "b"} [] d = "a" -> {"a/1"}
         [] d = "b" -> {"b/2", "b/c"} [] d = "b/c" -> {"b/c/3"}]
MCAbove ==
    [n \in MCNodes |->
       CASE n = "/" -> {} [] n \in {"a", "b"} -> {"/"}
         [] n = "a/1" -> {"/", "a"} [] n \in {"b/2", "b/c"} -> {"/", "b"}
         [] n = "b/c/3" -> {"/", "b", "b/c"}]
===========================================================================
