--------------------------- MODULE MCReviewMove ---------------------------
(* Three drives for ReviewMove: a and its duplicate b on the first, and on each
   of the others a file with a's relative path, the same content on both.   *)
EXTENDS ReviewMove

MCFiles == {"d1/a", "d1/b", "d2/a", "d3/a"}
MCPlace == [f \in MCFiles |-> IF f = "d1/b" THEN "review/b" ELSE "review/a"]
MCHolds == [f \in MCFiles |-> IF f \in {"d2/a", "d3/a"} THEN "backup" ELSE "shared"]
===========================================================================
