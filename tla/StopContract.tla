--------------------------- MODULE StopContract ---------------------------
(* What the job control plane promises the user of one run: the run starts,
   may be asked to stop at any time while it is going, is over once, and an
   ask that was recorded is never dropped and ends the run.                 *)
VARIABLES
    run,     \* "new", "going" or "over"
    asked    \* a stop is recorded and not yet answered

cvars == <<run, asked>>

Init == run = "new" /\ asked = FALSE

\* An ask may already be waiting when the run starts.
Start == run = "new" /\ run' = "going" /\ asked' \in BOOLEAN

Ask == run = "going" /\ asked' = TRUE /\ UNCHANGED run

\* The work completes, fails, dies or answers the ask.
End == run = "going" /\ run' = "over" /\ asked' = FALSE

Next == Start \/ Ask \/ End

Spec == Init /\ [][Next]_cvars /\ WF_cvars(asked /\ End)
===========================================================================
