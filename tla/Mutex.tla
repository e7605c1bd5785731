------------------------------- MODULE Mutex -------------------------------
(***************************************************************************)
(* What index_lock promises its callers, without the lock file: a mutex    *)
(* whose guarantee ends when a user goes away without giving it back.      *)
(* From then on exclusion is best effort, since reclaimers may race.       *)
(***************************************************************************)
CONSTANT Users

VARIABLES
    inside,     \* users in the protected section
    forsaken    \* somebody went away without giving the lock back

vars == <<inside, forsaken>>

Init == inside = {} /\ forsaken = FALSE

\* The with statement is entered.
Enter(u) ==
    /\ u \notin inside
    /\ inside = {} \/ forsaken
    /\ inside' = inside \cup {u}
    /\ UNCHANGED forsaken

\* ... and left, whether or not the lock file could be removed.
Exit(u) ==
    /\ u \in inside
    /\ inside' = inside \ {u}
    /\ forsaken' \in {forsaken, TRUE}

Next == \E u \in Users : Enter(u) \/ Exit(u)

Spec == Init /\ [][Next]_vars
=============================================================================
