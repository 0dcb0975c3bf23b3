------------------------------- MODULE Leases -------------------------------
(***************************************************************************)
(* What the lock service promises of each single lock, whatever requests   *)
(* race and fail around it: it comes into force at most once, its end is   *)
(* final, and nothing is ever in force for a request that was over before. *)
(***************************************************************************)
CONSTANT Ids        \* ids of the locks that may ever be made

VARIABLE lease      \* per id: not yet in force, in force, or over

Init == lease = [l \in Ids |-> "unused"]

Grant(l) ==
    /\ lease[l] = "unused"
    /\ lease' = [lease EXCEPT ![l] = "held"]

\* The request is refused, given up or needs no lock.
Forgo(l) ==
    /\ lease[l] = "unused"
    /\ lease' = [lease EXCEPT ![l] = "over"]

\* A lock is deleted, or several expire at the same instant.
End(S) ==
    /\ \A l \in S : lease[l] = "held"
    /\ lease' = [l \in Ids |-> IF l \in S THEN "over" ELSE lease[l]]

Next ==
    \/ \E l \in Ids : Grant(l) \/ Forgo(l)
    \/ \E S \in SUBSET Ids : End(S)

Spec == Init /\ [][Next]_lease

=============================================================================
