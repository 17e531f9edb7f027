-------------------------------- MODULE Gate --------------------------------
(***************************************************************************)
(* What the concurrency limit of a chur server promises: no more than      *)
(* MaxConcurrent requests are worked on at the same time, and a request    *)
(* that left does not come back, but for another one under its name.       *)
(***************************************************************************)
EXTENDS Naturals, FiniteSets

CONSTANTS Requests, MaxConcurrent

VARIABLES inside,   \* the requests that are worked on
          left      \* the requests that were

vars == <<inside, left>>

Init == inside = {} /\ left = {}

Enter(r) == /\ r \notin inside \cup left
            /\ Cardinality(inside) < MaxConcurrent
            /\ inside' = inside \cup {r}
            /\ UNCHANGED left

Leave(r) == /\ r \in inside
            /\ inside' = inside \ {r}
            /\ left' = left \cup {r}

Next == \E r \in Requests : Enter(r) \/ Leave(r)

Spec == Init /\ [][Next]_vars

\* With requests without end: one that left is forgotten, and another takes its name.
Forget(r) == /\ r \in left
             /\ left' = left \ {r}
             /\ UNCHANGED inside

Endless     == Next \/ \E r \in Requests : Forget(r)
EndlessSpec == Init /\ [][Endless]_vars
=============================================================================
