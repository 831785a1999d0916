------------------------------ MODULE Awaited -------------------------------
(***************************************************************************)
(* What a handle promises of one operation after the other: every request  *)
(* it sends to the cluster is awaited, and the operation is answered only  *)
(* when none is outstanding.  HandleOps implements it.                     *)
(***************************************************************************)
EXTENDS Integers

VARIABLES
    running,     \* an operation has begun and is not answered
    issued,      \* requests sent since it began
    outstanding  \* those of them whose result has not been taken

vars == <<running, issued, outstanding>>

Init == running = FALSE /\ issued = 0 /\ outstanding = 0

Begin ==
    /\ ~running /\ outstanding = 0
    /\ running' = TRUE /\ issued' = 0 /\ UNCHANGED outstanding

Issue ==
    /\ running
    /\ issued' > issued
    /\ outstanding' - outstanding = issued' - issued
    /\ UNCHANGED running

Await ==
    /\ running /\ outstanding > 0
    /\ outstanding' = outstanding - 1
    /\ UNCHANGED <<running, issued>>

Answer ==
    /\ running /\ outstanding = 0
    /\ running' = FALSE /\ UNCHANGED <<issued, outstanding>>

Next == Begin \/ Issue \/ Await \/ Answer

Spec == Init /\ [][Next]_vars
=============================================================================
