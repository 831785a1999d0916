------------------------------- MODULE OpLoop -------------------------------
(***************************************************************************)
(* What the control thread may count on of the loop of one operation: how  *)
(* it treats the cancel flag, and that it ends.  It is the seam between    *)
(* Dispatch, which knows of an operation only this, and HandleOps, which   *)
(* works the loops out; each of them implements it.                        *)
(***************************************************************************)

VARIABLES
    op,    \* the loop that runs, or Idle
    flag,  \* do_cancel
    gone   \* the process has ended

vars == <<op, flag, gone>>

(* A loop:
     resets  it clears the flag when it starts
     ends    what ends it: "cancel" (the flag), "exhausted" (it has an end
             of its own), "failure" (a request that fails)                  *)
Loops == [resets : BOOLEAN, ends : SUBSET {"cancel", "exhausted", "failure"}]
Idle == [resets |-> FALSE, ends |-> {}]
Running == op # Idle

Init == op = Idle /\ flag \in BOOLEAN /\ gone = FALSE

\* The flag of a handle that runs nothing: it is new, or cancelled.
Rest == ~Running /\ flag' \in BOOLEAN /\ UNCHANGED <<op, gone>>

Start(o) ==
    /\ ~Running /\ ~gone
    /\ op' = o /\ flag' = (flag /\ ~o.resets)
    /\ UNCHANGED gone

\* While the loop runs its flag is set and never cleared.
Cancel == Running /\ flag' = TRUE /\ UNCHANGED <<op, gone>>

\* What it cannot put off for ever.
Due == "exhausted" \in op.ends \/ ("cancel" \in op.ends /\ flag)

End ==
    /\ Running /\ (Due \/ "failure" \in op.ends)
    /\ op' = Idle /\ UNCHANGED <<flag, gone>>

Dies == gone' = TRUE /\ op' = Idle /\ UNCHANGED flag

Next == Rest \/ (\E o \in Loops \ {Idle} : Start(o)) \/ Cancel \/ End \/ Dies

Safe == Init /\ [][Next]_vars

Progress == (Running /\ Due) ~> ~Running

Spec == Safe /\ Progress
=============================================================================
