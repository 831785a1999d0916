----------------------------- MODULE MCDispatch -----------------------------
(* Model checking of Dispatch: symmetry of the worker addresses. *)
EXTENDS Dispatch, TLC

WorkerSymmetry == Permutations(Workers)
=============================================================================
