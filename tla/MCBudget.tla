------------------------------ MODULE MCBudget ------------------------------
(* Small instances of Budget.tla for TLC.                                    *)
EXTENDS Budget, TLC

\* Addresses are interchangeable.
Interchangeable == Permutations(Obj)
=============================================================================
