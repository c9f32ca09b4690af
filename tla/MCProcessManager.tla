--------------------------- MODULE MCProcessManager ---------------------------
(* A small instance of ProcessManager for TLC. *)
EXTENDS ProcessManager, TLC

\* Runs are interchangeable.
RunSymmetry == Permutations(Runs)
===============================================================================
