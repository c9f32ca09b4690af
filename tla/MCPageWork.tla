----------------------------- MODULE MCPageWork ------------------------------
(* A small instance of PageWork for TLC. *)
EXTENDS PageWork, TLC

\* Observations are interchangeable, and so are tabs that are not open yet.
PageSymmetry == Permutations(Looks) \cup Permutations(Tabs \ OldTabs)
===============================================================================
