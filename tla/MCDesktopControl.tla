--------------------------- MODULE MCDesktopControl ---------------------------
(* Small instances of DesktopControl for TLC. *)
EXTENDS DesktopControl, TLC

\* Goroutines are interchangeable (safety runs only).
ClientSymmetry == Permutations(Clients)
===============================================================================
