--------------------------- MODULE MCBrowserBridge ----------------------------
(* Small instances of BrowserBridge for TLC. *)
EXTENDS BrowserBridge, TLC

\* Command ids are interchangeable (safety runs only).
CommandSymmetry == Permutations(Commands)
===============================================================================
