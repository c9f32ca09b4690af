--------------------------- MODULE MCProcessSession ---------------------------
(* A small instance of ProcessSession for TLC. *)
EXTENDS ProcessSession

CONSTANTS Second, Third  \* the other two writers, calls of Continue

\* They differ in name only, so one of them may be taken to come first.
InOrder == caller[Third] # "idle" => caller[Second] # "idle"
===============================================================================
