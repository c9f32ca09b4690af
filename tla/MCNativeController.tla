------------------------- MODULE MCNativeController -------------------------
(* Small instances of NativeController for TLC. *)
EXTENDS NativeController

CONSTANT MaxEvents   \* bound: calls and troubles together

\* Acts are interchangeable.
CallSymmetry == Permutations(Acts)

\* Three calls and no trouble, or two calls and one trouble.
FewEvents == Cardinality({c \in Calls : at[c] # "idle"}) + troubles <= MaxEvents
=============================================================================
