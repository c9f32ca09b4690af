---------------------------- MODULE MCOAuthGrants ----------------------------
(* Two clients; lifetimes keep the order of the code's (code < ticket <      *)
(* access < grant), and every limit is reached.                              *)
EXTENDS OAuthGrants, TLC
CONSTANTS c1, c2
MCClients == {c1, c2}

\* Clients are interchangeable (safety only).
Symmetric == Permutations(MCClients)
=============================================================================
