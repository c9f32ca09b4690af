----------------------------- MODULE MCFileCommit -----------------------------
(* A small instance of FileCommit for TLC: three names lead to one file, and  *)
(* commitIdentity takes two of them for the same.                             *)
EXTENDS FileCommit

CONSTANTS plain, alias, short

OnePlain == [p \in Paths |-> IF p = alias THEN plain ELSE p]
OneFile  == [p \in Paths |-> "file"]
===============================================================================
