---------------------------- MODULE MCLaneScheduler ----------------------------
(* Small instances of LaneScheduler for TLC. *)
EXTENDS LaneScheduler, TLC

\* Commands on a tab are interchangeable, and so are the tabs open from the start, and
\* those that are not.
JobSymmetry == Permutations(Jobs \ OpenJobs) \cup Permutations(OldTabs)
                 \cup Permutations(Tabs \ OldTabs)
===============================================================================
