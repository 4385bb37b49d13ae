---------------------------- MODULE MCOrderQueue ----------------------------
(* Small instances of OrderQueue for TLC. *)
EXTENDS OrderQueue, TLC

CONSTANTS o1, o2, o3, w1, w2, c1, s1

LocalAndManual == {o1, o2}
ManualOnly == {o2}
LegacyOnly == {o3}
LocalAndLegacy == {o1, o3}

\* No guard reads an event, a time stamp or the history, and no property of the
\* run with this view reads one it leaves out.
WithoutTheRecord == <<status, claims, broker, cancelling, worker, sync>>
WithoutHistory == <<status, broker, cancelling, worker, sync>>

\* The two workers are interchangeable.
WorkerSymmetry == Permutations({w1, w2})
=============================================================================
