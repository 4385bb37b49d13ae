----------------------------- MODULE MCJobQueue -----------------------------
(* Small instances of JobQueue for TLC. *)
EXTENDS JobQueue

CONSTANTS w1, w2, p1, sync, junk

OneWorker == {w1}
TwoWorkers == {w1, w2}
OneProducer == {p1}
MCTypes == {sync, junk}
MCSupported == {sync}
=============================================================================
