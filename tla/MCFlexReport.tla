---------------------------- MODULE MCFlexReport ----------------------------
(* Small instances of FlexReport for TLC. *)
EXTENDS FlexReport

CONSTANTS t1, t2, a1, a2
=============================================================================
