---------------------------- MODULE MCRetention ----------------------------
(* Small instances of Retention for TLC. *)
EXTENDS Retention, TLC

RowSymmetry == Permutations(CountableRows)
=============================================================================
