------------------------------- MODULE ElogMC -------------------------------
(***************************************************************************)
(* The output path on a few threads, interchangeable in the safety runs.   *)
(***************************************************************************)
EXTENDS Elog, TLC

ThreadSymmetry == Permutations(Threads)
=============================================================================
