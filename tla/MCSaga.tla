------------------------------- MODULE MCSaga -------------------------------
(* Instances of Saga for TLC.                                              *)
EXTENDS Saga, TLC

\* Handles are interchangeable in the safety runs.
HandleSymmetry == Permutations(Handles)
=============================================================================
