----------------------------- MODULE MCThreadPool -----------------------------
(* Instances of ThreadPool for TLC.                                        *)
EXTENDS ThreadPool, TLC

(* Worker threads and jobs are interchangeable in the safety runs.         *)
Symmetry == Permutations(Workers) \cup Permutations(Jobs)
=============================================================================
