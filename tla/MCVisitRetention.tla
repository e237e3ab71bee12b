------------------------- MODULE MCVisitRetention -------------------------
(* Small instances of the resolver with the retention job.                 *)
EXTENDS VisitRetention, TLC

\* Sparse times: two far starts, and times near each of them.
MCTimes == {0, 1, 3, 4, 6, 14}

MCCutoffs == {6, 15}

VisitSymmetry == Permutations(VisitIds)
=============================================================================
