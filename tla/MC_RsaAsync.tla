---------------------------- MODULE MC_RsaAsync ----------------------------
(* Instantiates RsaAsync for TLC: jobs are model values.                  *)
EXTENDS RsaAsync, TLC

CONSTANTS j1, j2, j3

\* Three jobs for the safety runs, checked up to renaming of jobs.
ThreeJobs == {j1, j2, j3}

JobSymmetry == Permutations(ThreeJobs)

\* Two jobs for the liveness runs (symmetry is not used with liveness).
TwoJobs == {j1, j2}

\* A single job, for runs where no other request may complete it early.
OneJob == {j1}
=============================================================================
