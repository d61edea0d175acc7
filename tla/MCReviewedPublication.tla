------------ MODULE MCReviewedPublication ------------
EXTENDS ReviewedPublication, TLC
\* The runs are alike.
RunSymmetry == Permutations(Runs)
\* A publication touches no run in progress and no block: it is explored once all turns
\* are over and nothing is blocked.
ReviewedLater == req # <<>> => count.turns = MaxTurns /\ blocks = {} /\ \A r \in Runs : turn[r] = Idle
========================
