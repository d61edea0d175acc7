------------ MODULE MCRunLifecycle ------------
(* Small instances of RunLifecycle for TLC. Run ids, instances and keys *)
(* are interchangeable: the specification only compares them for equality, *)
(* and orders runs by the order they started in. *)
EXTENDS RunLifecycle, TLC

Symmetry == Permutations(RunIds) \cup Permutations(Instances)
              \cup Permutations(Keys)

(* Both tiers; a store that never prunes two runs and one that keeps one. *)
MCProfiles == [executor : BOOLEAN, maxConcurrent : {2}, retention : {1, 2}]

========================
