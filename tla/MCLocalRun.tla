----------------------------- MODULE MCLocalRun -----------------------------
(* LocalRun on small instances: with two runs, the second is offered while *)
(* the first executes; with one, the retries can run out while it does.    *)
EXTENDS LocalRun, TLC

Symmetry == Permutations(Runs)
=============================================================================
