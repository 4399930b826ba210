----------------------------- MODULE MCRunLease -----------------------------
(* RunLease on a small instance: one requested run, one run id left for a  *)
(* recovery, two Runner sessions, two results and two protocol calls.      *)
EXTENDS RunLease, TLC

Symmetry == Permutations(Sessions) \cup Permutations(Completions)
              \cup Permutations(Slots)

=============================================================================
