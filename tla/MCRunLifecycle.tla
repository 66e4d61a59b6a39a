---------------------------- MODULE MCRunLifecycle ----------------------------
(* Small instances of RunLifecycle for TLC.                                *)
EXTENDS RunLifecycle, TLC

RunAndProcessSymmetry == Permutations(Runs) \cup Permutations(Processes)

(* A bound for the larger instances: no more requests are under way than   *)
(* there are run identifiers left to create.                               *)
RequestsWithinRuns ==
  Cardinality({p \in Processes : submission[p].pc = "sweep"})
    <= Cardinality({r \in Runs : status[r] = "absent"})

=============================================================================
