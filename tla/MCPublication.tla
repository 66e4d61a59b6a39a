----------------------------- MODULE MCPublication -----------------------------
(* Small instances of Publication for TLC.                                 *)
EXTENDS Publication, TLC

CONSTANTS p1, p2, w1, w2

OneProcess == [w \in Workers |-> p1]
TwoProcesses == w1 :> p1 @@ w2 :> p2

HashSymmetry == Permutations(Hashes)

=============================================================================
