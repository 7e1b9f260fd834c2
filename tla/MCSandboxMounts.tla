-------------------------- MODULE MCSandboxMounts --------------------------
(* Two regimes of SandboxMounts for TLC: anything goes on one target, which  *)
(* has a mount already, and disciplined threads on two.                      *)
EXTENDS SandboxMounts, TLC

CONSTANTS g1, g2, i1

OneInherited == (g1 :> <<i1>>) @@ (g2 :> <<>>)

TwoRegimes ==
    {[targets |-> {g1}, nsPathFails |-> TRUE, shared |-> TRUE],
     [targets |-> {g1, g2}, nsPathFails |-> FALSE, shared |-> FALSE]}

Symmetry == Permutations(Mnt) \cup Permutations(Thread)
=============================================================================
