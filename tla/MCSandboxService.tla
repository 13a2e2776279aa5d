------------------------- MODULE MCSandboxService -------------------------
(* Instances of SandboxService for TLC. *)
EXTENDS SandboxService, TLC

CONSTANTS i1, r1, r2, r3, r4, r5

Symmetry == Permutations({r1, r2, r3, r4, r5})
=============================================================================
