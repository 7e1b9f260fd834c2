-------------------------- MODULE MCSandboxPolicy --------------------------
(* Instances of SandboxPolicy for TLC. *)
EXTENDS SandboxPolicy
=============================================================================
