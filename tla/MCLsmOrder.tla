----------------------------- MODULE MCLsmOrder -----------------------------
(* An instance of LsmOrder for TLC: all lists of up to MaxLen names. *)
EXTENDS LsmOrder

CONSTANTS yama, integrity

Default == <<yama, Selinux>>

\* Nothing, KernelSU, an LSM ordered last, and both.
RuntimeTails == {<<>>, <<Ksu>>, <<integrity>>, <<integrity, Ksu>>, <<Ksu, integrity>>}
=============================================================================
