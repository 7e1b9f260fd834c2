------------------------- MODULE MCSandboxMediation -------------------------
(* Two tasks of one app and one of another.                                *)
EXTENDS SandboxMediation, TLC

CONSTANTS t1, t2, t3, u1, u2, s1, s2

MCUidOf == [t \in {t1, t2, t3} |-> IF t = t3 THEN u2 ELSE u1]
MCSidOf == [t \in {t1, t2, t3} |-> IF t = t3 THEN s2 ELSE s1]
MCSymmetry == Permutations({t1, t2})
MCSocket == {[family |-> "unix", type |-> "stream", protocol |-> "none"],
             [family |-> "inet", type |-> "dgram", protocol |-> "tcp"],
             [family |-> "inet", type |-> "raw", protocol |-> "none"]}
=============================================================================
