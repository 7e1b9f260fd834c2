------------------------- MODULE MCSandboxSession -------------------------
(***************************************************************************)
(* Instances of SandboxSession for TLC.  The two UIDs are one app of two   *)
(* Android users: same appId and level, hence the same SID.                *)
(***************************************************************************)
EXTENDS SandboxSession, TLC

CONSTANTS t1, t2, t3, u1, u2, sd1, sd2

\* Two threads of one UID at one level.
OneUid == (t1 :> u1) @@ (t2 :> u1)
OneSid == (t1 :> sd1) @@ (t2 :> sd1)

\* A third thread of the UID at another level, and so with another SID.
OneUidTwoLevels == (t1 :> u1) @@ (t2 :> u1) @@ (t3 :> u1)
TwoLevels == (t1 :> sd1) @@ (t2 :> sd1) @@ (t3 :> sd2)

\* Two threads of u1 and one of u2, all with the same SID.
TwoUids == (t1 :> u1) @@ (t2 :> u1) @@ (t3 :> u2)
SameSid == (t1 :> sd1) @@ (t2 :> sd1) @@ (t3 :> sd1)

\* One thread of each UID, with the same SID.
CrossUid == (t1 :> u1) @@ (t3 :> u2)
CrossSid == (t1 :> sd1) @@ (t3 :> sd1)

NsSymmetry == Permutations(NsId)
NsWorkSymmetry == Permutations(NsId) \cup Permutations(Work)
=============================================================================
