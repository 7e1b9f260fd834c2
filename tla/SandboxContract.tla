-------------------------- MODULE SandboxContract --------------------------
(***************************************************************************)
(* What the instance table and the revocation promise a UID, without slots,*)
(* counters, scans or requests.  A UID's sandbox is absent, active or      *)
(* closing.  Tasks come in only while it is active (or are born inside);   *)
(* revoking closes the door; the sandbox is gone only once the last member *)
(* has left, and only then can a new one be opened.                        *)
(***************************************************************************)
CONSTANTS Task, Uid, UidOf

VARIABLES
    phase,      \* of the sandbox of each UID
    members     \* tasks inside a sandbox, or on their way in

Init ==
    /\ phase = [u \in Uid |-> "absent"]
    /\ members = {}

MembersOf(u) == {t \in members : UidOf[t] = u}

\* The first task of a UID creates its sandbox and is in it.
Open(t) ==
    /\ phase[UidOf[t]] = "absent"
    /\ MembersOf(UidOf[t]) = {}
    /\ phase' = [phase EXCEPT ![UidOf[t]] = "active"]
    /\ members' = members \cup {t}

Enter(t) ==
    /\ phase[UidOf[t]] = "active"
    /\ t \notin members
    /\ members' = members \cup {t}
    /\ UNCHANGED phase

\* A member's child is a member, also while the sandbox is closing.
Inherit(t, c) ==
    /\ t \in members /\ c \notin members
    /\ UidOf[c] = UidOf[t]
    /\ members' = members \cup {c}
    /\ UNCHANGED phase

Leave(t) ==
    /\ t \in members
    /\ members' = members \ {t}
    /\ UNCHANGED phase

Revoke(u) ==
    /\ phase[u] = "active"
    /\ phase' = [phase EXCEPT ![u] = "closing"]
    /\ UNCHANGED members

Close(u) ==
    /\ phase[u] = "closing"
    /\ MembersOf(u) = {}
    /\ phase' = [phase EXCEPT ![u] = "absent"]
    /\ UNCHANGED members

Next ==
    \/ \E t \in Task : Open(t) \/ Enter(t) \/ Leave(t)
    \/ \E t, c \in Task : Inherit(t, c)
    \/ \E u \in Uid : Revoke(u) \/ Close(u)

Spec == Init /\ [][Next]_<<phase, members>>
=============================================================================
