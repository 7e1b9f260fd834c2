--------------------------- MODULE InstanceTable ---------------------------
(***************************************************************************)
(* The sandbox instance table of namespace.c: abk_instances[], an array of *)
(* ABK_SANDBOX_MAX_INSTANCES slots that is only written under              *)
(* abk_instance_mutex.  Every operator below is one locked section, or the *)
(* part of one that touches the table: it takes the table and returns a    *)
(* fact about it or the table it leaves behind.                            *)
(*                                                                         *)
(* "First match in the array" loops are FirstOf(S): the set that holds the *)
(* smallest index of S, empty when the loop would fall through.            *)
(***************************************************************************)
EXTENDS Integers, FiniteSets

CONSTANTS
    MaxInstances,   \* ABK_SANDBOX_MAX_INSTANCES
    Uid,            \* full Android UIDs (user and appId)
    Sid,            \* SELinux security identifiers of the sandbox types
    NsId,           \* private mount namespaces
    NoUid, NoSid,   \* the zero a freed slot holds
    NoNs            \* a NULL namespace_file

ASSUME TableConstants ==
    /\ MaxInstances \in Nat \ {0}
    /\ NoUid \notin Uid
    /\ NoSid \notin Sid
    /\ NoNs \notin NsId

Slot == 1..MaxInstances

\* struct abk_sandbox_instance; "mounts" says whether the array is allocated.
\* mount_count, tmpfs_bytes and the records belong to module SandboxMounts.
Instance == [allocated : BOOLEAN, ready : BOOLEAN, revoking : BOOLEAN,
             uid : Uid \cup {NoUid}, sid : Sid \cup {NoSid},
             entrants : Nat, nsfile : NsId \cup {NoNs}, mounts : BOOLEAN]

FreeInstance == [allocated |-> FALSE, ready |-> FALSE, revoking |-> FALSE,
                 uid |-> NoUid, sid |-> NoSid, entrants |-> 0,
                 nsfile |-> NoNs, mounts |-> FALSE]

EmptyTable == [s \in Slot |-> FreeInstance]

FirstOf(S) == {s \in S : \A r \in S : s <= r}

Owns(i, u) == i.allocated /\ i.uid = u

Identifies(i, u, sd) == i.allocated /\ i.uid = u /\ i.sid = sd

-----------------------------------------------------------------------------
(* Reading the table.                                                      *)

\* Mutant: the UID is not compared.
AnyReadySlot(T, u) == FirstOf({s \in Slot : T[s].allocated /\ T[s].ready})

\* abk_find_ready_locked
ReadySlot(T, u) == FirstOf({s \in Slot : Owns(T[s], u) /\ T[s].ready})

\* abk_uid_revoking_locked
UidRevoking(T, u) == \E s \in Slot : Owns(T[s], u) /\ T[s].revoking

\* abk_revoke_has_entrants
HasEntrants(T, u) == \E s \in Slot : Owns(T[s], u) /\ T[s].entrants # 0

\* abk_sandbox_identity_matches.  The code reads without the mutex; a slot
\* that names a live task keeps its uid and sid while it is allocated, so the
\* torn reads a recycled slot could give concern no live task.
IdentityMatches(T, u, sd) == \E s \in Slot : Identifies(T[s], u, sd)

\* abk_reserve_locked: a half-built slot of this identity, else a free one.
ReserveSlot(T, u, sd) ==
    LET half == {s \in Slot : /\ Identifies(T[s], u, sd)
                              /\ ~T[s].ready
                              /\ ~T[s].revoking}
    IN  IF half # {} THEN FirstOf(half)
                     ELSE FirstOf({s \in Slot : ~T[s].allocated})

-----------------------------------------------------------------------------
(* Writing the table.                                                      *)

\* entrants++ of the ready branch of abk_sandbox_join_or_create_namespace
Enter(T, s) == [T EXCEPT ![s].entrants = @ + 1]

\* abk_reserve_locked, kcalloc, the new namespace_file, entrants++ and
\* ready = true: the creating branch, all under one hold of the mutex.  A
\* half-built slot keeps its entrants, a free one starts from zero.
Establish(T, s, u, sd, n) ==
    [T EXCEPT ![s] =
        [allocated |-> TRUE, ready |-> TRUE, revoking |-> FALSE,
         uid |-> u, sid |-> sd,
         entrants |-> IF T[s].allocated THEN T[s].entrants + 1 ELSE 1,
         nsfile |-> n, mounts |-> TRUE]]

\* The creating branch when kcalloc or the namespace fails: what
\* abk_release_unready_locked leaves of the slot that was reserved (which is
\* neither ready nor revoking; a half-built one with entrants is kept).
Unreserve(T, s) ==
    IF T[s].allocated /\ T[s].entrants # 0
    THEN T
    ELSE [T EXCEPT ![s] = FreeInstance]

\* abk_sandbox_entry_complete
Complete(T, u, sd) ==
    [s \in Slot |->
        IF /\ s \in FirstOf({r \in Slot : Identifies(T[r], u, sd)})
           /\ T[s].entrants # 0
        THEN [T[s] EXCEPT !.entrants = @ - 1]
        ELSE T[s]]

\* Mutant: ready is left set.
MarkRevokingOnly(T, u) ==
    [s \in Slot |->
        IF Owns(T[s], u) THEN [T[s] EXCEPT !.revoking = TRUE] ELSE T[s]]

\* abk_mark_uid_revoking
MarkRevoking(T, u) ==
    [s \in Slot |->
        IF Owns(T[s], u) THEN [T[s] EXCEPT !.revoking = TRUE, !.ready = FALSE]
                         ELSE T[s]]

\* Mutant: the flag is cleared together with the resources.
DetachSlotClears(T, s, u) ==
    IF Owns(T[s], u)
    THEN [T EXCEPT ![s].revoking = FALSE, ![s].ready = FALSE, ![s].nsfile = NoNs]
    ELSE T

\* Mutant: the namespace file is kept.
DetachSlotKeepsFile(T, s, u) ==
    IF Owns(T[s], u)
    THEN [T EXCEPT ![s].revoking = TRUE, ![s].ready = FALSE]
    ELSE T

\* One turn of the loop of abk_revoke_detach_resources: the mutex is taken
\* and dropped for every slot.
DetachSlot(T, s, u) ==
    IF Owns(T[s], u)
    THEN [T EXCEPT ![s].revoking = TRUE, ![s].ready = FALSE, ![s].nsfile = NoNs]
    ELSE T

\* Mutant: entrants are not waited for.
ReleaseSlotsEntered(T, u) ==
    [s \in Slot |->
        IF Owns(T[s], u) /\ ~T[s].ready
        THEN [T[s] EXCEPT !.allocated = FALSE, !.revoking = FALSE, !.entrants = 0,
                          !.uid = NoUid, !.sid = NoSid, !.mounts = FALSE]
        ELSE T[s]]

\* abk_revoke_release_slots.  The namespace_file is not touched here.
ReleaseSlots(T, u) ==
    [s \in Slot |->
        IF Owns(T[s], u) /\ ~T[s].ready /\ T[s].entrants = 0
        THEN [T[s] EXCEPT !.allocated = FALSE, !.revoking = FALSE,
                          !.uid = NoUid, !.sid = NoSid, !.mounts = FALSE]
        ELSE T[s]]
=============================================================================
