--------------------------- MODULE SandboxMounts ---------------------------
(***************************************************************************)
(* The mount accounting of one sandbox instance: the record array of       *)
(* namespace.c, the LSM and bind checks of lsm.c, and the order in which   *)
(* the patched path_mount and path_umount of the kernel call them, for     *)
(* several threads of one full UID that share the instance's namespace.    *)
(*                                                                         *)
(* One UID has one instance (SandboxSession!OneSlotPerUid), so one is      *)
(* enough here; its life is that of SandboxContract, with the marking and  *)
(* the detaching of a revocation as the two steps they are.                *)
(***************************************************************************)
EXTENDS Integers, Sequences, FiniteSets, FiniteSetsExt

CONSTANTS
    Thread,         \* threads of the UID
    Target,         \* mount points in the app's own data
    Inherited,      \* Target -> mounts stacked there in the caller's first view
    Mnt,            \* vfsmounts the sandbox can create
    Size,           \* sizes a tmpfs may ask for
    MaxMounts,      \* ABK_SANDBOX_MAX_MOUNTS
    TmpfsLimit,     \* ABK_SANDBOX_TMPFS_LIMIT
    NoThread, NoMnt,
    Regimes         \* the conditions the threads run under

InheritedMnt == UNION {{Inherited[g][i] : i \in DOMAIN Inherited[g]} : g \in Target}

ASSUME MountConstants ==
    /\ IsFiniteSet(Thread) /\ IsFiniteSet(Mnt) /\ Target # {}
    /\ Inherited \in [Target -> Seq(InheritedMnt)]
    /\ MaxMounts \in Nat \ {0}
    /\ TmpfsLimit \in Nat
    /\ Size \subseteq Nat \ {0}
    /\ NoThread \notin Thread
    /\ NoMnt \notin Mnt \cup InheritedMnt
    /\ Mnt \cap InheritedMnt = {}
    /\ Regimes \subseteq [targets : SUBSET Target, nsPathFails : BOOLEAN, shared : BOOLEAN]

VARIABLES
    phase,      \* of the instance: absent, active (ready), marked, detached
    rec,        \* instance->mounts[]
    count,      \* instance->mount_count
    bytes,      \* instance->tmpfs_bytes
    stack,      \* the mounts on each target of the namespace, top last
    msize,      \* the size a mount was created with (0 for a bind)
    op,         \* the mount or umount call a thread is in
    regime      \* targets: what is mounted on; nsPathFails: may ns_get_path
                \* fail (no memory)?  shared: may two threads be in a call on
                \* one target at the same time?

vars == <<phase, rec, count, bytes, stack, msize, op, regime>>
instVars == <<phase, rec, count, bytes>>
kernelVars == <<stack, msize>>

Rec == 1..MaxMounts
AnyMnt == Mnt \cup InheritedMnt \cup {NoMnt}
FreeRec == [state |-> "FREE", owner |-> NoThread, mnt |-> NoMnt, bytes |-> 0]

\* at: where the thread is; path: the mount its path argument pins; mnt: the
\* mount mount_result found, pinned by mntget.
Idle == [at |-> "user", kind |-> "none", target |-> CHOOSE g \in Target : TRUE,
         size |-> 0, error |-> FALSE, path |-> NoMnt, mnt |-> NoMnt]
Gone == [Idle EXCEPT !.at = "gone"]

Record == [state : {"FREE", "PENDING", "TRACKED"}, owner : Thread \cup {NoThread},
           mnt : AnyMnt, bytes : Size \cup {0}]
Call == [at : {"gone", "user", "sb", "priv", "bind", "attach", "peek", "result",
               "uvalidate", "udo", "uresult"},
         kind : {"none", "tmpfs", "bind", "umount"}, target : Target,
         size : Size \cup {0}, error : BOOLEAN, path : AnyMnt, mnt : AnyMnt]

TypeOK ==
    /\ phase \in {"absent", "active", "marked", "detached"}
    /\ rec \in [Rec -> Record]
    /\ count \in Nat /\ bytes \in Nat
    /\ stack \in [Target -> Seq(Mnt \cup InheritedMnt)]
    /\ msize \in [Mnt -> Size \cup {0}]
    /\ op \in [Thread -> Call]
    /\ regime \in Regimes

Init ==
    /\ phase = "absent"
    /\ rec = [i \in Rec |-> FreeRec]
    /\ count = 0 /\ bytes = 0
    /\ stack = Inherited
    /\ msize = [m \in Mnt |-> 0]
    /\ op = [t \in Thread |-> Gone]
    /\ regime \in Regimes

FirstOf(S) == {i \in S : \A j \in S : i <= j}

Top(g) == IF stack[g] = <<>> THEN NoMnt ELSE stack[g][Len(stack[g])]

\* The mounts of the sandbox in its namespace.
Live == {m \in Mnt : \E g \in Target : \E i \in DOMAIN stack[g] : stack[g][i] = m}

\* abk_sandbox_namespace_matches: a ready instance, and the caller in its
\* namespace, which every thread of the UID is; reading it may fail.
NsMatches == phase = "active"
NsMismatch == phase # "active" \/ regime.nsPathFails

Pinned(m) == \E t \in Thread : op[t].path = m \/ op[t].mnt = m

Tracked(m) == {i \in Rec : rec[i].state = "TRACKED" /\ rec[i].mnt = m}

Pending(t) == {i \in Rec : rec[i].state = "PENDING" /\ rec[i].owner = t}

At(t, where) == op' = [op EXCEPT ![t].at = where]
Back(t) == op' = [op EXCEPT ![t] = Idle]
Result(t, failed) ==
    op' = [op EXCEPT ![t].at = IF failed THEN "result" ELSE "peek",
                     ![t].error = failed]

-----------------------------------------------------------------------------
(* abk_sandbox_mount_reserve and abk_clear_mount_locked.                   *)

\* Mutant: the comparison adds first and forgets what is already reserved.
CanReserveAlone(n) ==
    /\ phase = "active"
    /\ count < MaxMounts
    /\ n <= TmpfsLimit
    /\ \E i \in Rec : rec[i].state = "FREE"

CanReserve(n) ==
    /\ phase = "active"
    /\ count < MaxMounts
    /\ n <= TmpfsLimit - bytes
    /\ \E i \in Rec : rec[i].state = "FREE"

Reserve(t, n) ==
    /\ CanReserve(n)
    /\ \E i \in FirstOf({j \in Rec : rec[j].state = "FREE"}) :
            rec' = [rec EXCEPT ![i] = [state |-> "PENDING", owner |-> t,
                                       mnt |-> NoMnt, bytes |-> n]]
    /\ count' = count + 1
    /\ bytes' = bytes + n
    /\ UNCHANGED phase

\* Mutant: the bytes of the record are not given back.
ClearMountBytesLeft(i) ==
    /\ rec' = [rec EXCEPT ![i] = FreeRec]
    /\ count' = IF count > 0 THEN count - 1 ELSE 0
    /\ bytes' = bytes
    /\ UNCHANGED phase

ClearMount(i) ==
    /\ rec' = [rec EXCEPT ![i] = FreeRec]
    /\ count' = IF count > 0 THEN count - 1 ELSE 0
    /\ bytes' = IF rec[i].bytes <= bytes THEN bytes - rec[i].bytes ELSE bytes
    /\ UNCHANGED phase

-----------------------------------------------------------------------------
(* The patched path_mount.                                                 *)

\* External: mount(2) resolves its target, pinning the topmost mount there.
MountCall(t, k, g, n) ==
    /\ op[t].at = "user"
    /\ k = "bind" <=> n = 0
    /\ g \in regime.targets
    /\ regime.shared \/ \A r \in Thread : op[r].at \in {"gone", "user"} \/ op[r].target # g
    /\ op' = [op EXCEPT ![t] = [Idle EXCEPT !.at = "sb", !.kind = k, !.target = g,
                                            !.size = n, !.path = Top(g)]]
    /\ UNCHANGED <<instVars, kernelVars>>

\* security_sb_mount refuses: not in the namespace, a request that
\* abk_validate_bind_request or abk_validate_tmpfs rejects, or no
\* reservation.  path_mount reports the error to mount_result.
SbMountDenied(t) ==
    /\ op[t].at = "sb"
    /\ Result(t, TRUE)
    /\ UNCHANGED <<instVars, kernelVars>>

\* A bind request in order: its reservation comes with the resolved source.
SbMountBind(t) ==
    /\ op[t].at = "sb" /\ op[t].kind = "bind"
    /\ NsMatches
    /\ At(t, "priv")
    /\ UNCHANGED <<instVars, kernelVars>>

\* A tmpfs request in order reserves its size.
SbMountTmpfs(t) ==
    /\ op[t].at = "sb" /\ op[t].kind = "tmpfs"
    /\ NsMatches
    /\ Reserve(t, op[t].size)
    /\ At(t, "priv")
    /\ UNCHANGED kernelVars

\* abk_ksu_sandbox_may_mount
MayMount(t) ==
    /\ op[t].at = "priv"
    /\ NsMatches
    /\ At(t, IF op[t].kind = "bind" THEN "bind" ELSE "attach")
    /\ UNCHANGED <<instVars, kernelVars>>

\* ... and path_mount returns -EPERM at once when it says no.
MayNotMount(t) ==
    /\ op[t].at = "priv"
    /\ NsMismatch
    /\ Back(t)
    /\ UNCHANGED <<instVars, kernelVars>>

\* do_loopback: the source does not resolve, or
\* abk_ksu_sandbox_bind_validate refuses it or finds no room.
BindDenied(t) ==
    /\ op[t].at = "bind"
    /\ Result(t, TRUE)
    /\ UNCHANGED <<instVars, kernelVars>>

BindValidate(t) ==
    /\ op[t].at = "bind"
    /\ NsMatches
    /\ Reserve(t, 0)
    /\ At(t, "attach")
    /\ UNCHANGED kernelVars

\* External: do_new_mount or do_loopback puts a new mount on top.
Attach(t) ==
    /\ op[t].at = "attach"
    /\ \E m \in Mnt \ Live :
        /\ ~Pinned(m) /\ \A i \in Rec : rec[i].mnt # m
        /\ stack' = [stack EXCEPT ![op[t].target] = Append(@, m)]
        /\ msize' = [msize EXCEPT ![m] = op[t].size]
    /\ Result(t, FALSE)
    /\ UNCHANGED instVars

AttachFails(t) ==
    /\ op[t].at = "attach"
    /\ Result(t, TRUE)
    /\ UNCHANGED <<instVars, kernelVars>>

\* Mutant: the mount the path was resolved to is taken for the new one.
FollowDownNot(t) ==
    /\ op[t].at = "peek"
    /\ op' = [op EXCEPT ![t].at = "result", ![t].mnt = op[t].path]
    /\ UNCHANGED <<instVars, kernelVars>>

\* abk_sandbox_mount_result, before the mutex: follow_down to the topmost
\* mount on the target, whoever put it there.
FollowDown(t) ==
    /\ op[t].at = "peek"
    /\ op' = [op EXCEPT ![t].at = "result", ![t].mnt = Top(op[t].target)]
    /\ UNCHANGED <<instVars, kernelVars>>

\* Mutant: a failed mount keeps its reservation.
MountResultKeeps(t) ==
    /\ op[t].at = "result"
    /\ \/ /\ phase # "active" \/ Pending(t) = {} \/ op[t].error
          /\ UNCHANGED instVars
       \/ /\ phase = "active"
          /\ ~op[t].error
          /\ \E i \in FirstOf(Pending(t)) :
                rec' = [rec EXCEPT ![i].state = "TRACKED", ![i].owner = NoThread,
                                   ![i].mnt = op[t].mnt]
          /\ UNCHANGED <<phase, count, bytes>>
    /\ Back(t)
    /\ UNCHANGED kernelVars

\* abk_sandbox_mount_result, under the mutex: the first pending record of
\* the caller is cleared or becomes the record of the mount.
MountResult(t) ==
    /\ op[t].at = "result"
    /\ \/ /\ phase # "active" \/ Pending(t) = {}
          /\ UNCHANGED instVars
       \/ /\ phase = "active"
          /\ op[t].error
          /\ \E i \in FirstOf(Pending(t)) : ClearMount(i)
       \/ /\ phase = "active"
          /\ ~op[t].error
          /\ \E i \in FirstOf(Pending(t)) :
                rec' = [rec EXCEPT ![i].state = "TRACKED", ![i].owner = NoThread,
                                   ![i].mnt = op[t].mnt]
          /\ UNCHANGED <<phase, count, bytes>>
    /\ Back(t)
    /\ UNCHANGED kernelVars

-----------------------------------------------------------------------------
(* The patched path_umount.                                                *)

\* External: umount2(2) resolves its target to the root of the topmost mount.
UmountCall(t, g) ==
    /\ op[t].at = "user"
    /\ Top(g) # NoMnt
    /\ g \in regime.targets
    /\ regime.shared \/ \A r \in Thread : op[r].at \in {"gone", "user"} \/ op[r].target # g
    /\ op' = [op EXCEPT ![t] = [Idle EXCEPT !.at = "uvalidate", !.kind = "umount",
                                            !.target = g, !.path = Top(g)]]
    /\ UNCHANGED <<instVars, kernelVars>>

\* Mutant: the record of the mount is not looked for.
UmountPermittedUntracked(t) == NsMatches

\* abk_sandbox_umount_validate, and again abk_sb_umount inside do_umount.
UmountPermitted(t) == NsMatches /\ Tracked(op[t].path) # {}

UmountValidate(t) ==
    /\ op[t].at = "uvalidate"
    /\ UmountPermitted(t)
    /\ At(t, "udo")
    /\ UNCHANGED <<instVars, kernelVars>>

\* Mutant: the record is cleared although do_umount failed.
UmountFailsCleared(t) ==
    /\ op[t].at \in {"uvalidate", "udo"}
    /\ \/ Tracked(op[t].path) = {} /\ UNCHANGED instVars
       \/ \E i \in FirstOf(Tracked(op[t].path)) : ClearMount(i)
    /\ Back(t)
    /\ UNCHANGED kernelVars

\* Validation, can_umount, security_sb_umount or do_umount fails; an error
\* makes abk_sandbox_umount_result return at once.
UmountFails(t) ==
    /\ op[t].at \in {"uvalidate", "udo"}
    /\ Back(t)
    /\ UNCHANGED <<instVars, kernelVars>>

\* External: do_umount of a mount that is attached, has nothing on top and is
\* not in use by another call.
DoUmount(t) ==
    LET g == op[t].target IN
    /\ op[t].at = "udo"
    /\ UmountPermitted(t)
    /\ Top(g) = op[t].path
    /\ \A r \in Thread \ {t} : op[r].path # op[t].path /\ op[r].mnt # op[t].path
    /\ stack' = [stack EXCEPT ![g] = SubSeq(@, 1, Len(@) - 1)]
    /\ At(t, "uresult")
    /\ UNCHANGED <<instVars, msize>>

\* abk_sandbox_umount_result: the first record of the mount is cleared.
UmountResult(t) ==
    /\ op[t].at = "uresult"
    /\ \/ /\ phase # "active" \/ Tracked(op[t].path) = {}
          /\ UNCHANGED instVars
       \/ /\ phase = "active"
          /\ \E i \in FirstOf(Tracked(op[t].path)) : ClearMount(i)
    /\ Back(t)
    /\ UNCHANGED kernelVars

-----------------------------------------------------------------------------
(* The life of the instance, as SandboxContract has it.                    *)

\* abk_reserve_locked and kcalloc: empty accounts and a copy of the caller's
\* namespace.
Open(t) ==
    /\ phase = "absent" /\ op[t].at = "gone"
    /\ phase' = "active"
    /\ rec' = [i \in Rec |-> FreeRec] /\ count' = 0 /\ bytes' = 0
    /\ stack' = Inherited
    /\ UNCHANGED msize
    /\ Back(t)

\* Another thread joins, or is forked; it may get the task_struct of one that
\* is gone.
Enter(t) ==
    /\ phase = "active" /\ op[t].at = "gone"
    /\ Back(t)
    /\ UNCHANGED <<instVars, kernelVars>>

Leave(t) ==
    /\ op[t].at = "user"
    /\ op' = [op EXCEPT ![t] = Gone]
    /\ UNCHANGED <<instVars, kernelVars>>

\* abk_mark_uid_revoking
Mark ==
    /\ phase = "active"
    /\ phase' = "marked"
    /\ UNCHANGED <<rec, count, bytes, kernelVars, op>>

\* abk_revoke_detach_resources
Detach ==
    /\ phase = "marked"
    /\ phase' = "detached"
    /\ rec' = [i \in Rec |-> FreeRec] /\ count' = 0 /\ bytes' = 0
    /\ UNCHANGED <<kernelVars, op>>

\* abk_revoke_release_slots, once no thread is left.
Close ==
    /\ phase = "detached"
    /\ \A t \in Thread : op[t].at = "gone"
    /\ phase' = "absent"
    /\ stack' = Inherited
    /\ UNCHANGED <<rec, count, bytes, msize, op>>

MountStep(t) ==
    \/ SbMountDenied(t) \/ SbMountBind(t) \/ SbMountTmpfs(t)
    \/ MayMount(t) \/ MayNotMount(t) \/ BindDenied(t) \/ BindValidate(t)
    \/ Attach(t) \/ AttachFails(t) \/ FollowDown(t) \/ MountResult(t)

UmountStep(t) ==
    UmountValidate(t) \/ UmountFails(t) \/ DoUmount(t) \/ UmountResult(t)

Step ==
    \/ \E t \in Thread : Open(t) \/ Enter(t) \/ Leave(t)
    \/ \E t \in Thread, k \in {"tmpfs", "bind"}, g \in Target, n \in Size \cup {0} :
            MountCall(t, k, g, n)
    \/ \E t \in Thread, g \in Target : UmountCall(t, g)
    \/ \E t \in Thread : MountStep(t) \/ UmountStep(t)
    \/ Mark \/ Detach \/ Close

Next == Step /\ UNCHANGED regime

Spec == Init /\ [][Next]_vars

-----------------------------------------------------------------------------
(* Properties.                                                             *)

Used == {i \in Rec : rec[i].state # "FREE"}
Bytes == [i \in Rec |-> rec[i].bytes]

SumOver(f, S) == MapThenSumSet(LAMBDA x : f[x], S)

\* The two counters agree with the records after every locked section and stay
\* within the limits; neither guard of abk_clear_mount_locked ever saturates.
AccountsExact ==
    /\ count = Cardinality(Used)
    /\ bytes = SumOver(Bytes, Used)
    /\ bytes <= TmpfsLimit

\* However mounts, failures and unmounts of several threads on one target
\* cross, and whichever mount each of them takes for its own, the namespace
\* of an active instance never holds more sandbox mounts than records.
MountsWithinLimit ==
    phase = "active" => Cardinality(Live) <= count

\* Mounts inherited from the app's view are never taken for the sandbox's own,
\* even when the mount just made is gone before follow_down looks: they stay.
InheritedNeverUnmounted ==
    \A g \in Target :
        /\ Len(stack[g]) >= Len(Inherited[g])
        /\ SubSeq(stack[g], 1, Len(Inherited[g])) = Inherited[g]

\* One call at a time on a target, and namespace lookups that do not fail.
Disciplined == ~regime.shared /\ ~regime.nsPathFails

\* With one call at a time on a target, every sandbox mount of an active
\* instance that no call is working on has one record, of its own size.
EachMountOneRecord ==
    Disciplined /\ phase = "active" =>
        \A m \in Live :
            \/ \E g \in Target : /\ Top(g) = m
                                 /\ \E t \in Thread : /\ op[t].target = g
                                                      /\ op[t].at \in {"peek", "result"}
            \/ \E i \in Rec : Tracked(m) = {i} /\ rec[i].bytes = msize[m]

\* A reservation belongs to a call in progress: without a failing namespace
\* lookup none outlives its call.
PendingHasCall ==
    ~regime.nsPathFails /\ phase = "active" =>
        \A t \in Thread : Cardinality(Pending(t)) <=
            IF op[t].at \in {"priv", "bind", "attach", "peek", "result"} THEN 1 ELSE 0

\* With one call at a time on a target, the tmpfs mounts of a full UID stay
\* within its limit.
TmpfsWithinLimit ==
    Disciplined /\ phase = "active" => SumOver(msize, Live) <= TmpfsLimit
=============================================================================
