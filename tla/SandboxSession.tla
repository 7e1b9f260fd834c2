--------------------------- MODULE SandboxSession ---------------------------
(***************************************************************************)
(* Entry into the sandbox (abk_sandbox_try_escape, core.c, with the        *)
(* join-or-create step of namespace.c) against the asynchronous revocation *)
(* of a UID (abk_sandbox_revoke_uid_async and its delayed work), as the    *)
(* tasks of several apps, KernelSU's allowlist callers and the workqueue   *)
(* interleave.                                                             *)
(*                                                                         *)
(* A step is one hold of abk_instance_mutex, one lockless read or write of *)
(* something another actor can see (a credential, a namespace, a task      *)
(* scan), or a step of KernelSU or the kernel (marked external).           *)
(***************************************************************************)
EXTENDS InstanceTable

CONSTANTS
    Task,           \* threads of the apps
    UidOf, SidOf,   \* the full UID of a task, the SID its entry would get
    Work,           \* struct abk_revoke_work requests that can be in flight
    MaxRetries,     \* ABK_REVOKE_RETRIES
    AppNs,          \* the mount namespace an app starts in
    Overlap,        \* may a UID be revoked again while a request is in flight?
    RestoreFails    \* may moving a failed caller back to its namespace fail?

ASSUME SessionConstants ==
    /\ IsFiniteSet(Task)
    /\ UidOf \in [Task -> Uid]
    /\ SidOf \in [Task -> Sid]
    /\ MaxRetries \in Nat
    /\ AppNs \notin NsId /\ AppNs # NoNs
    /\ Overlap \in BOOLEAN
    /\ RestoreFails \in BOOLEAN

VARIABLES
    tbl,        \* abk_instances[]
    pc,         \* where a task is in abk_sandbox_try_escape
    ns,         \* the mount namespace of a task
    file,       \* the namespace file a joining task got a reference to
    killed,     \* tasks with SIGKILL pending
    allowed,    \* KernelSU's allowlist
    rv,         \* the allowlist caller inside the revocation hook of a UID
    wk,         \* revocation requests on system_unbound_wq
    retained    \* history: UIDs whose last request gave their slots up

vars == <<tbl, pc, ns, file, killed, allowed, rv, wk, retained>>

taskVars == <<pc, ns, file, killed>>
revokeVars == <<allowed, rv, wk, retained>>

Steps == {"app", "granted", "joining", "entered", "committed", "in"}

Caller == [at : {"idle", "mark", "queue", "detach", "kill", "remove"},
           prune : BOOLEAN, scan : Slot]

Request == [pc : {"free", "detach", "entrants", "kill", "release"},
            uid : Uid \cup {NoUid}, scan : Slot, retries : 0..MaxRetries]

IdleCaller == [at |-> "idle", prune |-> FALSE, scan |-> 1]

FreeRequest == [pc |-> "free", uid |-> NoUid, scan |-> 1, retries |-> 0]

TypeOK ==
    /\ tbl \in [Slot -> Instance]
    /\ pc \in [Task -> Steps]
    /\ ns \in [Task -> NsId \cup {AppNs}]
    /\ file \in [Task -> NsId \cup {NoNs}]
    /\ killed \subseteq Task
    /\ allowed \in [Uid -> BOOLEAN]
    /\ rv \in [Uid -> Caller]
    /\ wk \in [Work -> Request]
    /\ retained \subseteq Uid

Init ==
    /\ tbl = EmptyTable
    /\ pc = [t \in Task |-> "app"]
    /\ ns = [t \in Task |-> AppNs]
    /\ file = [t \in Task |-> NoNs]
    /\ killed = {}
    /\ allowed = [u \in Uid |-> FALSE]
    /\ rv = [u \in Uid |-> IdleCaller]
    /\ wk = [w \in Work |-> FreeRequest]
    /\ retained = {}

\* The task carries the sandbox credential (commit_creds has run).
Sandboxed(t) == pc[t] \in {"committed", "in"}

\* The task is counted in the entrants of its slot.
Entering(t) == pc[t] \in {"joining", "entered", "committed"}

\* A mount namespace nobody refers to yet: what ksys_unshare returns.
FreshNs ==
    {n \in NsId : /\ \A t \in Task : ns[t] # n /\ file[t] # n
                  /\ \A s \in Slot : tbl[s].nsfile # n}

-----------------------------------------------------------------------------
(* abk_sandbox_try_escape, step by step.                                   *)

\* KernelSU (external) reads its allowlist and calls escape_with_root_profile,
\* which the installer makes call abk_sandbox_try_escape first.
Authorize(t) ==
    /\ pc[t] = "app"
    /\ allowed[UidOf[t]]
    /\ pc' = [pc EXCEPT ![t] = "granted"]
    /\ UNCHANGED <<tbl, ns, file, killed, revokeVars>>

\* Everything that leaves abk_sandbox_try_escape before the table is looked
\* at: the manager, an appId out of range and an ineligible context (not
\* handled: KernelSU's own path, outside this model), and the denials for a
\* context error, an inactive LSM, a permissive kernel, the policy, the SID,
\* prepare_creds and groups_alloc.
EscapeReturns(t) ==
    /\ pc[t] = "granted"
    /\ pc' = [pc EXCEPT ![t] = "app"]
    /\ UNCHANGED <<tbl, ns, file, killed, revokeVars>>

\* A ready slot of the UID with another SID, or one being revoked
\* (-EKEYREJECTED): no change to the table.
JoinRejected(t) ==
    /\ pc[t] = "granted"
    /\ \E s \in ReadySlot(tbl, UidOf[t]) :
            tbl[s].sid # SidOf[t] \/ tbl[s].revoking
    /\ pc' = [pc EXCEPT ![t] = "app"]
    /\ UNCHANGED <<tbl, ns, file, killed, revokeVars>>

\* A ready slot of this identity: count the entrant and take a reference to
\* its namespace file; the mutex is dropped before the file is used.
JoinReady(t) ==
    /\ pc[t] = "granted"
    /\ \E s \in ReadySlot(tbl, UidOf[t]) :
        /\ tbl[s].sid = SidOf[t]
        /\ ~tbl[s].revoking
        /\ tbl' = Enter(tbl, s)
        /\ file' = [file EXCEPT ![t] = tbl[s].nsfile]
    /\ pc' = [pc EXCEPT ![t] = "joining"]
    /\ UNCHANGED <<ns, killed, revokeVars>>

\* Mutant: the file is looked up again after the mutex was dropped.
JoinNamespaceLate(t) ==
    /\ pc[t] = "joining"
    /\ \E s \in Slot : /\ Identifies(tbl[s], UidOf[t], SidOf[t])
                       /\ ns' = [ns EXCEPT ![t] = tbl[s].nsfile]
    /\ file' = [file EXCEPT ![t] = NoNs]
    /\ pc' = [pc EXCEPT ![t] = "entered"]
    /\ UNCHANGED <<tbl, killed, revokeVars>>

\* abk_join_namespace_file succeeds.
JoinNamespace(t) ==
    /\ pc[t] = "joining"
    /\ ns' = [ns EXCEPT ![t] = file[t]]
    /\ file' = [file EXCEPT ![t] = NoNs]
    /\ pc' = [pc EXCEPT ![t] = "entered"]
    /\ UNCHANGED <<tbl, killed, revokeVars>>

\* abk_join_namespace_file fails: the entry is completed and denied.
JoinFails(t) ==
    /\ pc[t] = "joining"
    /\ tbl' = Complete(tbl, UidOf[t], SidOf[t])
    /\ file' = [file EXCEPT ![t] = NoNs]
    /\ pc' = [pc EXCEPT ![t] = "app"]
    /\ UNCHANGED <<ns, killed, revokeVars>>

\* Mutant: the check for a revocation in progress is missing.
MayCreateWhileRevoking(t) ==
    /\ pc[t] = "granted"
    /\ ReadySlot(tbl, UidOf[t]) = {}

\* No ready slot.
MayCreate(t) ==
    /\ pc[t] = "granted"
    /\ ReadySlot(tbl, UidOf[t]) = {}
    /\ ~UidRevoking(tbl, UidOf[t])

\* A slot of the UID is being revoked (-EKEYREVOKED), or none is free
\* (-ENOSPC).
CreateDenied(t) ==
    /\ pc[t] = "granted"
    /\ ReadySlot(tbl, UidOf[t]) = {}
    /\ \/ UidRevoking(tbl, UidOf[t])
       \/ ReserveSlot(tbl, UidOf[t], SidOf[t]) = {}
    /\ pc' = [pc EXCEPT ![t] = "app"]
    /\ UNCHANGED <<tbl, ns, file, killed, revokeVars>>

\* The slot is reserved, its mount array allocated and the private namespace
\* made while the mutex is held; the task is in it when the mutex is dropped.
CreateNamespace(t) ==
    /\ MayCreate(t)
    /\ \E s \in ReserveSlot(tbl, UidOf[t], SidOf[t]), n \in FreshNs :
        /\ tbl' = Establish(tbl, s, UidOf[t], SidOf[t], n)
        /\ ns' = [ns EXCEPT ![t] = n]
    /\ pc' = [pc EXCEPT ![t] = "entered"]
    /\ UNCHANGED <<file, killed, revokeVars>>

\* Mutant: a failure after ksys_unshare does not move the caller back.
CreateFailsInPlace(t) ==
    /\ MayCreate(t)
    /\ \E s \in ReserveSlot(tbl, UidOf[t], SidOf[t]) :
            tbl' = Unreserve(tbl, s)
    /\ \E n \in FreshNs : ns' = [ns EXCEPT ![t] = n]
    /\ pc' = [pc EXCEPT ![t] = "app"]
    /\ UNCHANGED <<file, killed, revokeVars>>

\* kcalloc or abk_create_private_namespace fails.  A caller that was already
\* moved is moved back, and stays in the new namespace if that fails too.
CreateFails(t) ==
    /\ MayCreate(t)
    /\ \E s \in ReserveSlot(tbl, UidOf[t], SidOf[t]) :
            tbl' = Unreserve(tbl, s)
    /\ \/ UNCHANGED ns
       \/ /\ RestoreFails
          /\ \E n \in FreshNs : ns' = [ns EXCEPT ![t] = n]
    /\ pc' = [pc EXCEPT ![t] = "app"]
    /\ UNCHANGED <<file, killed, revokeVars>>

\* commit_creds: from here on the task is recognised by its credential.
CommitCreds(t) ==
    /\ pc[t] = "entered"
    /\ pc' = [pc EXCEPT ![t] = "committed"]
    /\ UNCHANGED <<tbl, ns, file, killed, revokeVars>>

\* abk_sandbox_entry_complete at the end of a successful entry.
EntryComplete(t) ==
    /\ pc[t] = "committed"
    /\ tbl' = Complete(tbl, UidOf[t], SidOf[t])
    /\ pc' = [pc EXCEPT ![t] = "in"]
    /\ UNCHANGED <<ns, file, killed, revokeVars>>

-----------------------------------------------------------------------------
(* External: the life of a task.                                           *)

\* A sandboxed task forks: the child has its credential and its namespace.
\* The kernel fails a fork of a task with a pending SIGKILL.
Fork(t, c) ==
    /\ pc[t] = "in" /\ t \notin killed
    /\ pc[c] = "app" /\ ns[c] = AppNs
    /\ UidOf[c] = UidOf[t] /\ SidOf[c] = SidOf[t]
    /\ pc' = [pc EXCEPT ![c] = "in"]
    /\ ns' = [ns EXCEPT ![c] = ns[t]]
    /\ UNCHANGED <<tbl, file, killed, revokeVars>>

\* A task in user mode exits, of itself or by SIGKILL, and another process of
\* its app takes its place.
Exit(t) ==
    /\ pc[t] \in {"app", "in"}
    /\ pc[t] = "in" \/ ns[t] # AppNs
    /\ pc' = [pc EXCEPT ![t] = "app"]
    /\ ns' = [ns EXCEPT ![t] = AppNs]
    /\ killed' = killed \ {t}
    /\ UNCHANGED <<tbl, file, revokeVars>>

-----------------------------------------------------------------------------
(* KernelSU's allowlist and the hooks the installer puts into it.          *)

\* May another revocation of the UID start?  One caller per UID is inside the
\* hook at a time; with Overlap a request of an earlier one may be in flight.
MayRevoke(u) ==
    /\ rv[u].at = "idle"
    /\ Overlap \/ \A w \in Work : wk[w].uid # u

\* ksu_set_app_profile with allow_su: the hook does nothing.
ProfileAllow(u) ==
    /\ rv[u].at = "idle"
    /\ ~allowed[u]
    /\ allowed' = [allowed EXCEPT ![u] = TRUE]
    /\ UNCHANGED <<tbl, taskVars, rv, wk, retained>>

\* ksu_set_app_profile without allow_su: the profile is stored, then the hook
\* calls abk_sandbox_revoke_uid_async.
ProfileDeny(u) ==
    /\ MayRevoke(u)
    /\ allowed' = [allowed EXCEPT ![u] = FALSE]
    /\ rv' = [rv EXCEPT ![u] = [IdleCaller EXCEPT !.at = "mark"]]
    /\ UNCHANGED <<tbl, taskVars, wk, retained>>

\* ksu_prune_allowlist finds the app gone: the hook runs before the entry is
\* unlinked.
PruneBegin(u) ==
    /\ MayRevoke(u)
    /\ rv' = [rv EXCEPT ![u] = [IdleCaller EXCEPT !.at = "mark", !.prune = TRUE]]
    /\ UNCHANGED <<tbl, taskVars, allowed, wk, retained>>

\* Where the caller continues when the hook returns.
HookReturns(u) ==
    rv' = [rv EXCEPT ![u] = IF rv[u].prune
                            THEN [IdleCaller EXCEPT !.at = "remove", !.prune = TRUE]
                            ELSE IdleCaller]

\* hlist_del_rcu of the pruned entry.
PruneRemove(u) ==
    /\ rv[u].at = "remove"
    /\ allowed' = [allowed EXCEPT ![u] = FALSE]
    /\ rv' = [rv EXCEPT ![u] = IdleCaller]
    /\ UNCHANGED <<tbl, taskVars, wk, retained>>

-----------------------------------------------------------------------------
(* abk_sandbox_revoke_uid_async and abk_revoke_worker.                     *)

\* abk_mark_uid_revoking
RevokeMark(u) ==
    /\ rv[u].at = "mark"
    /\ tbl' = MarkRevoking(tbl, u)
    /\ rv' = [rv EXCEPT ![u].at = "queue"]
    /\ UNCHANGED <<taskVars, allowed, wk, retained>>

\* kzalloc succeeds and the request is queued without delay.
RevokeQueue(u) ==
    /\ rv[u].at = "queue"
    /\ \E w \in Work :
        /\ wk[w].pc = "free"
        /\ wk' = [wk EXCEPT ![w] =
                    [pc |-> "detach", uid |-> u, scan |-> 1, retries |-> 0]]
    /\ HookReturns(u)
    /\ retained' = retained \ {u}
    /\ UNCHANGED <<tbl, taskVars, allowed>>

\* kzalloc fails: the caller detaches and kills, and keeps the slots.
RevokeNoMemory(u) ==
    /\ rv[u].at = "queue"
    /\ rv' = [rv EXCEPT ![u].at = "detach"]
    /\ retained' = retained \cup {u}
    /\ UNCHANGED <<tbl, taskVars, allowed, wk>>

CallerDetach(u) ==
    /\ rv[u].at = "detach"
    /\ tbl' = DetachSlot(tbl, rv[u].scan, u)
    /\ rv' = [rv EXCEPT ![u] = IF rv[u].scan < MaxInstances
                               THEN [rv[u] EXCEPT !.scan = @ + 1]
                               ELSE [rv[u] EXCEPT !.at = "kill"]]
    /\ UNCHANGED <<taskVars, allowed, wk, retained>>

\* Mutant: the scan asks for a usable slot, which a revoked one never is.
VictimsOfReady(u) ==
    {t \in Task : /\ Sandboxed(t)
                  /\ UidOf[t] = u
                  /\ ReadySlot(tbl, u) # {}}

\* The tasks abk_kill_instance_tasks signals: live, with the credential of
\* this UID, and with a SID the table still knows.
Victims(u) ==
    {t \in Task : /\ Sandboxed(t)
                  /\ UidOf[t] = u
                  /\ IdentityMatches(tbl, u, SidOf[t])}

CallerKill(u) ==
    /\ rv[u].at = "kill"
    /\ killed' = killed \cup Victims(u)
    /\ HookReturns(u)
    /\ UNCHANGED <<tbl, pc, ns, file, allowed, wk, retained>>

\* Mutant: the request is dropped instead of queued again.
WorkerDrops(w) ==
    /\ wk[w].retries < MaxRetries
    /\ wk' = [wk EXCEPT ![w] = FreeRequest]
    /\ UNCHANGED retained

\* The worker queues itself again after a delay, or gives up when the
\* retries are used and leaves the slots as they are.
WorkerRetry(w) ==
    /\ wk[w].retries < MaxRetries
    /\ wk' = [wk EXCEPT ![w] = [wk[w] EXCEPT !.pc = "detach", !.scan = 1,
                                             !.retries = @ + 1]]
    /\ UNCHANGED retained

WorkerGivesUp(w) ==
    /\ wk[w].retries = MaxRetries
    /\ wk' = [wk EXCEPT ![w] = FreeRequest]
    /\ retained' = retained \cup {wk[w].uid}

WorkerDetach(w) ==
    /\ wk[w].pc = "detach"
    /\ tbl' = DetachSlot(tbl, wk[w].scan, wk[w].uid)
    /\ wk' = [wk EXCEPT ![w] = IF wk[w].scan < MaxInstances
                               THEN [wk[w] EXCEPT !.scan = @ + 1]
                               ELSE [wk[w] EXCEPT !.pc = "entrants"]]
    /\ UNCHANGED <<taskVars, allowed, rv, retained>>

\* abk_revoke_has_entrants; with entrants nobody is killed in this round.
WorkerEntrants(w) ==
    /\ wk[w].pc = "entrants"
    /\ \/ /\ HasEntrants(tbl, wk[w].uid)
          /\ WorkerRetry(w) \/ WorkerGivesUp(w)
       \/ /\ ~HasEntrants(tbl, wk[w].uid)
          /\ wk' = [wk EXCEPT ![w].pc = "kill"]
          /\ UNCHANGED retained
    /\ UNCHANGED <<tbl, taskVars, allowed, rv>>

\* Mutant: the slots are released in the round that sends the signals.
WorkerKillAndRelease(w) ==
    /\ wk[w].pc = "kill"
    /\ killed' = killed \cup Victims(wk[w].uid)
    /\ wk' = [wk EXCEPT ![w].pc = "release"]
    /\ UNCHANGED <<tbl, pc, ns, file, allowed, rv, retained>>

\* abk_kill_instance_tasks; one round must find nobody before the release.
WorkerKill(w) ==
    /\ wk[w].pc = "kill"
    /\ killed' = killed \cup Victims(wk[w].uid)
    /\ \/ /\ Victims(wk[w].uid) # {}
          /\ WorkerRetry(w) \/ WorkerGivesUp(w)
       \/ /\ Victims(wk[w].uid) = {}
          /\ wk' = [wk EXCEPT ![w].pc = "release"]
          /\ UNCHANGED retained
    /\ UNCHANGED <<tbl, pc, ns, file, allowed, rv>>

WorkerRelease(w) ==
    /\ wk[w].pc = "release"
    /\ tbl' = ReleaseSlots(tbl, wk[w].uid)
    /\ wk' = [wk EXCEPT ![w] = FreeRequest]
    /\ UNCHANGED <<taskVars, allowed, rv, retained>>

-----------------------------------------------------------------------------
EntryStep(t) ==
    \/ EscapeReturns(t) \/ JoinRejected(t) \/ JoinReady(t)
    \/ JoinNamespace(t) \/ JoinFails(t)
    \/ CreateDenied(t) \/ CreateNamespace(t) \/ CreateFails(t)
    \/ CommitCreds(t) \/ EntryComplete(t)

CallerStep(u) ==
    \/ RevokeMark(u) \/ RevokeQueue(u) \/ RevokeNoMemory(u)
    \/ CallerDetach(u) \/ CallerKill(u) \/ PruneRemove(u)

WorkerStep(w) ==
    WorkerDetach(w) \/ WorkerEntrants(w) \/ WorkerKill(w) \/ WorkerRelease(w)

Next ==
    \/ \E t \in Task : Authorize(t) \/ EntryStep(t) \/ Exit(t)
    \/ \E t, c \in Task : Fork(t, c)
    \/ \E u \in Uid : ProfileAllow(u) \/ ProfileDeny(u) \/ PruneBegin(u)
    \/ \E u \in Uid : CallerStep(u)
    \/ \E w \in Work : WorkerStep(w)

Spec == Init /\ [][Next]_vars

\* Fairness the kernel gives: a task inside the entry path runs on, a task
\* with SIGKILL pending dies when it leaves the kernel, the caller of the
\* hook runs on and a queued request is executed.  Nothing is assumed of the
\* apps, of the manager or of which of its outcomes a call has.
Fairness ==
    /\ \A t \in Task : WF_vars(EntryStep(t))
    /\ \A t \in Task : WF_vars(t \in killed /\ Exit(t))
    /\ \A u \in Uid : WF_vars(CallerStep(u))
    /\ \A w \in Work : WF_vars(WorkerStep(w))

FairSpec == Spec /\ Fairness

-----------------------------------------------------------------------------
(* Safety, for every interleaving.                                         *)

\* A full UID never has two instances, whatever joins, creations, failures
\* and revocations overlap: the "first match" loops of namespace.c and the
\* single counter of entrants are only right if this holds.
OneSlotPerUid ==
    \A r, s \in Slot :
        tbl[r].allocated /\ tbl[s].allocated /\ tbl[r].uid = tbl[s].uid => r = s

\* Whenever the mutex is free an allocated slot is either usable (ready, with
\* its namespace file and its mount array) or being revoked, never both and
\* never neither; a free slot is neither and counts nobody.  The half-built
\* slot that abk_reserve_locked looks for is never left behind by a failure.
SlotLifecycle ==
    \A s \in Slot :
        /\ tbl[s].allocated =>
             /\ tbl[s].ready = ~tbl[s].revoking
             /\ tbl[s].ready => tbl[s].nsfile # NoNs
             /\ tbl[s].mounts
             /\ tbl[s].uid \in Uid /\ tbl[s].sid \in Sid
        /\ ~tbl[s].allocated =>
             ~tbl[s].ready /\ ~tbl[s].revoking /\ tbl[s].entrants = 0

\* The tasks between entrants++ and abk_sandbox_entry_complete for a slot.
Entrants(s) ==
    {t \in Task : Entering(t) /\ UidOf[t] = tbl[s].uid /\ SidOf[t] = tbl[s].sid}

\* The entrant counter is exact and the slot of a task inside the entry path
\* is not freed under it: "unmatched entry completion" is never logged and no
\* completion decrements the counter of a recycled slot.
EntrantsExact ==
    /\ \A s \in Slot : tbl[s].allocated => tbl[s].entrants = Cardinality(Entrants(s))
    /\ \A t \in Task : Entering(t) => IdentityMatches(tbl, UidOf[t], SidOf[t])

\* A slot under revocation is never handed out again: until it is freed it
\* stays revoking and not ready, whoever enters, completes or retries.
RevokingUntilFreed ==
    [][\A s \in Slot : tbl[s].revoking =>
            (tbl'[s].revoking /\ ~tbl'[s].ready) \/ ~tbl'[s].allocated]_vars

-----------------------------------------------------------------------------
(* Safety that needs revocations of one UID not to overlap.                *)

\* A live task with the sandbox credential is recognised by
\* abk_sandbox_current and by the kill scan: its slot is retained.
IdentityRetained ==
    \A t \in Task : Sandboxed(t) => IdentityMatches(tbl, UidOf[t], SidOf[t])

\* The live sandbox tasks of a full UID share one private mount namespace,
\* also when a join crosses a revocation, and never one with another UID.
OneNamespacePerUid ==
    \A t, r \in Task : Sandboxed(t) /\ Sandboxed(r) =>
        /\ ns[t] # AppNs
        /\ ns[t] = ns[r] <=> UidOf[t] = UidOf[r]

\* abk_revoke_release_slots frees a slot only after its namespace file was
\* put: no reference is left in a free slot for the next reservation to lose.
FreedSlotHoldsNothing ==
    \A s \in Slot : ~tbl[s].allocated => tbl[s].nsfile = NoNs /\ ~tbl[s].mounts

\* An entry that was denied, at any point, leaves the caller in the mount
\* namespace it came from.
DeniedRollsBack ==
    \A t \in Task : pc[t] \in {"app", "granted", "joining"} => ns[t] = AppNs

\* The promise of module SandboxContract, with the phase of a UID read off its
\* slot and the members the tasks the table answers for.
Contract == INSTANCE SandboxContract WITH
    phase <- [u \in Uid |-> IF \E s \in Slot : Owns(tbl[s], u) /\ tbl[s].ready
                            THEN "active"
                            ELSE IF UidRevoking(tbl, u) THEN "closing" ELSE "absent"],
    members <- {t \in Task : Entering(t) \/ Sandboxed(t)}

\* Entry and revocation implement SandboxContract: nobody is admitted once the
\* revocation has begun, and a sandbox is not forgotten, nor a second one
\* opened for the UID, while a task of the first is left.
ImplementsContract == Contract!Spec

-----------------------------------------------------------------------------
(* What the documentation says of revocation.                              *)

InFlight(u) == rv[u].at # "idle" \/ \E w \in Work : wk[w].uid = u

\* "Revoking KSU authorization terminates sandbox processes for that full
\* UID": once a UID is off the allowlist and its revocation has run to the
\* end without giving up, no sandbox task of it is left.
RevokedUidHasNoTask ==
    \A u \in Uid :
        ~allowed[u] /\ ~InFlight(u) /\ u \notin retained =>
            \A t \in Task : Sandboxed(t) => UidOf[t] # u

-----------------------------------------------------------------------------
(* Liveness.                                                               *)

\* A revocation ends: the slots of the UID are freed, or the code has said
\* that it retains them (retries used up, or no memory for the request).
RevocationEnds ==
    \A u \in Uid : UidRevoking(tbl, u) ~> (~UidRevoking(tbl, u) \/ u \in retained)

\* A task caught by a revocation, even one still inside the entry path, is
\* gone in the end unless the code has said that it gives up.
RevokedTaskDies ==
    \A t \in Task :
        (UidRevoking(tbl, UidOf[t]) /\ (Sandboxed(t) \/ Entering(t)))
            ~> (pc[t] = "app" \/ UidOf[t] \in retained)
=============================================================================
