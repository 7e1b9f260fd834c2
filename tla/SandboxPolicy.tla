--------------------------- MODULE SandboxPolicy ---------------------------
(***************************************************************************)
(* The dynamic SELinux types of policy.c.  Three writers replace the       *)
(* kernel's policy by an edited copy under selinux_state.policy_mutex:     *)
(* abk_sandbox_policy_ensure (one caller per entering app),                *)
(* apply_kernelsu_rules of KernelSU as the installer patches it, and a     *)
(* policy load.  Readers of the policy hold only the RCU read lock.        *)
(*                                                                         *)
(* A policy is abstracted to the set of sandbox type names it contains;    *)
(* the rules of a type are installed with it or not at all.                *)
(***************************************************************************)
EXTENDS Integers, FiniteSets

CONSTANTS
    AppId,          \* appIds, each with its type name
    Foreign,        \* those whose type name the base policy already has
    Ensurer,        \* threads inside abk_sandbox_policy_ensure
    Applier,        \* the thread of apply_kernelsu_rules
    Loader,         \* the thread that loads a policy
    Reader,         \* threads that compute an access decision
    Policy,         \* struct selinux_policy objects
    NoPolicy, NoApp, NoOne,
    MaxTypes        \* ABK_SANDBOX_MAX_INSTANCES, the limit on owned types

Writer == Ensurer \cup {Applier, Loader}

ASSUME PolicyConstants ==
    /\ Foreign \subseteq AppId
    /\ IsFiniteSet(AppId)
    /\ MaxTypes \in Nat
    /\ Applier # Loader /\ Applier \notin Ensurer /\ Loader \notin Ensurer
    /\ NoPolicy \notin Policy /\ NoApp \notin AppId /\ NoOne \notin Writer

VARIABLES
    policy,     \* selinux_state.policy
    types,      \* the type names in each policy object
    freed,      \* policy objects that were destroyed
    mutex,      \* holder of policy_mutex
    owned,      \* abk_owned_types
    stale,      \* history: a load has replaced the policy since the last apply
    w,          \* the writers
    reading     \* the policy object a reader holds inside its RCU section

vars == <<policy, types, freed, mutex, owned, stale, w, reading>>

\* old: the policy the copy is taken from; new: the copy; wait: the readers
\* synchronize_rcu waits for.
IdleWriter == [at |-> "idle", app |-> NoApp, old |-> NoPolicy, new |-> NoPolicy,
               wait |-> {}, result |-> "none"]

WriterState ==
    [at : {"idle", "lock", "check", "edit", "sync", "destroy"},
     app : AppId \cup {NoApp}, old : Policy \cup {NoPolicy},
     new : Policy \cup {NoPolicy}, wait : SUBSET Reader,
     result : {"none", "ok", "EEXIST", "ENOSPC", "error"}]

TypeOK ==
    /\ policy \in Policy \cup {NoPolicy}
    /\ types \in [Policy -> SUBSET AppId]
    /\ freed \subseteq Policy
    /\ mutex \in Writer \cup {NoOne}
    /\ owned \subseteq AppId
    /\ stale \in BOOLEAN
    /\ w \in [Writer -> WriterState]
    /\ reading \in [Reader -> Policy \cup {NoPolicy}]

\* No policy is loaded yet.
Init ==
    /\ policy = NoPolicy
    /\ types = [p \in Policy |-> {}]
    /\ freed = Policy
    /\ mutex = NoOne
    /\ owned = {}
    /\ stale = FALSE
    /\ w = [c \in Writer |-> IdleWriter]
    /\ reading = [r \in Reader |-> NoPolicy]

\* External: an allocation; the object is not in use by anybody.
Unused(p) ==
    /\ p \in freed
    /\ \A r \in Reader : reading[r] # p

Unlock(c, res) ==
    /\ mutex' = NoOne
    /\ w' = [w EXCEPT ![c] = [IdleWriter EXCEPT !.result = res]]

-----------------------------------------------------------------------------
(* Taking the lock.                                                        *)

\* A call with a good appId and MLS range; any other returns before the lock
\* and changes nothing.
EnsureCall(c, a) ==
    /\ w[c].at = "idle"
    /\ w' = [w EXCEPT ![c] = [IdleWriter EXCEPT !.at = "lock", !.app = a]]
    /\ UNCHANGED <<policy, types, freed, mutex, owned, stale, reading>>

\* External: apply_kernelsu_rules or a policy load is called.
OtherCall(c) ==
    /\ c \in {Applier, Loader}
    /\ w[c].at = "idle"
    /\ w' = [w EXCEPT ![c] = [IdleWriter EXCEPT !.at = "lock"]]
    /\ UNCHANGED <<policy, types, freed, mutex, owned, stale, reading>>

\* Mutant: a writer that called while the mutex was held keeps the policy it
\* saw then (the snapshot is taken before the lock).
LockStale(c) ==
    /\ w[c].at = "lock"
    /\ \/ /\ mutex # NoOne /\ w[c].old = NoPolicy /\ c = Applier
          /\ w' = [w EXCEPT ![c].old = policy]
          /\ UNCHANGED mutex
       \/ /\ mutex = NoOne
          /\ mutex' = c
          /\ w' = [w EXCEPT ![c].at = "check",
                            ![c].old = IF @ = NoPolicy THEN policy ELSE @]
    /\ UNCHANGED <<policy, types, freed, owned, stale, reading>>

\* The snapshot is taken under the lock, in apply_kernelsu_rules too since
\* patch_policy_lock_order.
Lock(c) ==
    /\ w[c].at = "lock"
    /\ mutex = NoOne
    /\ mutex' = c
    /\ w' = [w EXCEPT ![c].at = "check", ![c].old = policy]
    /\ UNCHANGED <<policy, types, freed, owned, stale, reading>>

-----------------------------------------------------------------------------
(* abk_sandbox_policy_ensure under the lock.                               *)

Exists(c) == w[c].old # NoPolicy /\ w[c].app \in types[w[c].old]

\* No policy yet (-EAGAIN), or the copy that is due cannot be made.
WriterError(c) ==
    /\ w[c].at = "check"
    /\ \/ c \notin Ensurer
       \/ w[c].old = NoPolicy
       \/ ~Exists(c) /\ Cardinality(owned) < MaxTypes
    /\ Unlock(c, "error")
    /\ UNCHANGED <<policy, types, freed, owned, stale, reading>>

\* Mutant: the mark of the module is not asked for.
EnsureExistingUnmarked(c) ==
    /\ c \in Ensurer /\ w[c].at = "check" /\ w[c].old # NoPolicy
    /\ Exists(c)
    /\ owned' = owned \cup {w[c].app}
    /\ Unlock(c, "ok")
    /\ UNCHANGED <<policy, types, freed, stale, reading>>

\* The type is there: reuse it if this module made it, else refuse.
EnsureExisting(c) ==
    /\ c \in Ensurer /\ w[c].at = "check" /\ w[c].old # NoPolicy
    /\ Exists(c)
    /\ Unlock(c, IF w[c].app \in owned THEN "ok" ELSE "EEXIST")
    /\ UNCHANGED <<policy, types, freed, owned, stale, reading>>

EnsureFull(c) ==
    /\ c \in Ensurer /\ w[c].at = "check" /\ w[c].old # NoPolicy
    /\ ~Exists(c)
    /\ Cardinality(owned) >= MaxTypes
    /\ Unlock(c, "ENOSPC")
    /\ UNCHANGED <<policy, types, freed, owned, stale, reading>>

\* Mutant: the limit is not checked.
EnsureCopyUnlimited(c) ==
    /\ c \in Ensurer /\ w[c].at = "check" /\ w[c].old # NoPolicy
    /\ ~Exists(c)
    /\ \E p \in Policy :
        /\ Unused(p)
        /\ types' = [types EXCEPT ![p] = types[w[c].old] \cup {w[c].app}]
        /\ freed' = freed \ {p}
        /\ w' = [w EXCEPT ![c].at = "edit", ![c].new = p]
    /\ UNCHANGED <<policy, mutex, owned, stale, reading>>

\* ksu_dup_sepolicy; abk_install_rules adds the type and its rules.
EnsureCopy(c) ==
    /\ c \in Ensurer /\ w[c].at = "check" /\ w[c].old # NoPolicy
    /\ ~Exists(c)
    /\ Cardinality(owned) < MaxTypes
    /\ \E p \in Policy :
        /\ Unused(p)
        /\ types' = [types EXCEPT ![p] = types[w[c].old] \cup {w[c].app}]
        /\ freed' = freed \ {p}
        /\ w' = [w EXCEPT ![c].at = "edit", ![c].new = p]
    /\ UNCHANGED <<policy, mutex, owned, stale, reading>>

-----------------------------------------------------------------------------
(* apply_kernelsu_rules and the policy load under the lock.                *)

\* abk_sandbox_policy_reapply puts every owned type, and its rules, into the
\* copy, whether the type is still there or not.
ApplyCopy(c) ==
    /\ c = Applier /\ w[c].at = "check" /\ w[c].old # NoPolicy
    /\ \E p \in Policy :
        /\ Unused(p)
        /\ types' = [types EXCEPT ![p] = types[w[c].old] \cup owned]
        /\ freed' = freed \ {p}
        /\ w' = [w EXCEPT ![c].at = "edit", ![c].new = p]
    /\ UNCHANGED <<policy, mutex, owned, stale, reading>>

\* External: a new policy is built from its file.
LoadCopy(c) ==
    /\ c = Loader /\ w[c].at = "check"
    /\ \E p \in Policy :
        /\ Unused(p)
        /\ types' = [types EXCEPT ![p] = Foreign]
        /\ freed' = freed \ {p}
        /\ w' = [w EXCEPT ![c].at = "edit", ![c].new = p]
    /\ UNCHANGED <<policy, mutex, owned, stale, reading>>

-----------------------------------------------------------------------------
(* The common end of the three.                                            *)

\* Mutant: the error path forgets the mutex.
EditFailsLocked(c) ==
    /\ w[c].at = "edit"
    /\ freed' = freed \cup {w[c].new}
    /\ w' = [w EXCEPT ![c] = [IdleWriter EXCEPT !.result = "error"]]
    /\ UNCHANGED <<policy, types, mutex, owned, stale, reading>>

\* abk_install_rules fails on one of its rules (or KernelSU's edit, or the
\* load): the copy is destroyed, the policy is untouched.
EditFails(c) ==
    /\ w[c].at = "edit"
    /\ freed' = freed \cup {w[c].new}
    /\ Unlock(c, "error")
    /\ UNCHANGED <<policy, types, owned, stale, reading>>

\* rcu_assign_pointer; synchronize_rcu starts to wait for the readers that
\* are inside their section now.
Publish(c) ==
    /\ w[c].at = "edit"
    /\ policy' = w[c].new
    /\ w' = [w EXCEPT ![c].at = "sync",
                      ![c].wait = {r \in Reader : reading[r] # NoPolicy}]
    /\ stale' = IF c = Applier THEN FALSE ELSE stale \/ (c = Loader /\ owned # {})
    /\ UNCHANGED <<types, freed, mutex, owned, reading>>

\* Mutant: the old policy is destroyed without waiting.
SynchronizeNot(c) ==
    /\ w[c].at = "sync"
    /\ w' = [w EXCEPT ![c].at = "destroy"]
    /\ UNCHANGED <<policy, types, freed, mutex, owned, stale, reading>>

Synchronize(c) ==
    /\ w[c].at = "sync"
    /\ w[c].wait = {}
    /\ w' = [w EXCEPT ![c].at = "destroy"]
    /\ UNCHANGED <<policy, types, freed, mutex, owned, stale, reading>>

\* ksu_destroy_sepolicy(old), then the bit, the AVC reset and the unlock.
Finish(c) ==
    /\ w[c].at = "destroy"
    /\ freed' = freed \cup ({w[c].old} \ {NoPolicy})
    /\ owned' = IF c \in Ensurer THEN owned \cup {w[c].app} ELSE owned
    /\ Unlock(c, "ok")
    /\ UNCHANGED <<policy, types, stale, reading>>

-----------------------------------------------------------------------------
(* External: readers.                                                      *)

ReadLock(r) ==
    /\ reading[r] = NoPolicy
    /\ policy # NoPolicy
    /\ reading' = [reading EXCEPT ![r] = policy]
    /\ UNCHANGED <<policy, types, freed, mutex, owned, stale, w>>

ReadUnlock(r) ==
    /\ reading[r] # NoPolicy
    /\ reading' = [reading EXCEPT ![r] = NoPolicy]
    /\ w' = [c \in Writer |-> [w[c] EXCEPT !.wait = @ \ {r}]]
    /\ UNCHANGED <<policy, types, freed, mutex, owned, stale>>

WriterStep(c) ==
    \/ Lock(c) \/ WriterError(c)
    \/ EnsureExisting(c) \/ EnsureFull(c) \/ EnsureCopy(c)
    \/ ApplyCopy(c) \/ LoadCopy(c)
    \/ EditFails(c) \/ Publish(c) \/ Synchronize(c) \/ Finish(c)

Next ==
    \/ \E c \in Ensurer, a \in AppId : EnsureCall(c, a)
    \/ \E c \in Writer : OtherCall(c) \/ WriterStep(c)
    \/ \E r \in Reader : ReadLock(r) \/ ReadUnlock(r)

Spec == Init /\ [][Next]_vars

\* A thread that holds the mutex, and a reader, run on; strong fairness for
\* the lock, as the waiters of a kernel mutex are served in turn.
FairSpec ==
    /\ Spec
    /\ \A c \in Writer : WF_vars(WriterStep(c)) /\ SF_vars(Lock(c))
    /\ \A r \in Reader : WF_vars(ReadUnlock(r))

-----------------------------------------------------------------------------
(* Properties.                                                             *)

\* No reader is ever inside a policy that was destroyed, whichever of the
\* three writers replaced it.
NoReadOfFreedPolicy == \A r \in Reader : reading[r] \notin freed

\* Types are not lost to a concurrent writer: whenever the mutex is free,
\* every type this module owns is in the kernel's policy, unless a policy load
\* has dropped it and apply_kernelsu_rules has not run since.
OwnedTypesPresent ==
    mutex = NoOne /\ ~stale /\ policy # NoPolicy => owned \subseteq types[policy]

\* The mark is exact: a type the module did not make is never taken for its
\* own, and between critical sections no type but the owned and the foreign
\* ones exists.
MarkExact ==
    /\ owned \cap Foreign = {}
    /\ mutex = NoOne /\ policy # NoPolicy => types[policy] \subseteq owned \cup Foreign

\* The number of types made in a boot stays within the limit, also when policy
\* loads drop types that stay marked.
OwnedWithinLimit == Cardinality(owned) <= MaxTypes

\* Every call of policy_ensure returns: the grace period is waited for under
\* the mutex, and no reader needs the mutex to finish.
EnsureReturns == \A c \in Ensurer : w[c].at = "lock" ~> w[c].at = "idle"
=============================================================================
