# Verification of the ABK KSU Sandbox

TLA+ models of the sandbox module for KernelSU: what its kernel code and its
installer do, checked with TLC on small instances and, for every safety
property, proved with TLAPS for every size. `PROJECT.json` maps every definition
to the lines of the source it stands for.

## 1. The system

| Component | Source | State | Operations |
|---|---|---|---|
| Sandbox entry | `core.c` | credential and mount namespace of the caller | `abk_sandbox_try_escape` and its steps |
| Instance table | `namespace.c` 34-336 | `abk_instances[]`: flags, UID, SID, entrants, namespace file, mount array | find, reserve, join or create, complete, release unready |
| Revocation | `namespace.c` 567-729, hooks in KernelSU's allowlist | delayed work requests (UID, retries) | mark, queue, detach, kill, retry, give up, release |
| Mount mediation | `namespace.c` 338-565, `lsm.c` 108-341, patched `path_mount`/`path_umount` | mount records, `mount_count`, `tmpfs_bytes` | reserve, validate, result, track, clear |
| Dynamic policy | `policy.c`, patched `apply_kernelsu_rules` | the kernel's policy, `abk_owned_types` | ensure, reapply, publish under RCU |
| LSM order | `lsm_order.h`, `lsm.c` 524-581, `libabk.sh`, `validate_defconfig` | `CONFIG_LSM`, `lsm_names`, `abk_lsm_ready` | enable, validate, finalize |
| Process mediation | `lsm.c` 48-106, 343-521, `core.c` 106-135 | none of its own; reads the table without the mutex | ptrace, signal, socket, seccomp, set\*id hooks, the three hooks of an execve |
| Installer | `scripts/install.py`, `setup.sh` | files and directories of the kernel tree, the transaction's copies | discover, install (29 steps), verify, rollback |
| C scanners of the installer | `install.py` 387-564, 785-848 | none | mask dead code, find a scope, pick a branch, evaluate a condition |
| Smoke-test apps | `test-apps/` | one probe run | launch, timeout, cleanup |

How they interact. KernelSU's `escape_with_root_profile` calls
`abk_sandbox_try_escape`, which asks the policy for a type, then the instance
table for a namespace, then commits the credential. From then on every hook
recognises the task by `abk_sandbox_current`: its credential must match a slot
of the table. KernelSU's allowlist calls `abk_sandbox_revoke_uid_async`, whose
worker runs against all of these. The LSM order decides at boot whether any
entry is allowed. The installer writes the calls into the kernel source, so the
order in which the hooks run is its doing.

What is hard here, and what makes each part correct:

* **Entry against revocation.** Tasks of one UID, allowlist callers and workers
  interleave between holds of `abk_instance_mutex`. A UID must never have two
  instances; a slot under revocation must never be handed out; the slot of a
  live task must stay, because the task is recognised only by it; a revocation
  must end and must kill a task that was in the middle of its entry.
* **Failure paths.** Creation, joining, restoring the caller's namespace,
  allocating the request: each can fail half way.
* **Mount accounting.** The check and the reservation precede the mount, the
  record is completed after it, and threads of one UID share a namespace: limits
  must hold, records must belong to their mounts, inherited mounts must stay.
* **Policy.** Three writers replace one pointer under a mutex while readers
  hold only RCU; no type may be lost, no freed policy read.
* **LSM order.** A shell function, a Python check and a C scanner must agree
  about every list.
* **Mediation.** A hook decides on a credential and on a table that others
  write under a mutex the hook does not take; an exec asks three times. A
  sandboxed task must never get another credential, and the answers must be
  those of an undivided look at the table.
* **Installation.** Over twenty writes into a tree that is not the installer's
  own. A failure at any of them must leave the tree as it was; a kill must leave
  one that the next run completes or refuses; what verify accepts must have
  every hook, whatever was edited in between.

## 2. Modules

| Module | Models | Used by |
|---|---|---|
| `InstanceTable` | the table and every locked section on it, as operators | `SandboxSession` |
| `SandboxSession` | entry and revocation as one state machine | |
| `SandboxContract` | abstract: a UID's sandbox is absent, active or closing, with members | refined by `SandboxSession` |
| `SandboxMounts` | mount accounting of one instance under its threads | |
| `SandboxPolicy` | the writers and readers of the SELinux policy | |
| `LsmOrder` | `CONFIG_LSM` from defconfig to `abk_lsm_ready` | |
| `SandboxMediation` | the hooks that judge a credential, with the table read load by load and written store by store | |
| `InstallTransaction` | `class InstallTransaction`: copies, writes, rollback, faults; an abstract specification `TxSpec` of any installer that uses it | `Installer` |
| `SourcePatches` | what each patch function makes of its file | `Installer` |
| `Installer` | discovery, install, verify and the tree between runs | refines `TxSpec` |
| `CSource` | the scanners the installer reads C with | |
| `MC*` | TLC instances | |
| `*_proofs` | the theorems about the module of that name; those about `InstanceTable` are in `SandboxSession_proofs`, those about `InstallTransaction` in `Installer_proofs` | |
| `LoopTheorems` | lemmas on a loop written as a recursive function of the number of items it has seen | `LsmOrder_proofs`, `CSource_proofs` |

Definitions whose comment starts with "Mutant" are wrong on purpose: each is a
plausible slip in the definition that follows it, used to confirm that a
property notices.

### SandboxSession

State: `tbl` is `abk_instances[]`; `pc[t]` is where a task is in
`abk_sandbox_try_escape` (`granted`: authorised and on its way to the table;
`joining`: counted as entrant with a reference to the namespace file, mutex
dropped; `entered`: in the namespace; `committed`: credential committed; `in`:
returned); `ns` and `file` its namespace and the file it holds; `killed` the
pending SIGKILLs; `allowed` KernelSU's allowlist; `rv[u]` the allowlist caller
inside the hook; `wk` the requests; `retained` records the UIDs for which the
code logged that it keeps the slots.

A step is one hold of the mutex, or one access to what another actor can see.
Creation is one step because the mutex is held over all of it; detaching is one
step per slot because the mutex is dropped between slots; the kill scan is one
step (it holds the RCU read lock and asks the table without the mutex).

| Action | Code |
|---|---|
| `Authorize` | KernelSU's decision, then the hook `patch_escape` installs |
| `EscapeReturns` | every return before the table: manager, appId, context, LSM inactive, permissive, policy, SID, credential |
| `JoinRejected`, `JoinReady`, `JoinNamespace`, `JoinFails` | the ready branch of `abk_sandbox_join_or_create_namespace` |
| `CreateDenied`, `CreateNamespace`, `CreateFails` | its creating branch with `abk_create_private_namespace` |
| `CommitCreds`, `EntryComplete` | the end of the entry |
| `ProfileAllow`, `ProfileDeny`, `PruneBegin`, `PruneRemove` | the allowlist calls the hooks are in |
| `RevokeMark`, `RevokeQueue`, `RevokeNoMemory`, `CallerDetach`, `CallerKill` | `abk_sandbox_revoke_uid_async` |
| `WorkerDetach`, `WorkerEntrants`, `WorkerKill`, `WorkerRelease` (with `WorkerRetry`, `WorkerGivesUp`) | `abk_revoke_worker` |
| `Fork`, `Exit` | external: the kernel |

Two switches restrict the environment, never the code: `Overlap` (may a UID be
revoked again while a request for it is in flight?) and `RestoreFails` (may
moving a failed caller back fail?). With both on, the table properties hold;
`IdentityRetained`, `ImplementsContract` and `OneNamespacePerUid` are stated for
`Overlap = FALSE`, and section 5 shows why.

### SandboxMounts

One instance (one UID has one, by `OneSlotPerUid`), its records and counters,
the stacks of mounts on each target, and the call each thread is in, in the
order the patched functions make their calls: `security_sb_mount` (tmpfs
reserves here), `abk_ksu_sandbox_may_mount`, for a bind
`abk_ksu_sandbox_bind_validate` (binds reserve here), the kernel's mount,
`follow_down` without the mutex, `mount_result` under it. The life of the
instance is that of the contract. Path checks and the tmpfs option parser decide
on the request alone and are abstracted to "may refuse". A behaviour runs in one
of the `Regimes` of its conditions, chosen at the start: which targets are
mounted on, whether two threads may be in a call on one target at once
(`shared`), whether the namespace lookup may fail (`nsPathFails`). Unmounting is external and taken to succeed for an attached mount with
nothing on top that no other call pins; whether the reference a record holds
makes the kernel answer EBUSY cannot be seen from this repository, and
`test-apps/README.md:66` expects the umount to work.

### SandboxPolicy

Writers: `abk_sandbox_policy_ensure` for entering apps, `apply_kernelsu_rules`
as patched, and a policy load (external). A policy object is the set of sandbox
types it has; the rules of a type are installed with it or the copy is
discarded. RCU is modelled by the readers `synchronize_rcu` waits for.

### LsmOrder

Names are model values, a list is a sequence of them, the empty name stands for
adjacent commas. A malformed assignment or a bad character makes
`abk_enable_lsm` stop before anything modelled here and is left out.
The loop of `abk_enable_lsm` and the C loop behind `OrderIsSafe` are recursive
functions of the number of names seen.

### SandboxMediation

State: `slot` is `abk_instances[]` with the fields a reader loads; `mutex` says
what the holder of the mutex has begun to write, so that a reservation
(`Reserve`, `Store` of uid, of sid, `PublishReserved`) and a release (`Store`s,
`PublishReleased`) are seen half done; `cred` the credentials; `rev` one
revocation per UID (mark, detach unless there are entrants, scan task by task,
again or give up, release only if nobody was alive); `call` the hook a task is
in. `LoadAllocated`, `LoadUid` and `LoadSid` are the three loads of
`abk_sandbox_identity_matches`, in its order. The exec hooks are
`CredsForExec`, `CheckSecurity` and `CommittingCreds`, with what the kernel does
between them (`Prepared`, `FromFile`: the setuid owner, file capabilities, a
domain transition) external and unrestrained. `SetIds` proposes any IDs the
kernel would let through.

Abstractions. What a call asks for is chosen where the hook looks at it. The
kill scan visits only tasks of the UID: a task of another UID fails the first
comparison. Tasks of different UIDs have different SIDs, because
the context of the sandbox keeps the caller's MLS range (`core.c:225`), which
Android makes different per user; `session_two_uids` checks the table without this. The kill
itself is left out (`Exit` may happen at any time): what matters here are the
tasks that are still alive. `task_fix_setgroups` is left out: the
kernel asks it only after `CAP_SETGID`, which no sandboxed task has.

### InstallTransaction, SourcePatches, Installer

A path holds a text, nothing, a text cut short (`Torn`), a link or a directory.
A step of `InstallTransaction` is one call of `write`, `remove_file` or
`record_directory` with its `mkdir`, or one turn of a loop of `_rollback`; each
can fail half way with whatever the system call leaves behind. `Kill` ends the
process between two steps, `KillInWrite` inside one; an interrupt during
`_rollback`, which catches only `OSError`, has the effect of `Kill`. `Meddle` and
`Litter` are other programs.

`SourcePatches` abstracts the text of a C file to the include of the sandbox
header and one `Condition` for each place a hook goes: bare, hooked, an older
form, edited, doubled, only in dead code, anchor missing or there twice, a
foreign call. `ExactInjectionInstalled` says which of them each hook's arguments
tell apart (its calls counted in the file, its anchor forbidden, the include
counted). Each patch function is an operator; `PatchAllowlist` and `UpgradeBind`
are the ones that differ from the common form.

`Installer` runs `Program`, the steps of `install` in order. `Patched` gives the
new text of a step's file or an error. `Verifies` is `verify`:
`validate_patch_sources` runs the same patch functions with writing forbidden,
then the needles are looked for. Between runs the tree is built, edited
(`Tamper`), reconfigured and restored. A file cut short is restored from version
control before the next run: what a run makes of it depends on where it was cut,
which this abstraction does not have. Faults and edits are taken one kind at a
time (an edit uses the bound of faults up).

### CSource

A text is a sequence of lines, expression tokens or code tokens, with comments
and literals already masked. `Scanned`, `ExtractBranch`, `IntegerTruth` and
`ScopeBounds` follow the loops of the code, each a recursive function of the part
of the text it has read; the properties compare each with a
definition that does not scan: which lines some preprocessor outcome keeps,
which block owns the anchor, what the expression is worth. `Next` grows the text
by one token, so TLC visits all texts up to the bound.

## 3. Runs

| Run | Shows |
|---|---|
| `session_overlap` | three threads of a UID at two levels, overlapping revocations, failing restores: `OneSlotPerUid`, `SlotLifecycle`, `EntrantsExact`, `RevokingUntilFreed` |
| `session_serial` | the same without overlap, under fairness: `IdentityRetained`, `FreedSlotHoldsNothing`, `DeniedRollsBack`; `ImplementsContract` (`SandboxSession` implements `SandboxContract`); `RevocationEnds`, `RevokedTaskDies` |
| `session_two_uids` | one app of two Android users with the same SID: `OneNamespacePerUid` |
| `mounts` | two threads, in both regimes: `AccountsExact`, `MountsWithinLimit`, `InheritedNeverUnmounted` whatever the order of calls; `EachMountOneRecord`, `TmpfsWithinLimit` with one call at a time per target; `PendingHasCall` with working lookups |
| `policy_writers` | `NoReadOfFreedPolicy`, `OwnedTypesPresent`, `MarkExact`, `OwnedWithinLimit`; under fairness `EnsureReturns` |
| `lsm_order` | `EnabledValidates`, `EnableIdempotent`, `ReadyMeansLast` |
| `mediation` | three tasks of two apps: `SandboxKept` (no exec, set\*id or revocation gives a sandboxed task another credential), `MediationExact` (the verdict of a hook is the one an undivided look would give) |
| `installer` | three trees, up to two faults: `ChangedHasBackup`, `RollbackRestores` (the transaction), `ImplementsTransaction` (every step of the installer is one of the transaction), `InstalledVerifies`, `VerifiedMeansComplete`, `AcceptedTreeUnchanged`, `NoStaleObject` |
| `c_source` | `MaskExact`, `RefusedExact`, `TruthExact`, `BranchExact`, `ScopeExact` |

The runs `doc_*` are in section 5.

Bounds, and why they are enough. Two slots are one more than a UID should ever
have, so a second instance would be seen, and a free slot remains beside a
revoking one. Two tasks of one identity make a join cross another entry; the
third, with another SID, exercises the rejection and the mixed table; it also
makes forking into a fresh task possible while the others move. Two requests
are what an overlap needs. `MaxRetries` is 0 where overlap matters (each retry
only repeats the round) and 1 where retrying does. `NsId` has one namespace
per slot and one more, so a recycled slot can get a different one. Mounts: three
mounts, two records and a tmpfs limit of 3 with sizes 1 and 2 put both
limits within reach together. Policy: three policy objects (old, new, one held
by a reader), a limit below the number of appIds, and one caller of
`policy_ensure`: it keeps nothing between calls, so one that calls again and
again with any app stands for several that wait for the mutex. Mediation: two
slots and two UIDs make a slot change its owner under a reader, a second task of
one UID is what a peer check needs; one hook call is in flight at a time
(`MaxCalls`), since a hook writes nothing another hook reads but the credential
of its own task, and an exec or set\*id leaves that of a sandboxed task as it is
(`SandboxKept`); a target may exit, fork, enter or be revoked meanwhile. Installer: an original tree, an old
installation that was built, and a newer one with the include in another place,
over three variants and kernels, take every branch of the patch functions; two
faults are a failure and a failing restore, or a kill and a failure in the run
after it. C source: six lines hold a conditional nested in another with `#elif`
and `#else`, seven expression tokens a negation in two pairs of parentheses,
eight code tokens a prototype, a function and a nested block. LSM: every list up
to four names over six, longer than any pattern the scanner looks at. Namespaces,
requests, threads, mounts and apps are symmetric where a run says so; no
liveness run uses symmetry. `lsm_order` does not check deadlock: after boot, or
after `abk_die`, nothing follows; nor does `c_source`, where a text at the bound
cannot grow.

Fairness. `session_serial` assumes weak fairness for a task inside the entry path
(kernel code runs on), for the death of a task with SIGKILL pending, for the
caller of the hook and for a queued request. It assumes nothing of apps, of the
manager, or of which outcome a call has. The worker may still give up: the
properties allow exactly the UIDs the code logs as retained. `policy_writers` adds
strong fairness for the policy mutex, whose waiters the kernel serves in turn,
and that a reader leaves its RCU section.

## 4. Proofs

Each theorem is of the form `Spec => []P` (or `Spec => P` for an action property
and a refinement), where `P` is a property of a run, and holds for every value of
the constants that meets the named assumptions: any number of slots, tasks, UIDs,
requests, mounts, policies, files, directories, faults. TLC evaluates the
assumptions in every run. They say what makes the constants usable at all (null
values are no values, tasks and apps are finitely many, there is a slot), and
otherwise: `MediationConstants`, that a SID belongs to one UID (section 2);
`OrderConstants`, that the names the code compares with differ and a list of
runtime LSMs has no empty name; `TransactionConstants`, that `Above` is a
directory with its ancestors; `InstallerConstants`, that the trees an
installation may start from hold files the patch functions can read and no stale
object file; `TreesUnedited`, that in these trees nobody else calls the functions
of the hooks, `allowlist.c` has both hooks or neither (one write puts both in),
and a Kbuild file without our block has no damaged one. Only
`InstallationVerifies` uses the last, and section 5 shows why it needs it.

| Module | Theorems |
|---|---|
| `SandboxSession_proofs` | `TypeCorrect`, `OneInstance`: `OneSlotPerUid`, `SlotsSettled`: `SlotLifecycle`, `NeverRevived`: `RevokingUntilFreed`, `CounterExact`: `EntrantsExact`; for `~Overlap`: `TaskStaysRecognised`: `IdentityRetained`, `FreedSlotsEmpty`: `FreedSlotHoldsNothing`, `NamespacesApart`: `OneNamespacePerUid`, `SessionRefinesContract`: `ImplementsContract`; for `~RestoreFails`: `DenialRollsBack`: `DeniedRollsBack` |
| `SandboxMediation_proofs` | `CredentialKept`: `SandboxKept`, `HooksExact`: `MediationExact` |
| `SandboxMounts_proofs` | `MountsAccounted`: `AccountsExact`, `MountsLimited`: `MountsWithinLimit`, `InheritedStay`: `InheritedNeverUnmounted`, `ReservationsReturned`: `PendingHasCall`, `MountsRecorded`: `EachMountOneRecord`, `TmpfsLimited`: `TmpfsWithinLimit` |
| `SandboxPolicy_proofs` | `ReadersSafe`: `NoReadOfFreedPolicy`, `TypesNotLost`: `OwnedTypesPresent`, `MarkIsExact`: `MarkExact`, `TypesLimited`: `OwnedWithinLimit` |
| `LsmOrder_proofs` | `EnabledAccepted`: `EnabledValidates`, `EnableAgain`: `EnableIdempotent`, `ReadyExact`: `ReadyMeansLast` |
| `Installer_proofs` | `ChangesCanBeUndone`: `ChangedHasBackup`, `RollbackIsComplete`: `RollbackRestores`, both of any user of the transaction; `InstallerRefinesTransaction`: `ImplementsTransaction`, and by it `InstallCanBeUndone` and `InstallRollsBack`; `VerifyIsSound`: `VerifiedMeansComplete`, `RerunChangesNothing`: `AcceptedTreeUnchanged`, `ObjectNeverStale`: `NoStaleObject`, `InstallationVerifies`: `InstalledVerifies` |
| `CSource_proofs` | `MasksRight`: `MaskExact`, `RefusesRight`: `RefusedExact`, `BranchesRight`: `BranchExact`, `TruthsRight`: `TruthExact`, `ScopesRight`: `ScopeExact` |

`~Overlap` and `~RestoreFails` are the conditions under which the runs check
these properties too; section 5 shows what happens without them.

None of the properties is inductive alone. The invariants that are, and why:

**The table** (`IInv`). A joining task gets a namespace only because the slot it
came from had a namespace file, which a ready slot has only while the slot life
cycle holds; a new instance is the only one of its UID because every other slot
of the UID would be ready or revoking, which is the life cycle again. `IInv`
joins `TypeOK`, `GoodTable` (life cycle and one slot per UID), `JoiningHasFile`
and `BusyHasUid`. Of each operation of the table it is shown first that it keeps
`GoodTable` and never revives a revoking slot. `FirstOfNonempty` (a
search loop finds what there is) rests on the well-foundedness of the natural
numbers.

**Who is inside.** `Exact` is the entrant counter, stated for a table and a set of
tasks: an operation that lowers a counter finds the slot of its task because a
UID has one slot, and `abk_revoke_release_slots` frees no slot a task still needs
because the counter it looks at is exact. With revocations one after the other,
`SerialInv` adds what a request knows at each of its steps: the slots it has
passed are detached (`Detached`), nobody is entering them after it has seen no
entrants and nobody is in them after a kill that found nobody alive (`Quiet`), so
a slot is freed only when it recognises nobody (`Recognised`). `OneSeat` says
that the namespaces of tasks and of slots belong to one UID each. The refinement
maps a UID to *active* while it has a slot that is ready, to *closing* while its
slot is revoked; `ContractStep` goes through the actions.

**Mediation** (`MedInv`). Every task in the sandbox or on its way in has a home: a
slot that names its sandbox and is not being cleared. Its home stays while it is
there (`HomesStay`). The hard step is `Release`: the worker has seen no entrants
and then looked at the tasks one by one while others forked, exited and entered
(`ScanQuiet`), and the entrant counter is exact (`CountExact`); `LockState` says
what a half written slot looks like. A scan for the identity of such a task has
not passed its home (`Finds`), so it can only end there with *yes*; a scan for
anyone else is over before it begins, because the shape of the credential
already differs. The credentials an exec or a set\*id is about to commit
(`ArgExact`) are then the one the task has.

**Mounts.** Threads on one target may record each other's mounts, so the limit
does not follow mount by mount. What is kept is a balance for every set of
targets: mounts there plus unmounts not yet accounted for are as many as records
of mounts made there plus mounts not yet accounted for (`Balanced`), together
with `OnePlace`, `InheritedBelow` and a record for every reservation. With one
call at a time on a target (`OneCallEach`) the mount a call finds is its own:
`OwnRecords` says that the top of the target of a call that has mounted is its
fresh mount, with the size it has reserved, and that every other sandbox mount
has one record of its size. The byte account is a sum over the records; a sum is
the number of its units (`Units`), so what adding or clearing a record does to it
is a fact about the size of finite sets.

**LSM order** (`Chain`). What each stage hands to the next: the list written, the
list accepted, the list the kernel scans. A loop is a recursive function of the
number of names seen; `LoopTheorems` shows that such a function exists and that
it goes through its turns, and gives the induction. The turns keep what the names
seen so far say: which of them are kept (`Taken`), whether the scanner is still
content, what it has seen and whether the last one was the sandbox (`Tells`).

**C source.** The scanner for dead code keeps a stack, the reference counts
lines. `Opening` ties them together by the list of the conditionals that are open
(`Lists`): the k-th entry tells of the k-th of them whether the code around it can
be kept and whether one of its branches certainly is (`Tells`). `Follows` says
the same of the one conditional that `extract_resukisu_modern_lsm_branch` reads.
`preprocessor_integer_truth` is a recursion over shorter expressions: the
function exists because its values up to one length determine those of the next
(`UpToLength`). Of the braces, the place in the stack is the depth of a block
(`Stacked`), and of two blocks that overlap one lies in the other, so that the
first that opens around the anchor is the function. The invariant itself only
says that the text is one (`TextOK`): these theorems are about operators, for
texts of any length.

**Policy** (`PolicyInv`). What a writer has read and copied under the mutex is not
changed until it unlocks (`OneHolder`, `Snapshot`), the readers of the old policy
are the ones `synchronize_rcu` waits for (`Grace`), and a copy differs from the
policy by what its writer adds (`Contents`).

**Installation.** `TxInv`: a file without a copy has not been touched, a copy is
the original, and the parents of every recorded path are on the list of
directories a rollback may remove. `InstInv` adds that every file holds a text of
its kind, so that each patch makes a text of a text: the refinement then goes
through the steps. `Accepted` and `Rerun` keep the last word of `verify` and show
that no step finds anything to do in an accepted tree. `ObjectInv` is about
order: the object file is removed before its first source is written and, the log
being undone from its end, comes back after the last of them. `OutcomeInv` says
what the steps taken so far have done (`Done`): a patch leaves its hook in a
condition that passes the check (`PatchPutsIn`), for the hooks of
`patch_kernel_hooks` because the include was put in one step earlier
(`IncludeComesFirst`), and no later step of the program undoes it (`StepOrder`,
`LaterKeeps`). No run that was killed or rolled back leaves an edited text
(`UneditedTree`), so the next one starts from the same ground.

Only model-checked are `RevocationEnds`, `RevokedTaskDies` and `EnsureReturns`:
liveness under fairness is out of the prover's reach. Inductions over data are
stated of a set, the numbers for which what is to be shown is true (`UpTo`), since
the library's theorems about operators cannot be used with the provers at hand.

## 5. Where code and documentation differ

Each has a run in which TLC finds the behaviour; `PROJECT.json` quotes the line.

1. `doc_identity_overlap`: with two requests of one UID in flight, an older
   worker that has finished its scan can release the slot of a newer instance
   that was marked meanwhile and whose task is alive; the task is then no longer
   recognised. Serial revocations are free of it (`session_serial`).
2. `doc_revoked_no_task`: authorisation is not read again under the mutex, so
   an entry authorised before can create its instance after the revocation.
3. `doc_partial_install`: `patch_allowlist` takes either of its two markers for
   an installed file and ignores what `exact_injection_installed` answers: with
   the revoke hook in place and the prune hook gone, install ends well without
   putting it back. `verify` refuses the tree afterwards.

Smaller ones follow from a few lines and have no run. A queued request
takes down whatever instance the UID has when it runs, also one made after the
UID was authorised again ("Otherwise an instance lives until reboot",
`docs/design.md:94`). A caller whose creation failed after `ksys_unshare` stays
in the new namespace if moving it back fails too (`namespace.c:246`, against
"rolls back", `docs/design.md:92`); `RestoreFails` models it. Threads mounting
on one target at once can swap records, after which the byte account no longer
covers what is mounted: `TmpfsWithinLimit` is stated for one call at a time.
Between a policy load and the next application of the rules, an existing type
is refused at the limit (`policy.c:288`). `InstallTransaction.__exit__` deletes
the copies also when the rollback has failed, so a file that could not be put
back is then only in version control. A foreign call of a hook's function next
to an untouched anchor does not stop `install` (the counts are compared only
where the marker is found), and `verify` then refuses its result:
`InstalledVerifies` is stated for trees nobody edited.

A reservation can also outlive its call: when the namespace lookup of
`abk_ksu_sandbox_may_mount` fails after `security_sb_mount` has reserved,
`path_mount` returns without `mount_result`. `PendingHasCall` is therefore
checked with working lookups; the other regime shows that the accounts stay exact
and within limits all the same.

## 6. Not modelled

* Contents of credentials, SELinux rules, MLS parsing, tmpfs options, path
  labels: decided within one call; abstracted to its outcome.
* Regular expressions, the lexing of comments and literals, and the letters of
  the inserted text: a hook is there, in one of the named conditions, or not.
* The other symbols `validate_defconfig` asks for and the parsing of
  `CONFIG_LSM` strings in it; argument parsing of `setup.sh` and `main`.
* `task_fix_setgroups`; the KSU supercall gate, which is the one question
  `abk_sandbox_current` answers for every hook.
* The smoke-test runners: their races are between Android's process, stream and
  handler threads, which the repository does not contain, and end in a line of a
  test report.
* Android user interface, CI, Gradle, documentation.

## 7. State and what is left

Done: every component of section 1 except the smoke-test apps; every safety
property of section 3 is proved. Left are liveness, which stays with TLC, and the
smoke-test runners (section 6). A change of the code that moves a hook, adds a
step to `install` or an action on the table shows first in the run of its module;
the proofs then tell which lemma about that step has to be looked at.
