----------------------------- MODULE Installer -----------------------------
(***************************************************************************)
(* scripts/install.py on one kernel tree: discovery, install, verify, and  *)
(* what happens to the tree in between.                                    *)
(*                                                                         *)
(* An installation is a program of steps in the order of install(); each   *)
(* step computes the new text of one file (SourcePatches) and writes it in *)
(* the transaction (InstallTransaction).  Texts of the module's own source *)
(* directory are two files, its build artifacts one.                       *)
(***************************************************************************)
EXTENDS InstallTransaction, SourcePatches, FiniteSets

CONSTANTS
    Layouts,        \* the trees and build environments considered
    TreeOf,         \* Layouts -> the files of that tree at the start
    DirsOf,         \* Layouts -> its directories
    Exposed,        \* files other programs may replace meanwhile
    MaxFaults       \* bound: failures, kills and foreign edits in a behaviour

VARIABLES
    layout,     \* the tree's variant and kernel, and the build environment
    pc,         \* the step the installation is at
    faults,     \* how many faults there have been
    tampered,   \* was the tree edited, or left broken by a failed rollback?
    restores    \* did every restore of a rollback succeed so far?

instVars == <<layout, pc, faults, tampered, restores>>
vars == <<txVars, instVars>>

\* C files with the hooks that go into them.
HooksIn == [
    app_profile |-> {"escape"}, dispatch |-> {"supercall"},
    allowlist |-> {"revoke", "prune"}, rules |-> {"lock", "reapply"},
    sucompat |-> {"sucompat", "manual"}, lsm_count |-> {"lsm_count"},
    seccomp |-> {"seccomp"},
    namespace |-> {"mount_privilege", "bind", "umount_privilege", "mount_result", "umount"},
    ptrace |-> {"ptrace"}, signal |-> {"signal"}]

CFile == DOMAIN HooksIn
SourceFile == {"core", "lsm"}
FileNames == CFile \cup SourceFile \cup {"kbuild", "kconfig", "header", "object", "legacy_api"}

CText(f) == [inc : Include, sites : [HooksIn[f] -> Condition]]
SourceNode == OwnedText \cup {NoFile, Torn, Symlink, Folder}
ObjectText == [from : [SourceFile -> SourceNode]]

FileOf(h) == CHOOSE f \in CFile : h \in HooksIn[f]

\* What a file can hold when it is whole.
TextOf(f) ==
    CASE f \in CFile -> CText(f)
      [] f = "kbuild" -> KbuildText
      [] f = "kconfig" -> KconfigText
      [] f = "object" -> ObjectText
      [] OTHER -> OwnedText

\* What discover, the audit of KernelSU and the environment say of a tree.
Layout == [name : {l.name : l \in Layouts}, variant : STRING, kernel : STRING,
           supported : BOOLEAN, lkm : BOOLEAN, trees : Nat,
           audit : SUBSET {"branch", "array", "registration", "pasted", "elsewhere"},
           defconfig : BOOLEAN, modes : SUBSET {"manual", "tracepoint", "susfs"},
           auto : BOOLEAN]

ASSUME InstallerConstants ==
    /\ File = FileNames /\ Exposed \subseteq File
    /\ "abk_sandbox" \in Dir
    /\ \A f \in File : TextOf(f) \subseteq Content
    /\ Layouts \subseteq Layout
    /\ \A l \in Layouts :
            /\ TreeOf[l.name] \in [File -> Content \cup {NoFile}]
            /\ \A f \in File : TreeOf[l.name][f] \in TextOf(f) \cup {NoFile}
            /\ TreeOf[l.name]["object"] # NoFile =>
                    TreeOf[l.name]["object"].from = [f \in SourceFile |-> TreeOf[l.name][f]]
            /\ DirsOf[l.name] \subseteq Dir
    /\ Torn \notin Content
    /\ Refused \notin Content \cup Condition \cup Include \cup BOOLEAN
                       \cup {NoFile, Torn, Symlink, Folder} \cup KbuildBlock

\* Nobody else has been at the places of the hooks: there is no other call of a
\* hook's function, the hooks of allowlist.c are both in or both out, and only
\* a block can have been edited or have lines after it.
Unedited(f, t) ==
    /\ f \in CFile => \A h \in HooksIn[f] : t.sites[h] # "foreign_call"
    /\ f = "allowlist" => (Marked(t.sites["revoke"]) <=> Marked(t.sites["prune"]))
    /\ f = "kbuild" /\ t.block = "none" => t.flaw \in {"none", "override"}

\* An installation starts from an original tree or from one that a version of
\* the installer has left.
ASSUME TreesUnedited ==
    \A l \in Layouts : \A f \in CFile \cup {"kbuild"} :
        TreeOf[l.name][f] = NoFile \/ Unedited(f, TreeOf[l.name][f])

-----------------------------------------------------------------------------
(* Discovery and the policy for LSMs that KernelSU registers at run time.  *)

\* discover: one built-in KernelSU tree below a supported kernel.
Discovered == ~layout.lkm /\ layout.trees = 1 /\ layout.supported

\* resukisu_registration_sources: where, and how often, hooks are registered.
RegisteredOnce == layout.audit \cap {"pasted", "elsewhere"} = {}

\* validate_resukisu_runtime_lsm_hooks: nothing is wrong with the branch for
\* modern kernels, the hook array, the registration function and its calls.
Audited == layout.audit \cap {"branch", "array", "registration"} = {} /\ RegisteredOnce

\* runtime_ksu_tail_policy
TailPolicy ==
    IF layout.variant # "resukisu" \/ layout.kernel = "6.12" THEN "never"
    ELSE IF Audited THEN "resukisu"
    ELSE Refused

\* validate_runtime_ksu_tail_config, where a defconfig was given.
TailConfigAccepted ==
    TailPolicy = "resukisu" /\ layout.defconfig =>
        Cardinality(layout.modes) <= 1 /\ "manual" \notin layout.modes /\ ~layout.auto

MayInstall == Discovered /\ TailPolicy # Refused /\ TailConfigAccepted

-----------------------------------------------------------------------------
(* The program of install().                                               *)

CopySources == <<"scan", "legacy_api", "make_target", "core", "lsm">>

KernelHooks == <<"inc_seccomp", "seccomp", "inc_namespace", "mount_privilege",
                 "bind_upgrade", "bind", "umount_privilege", "mount_result", "umount",
                 "inc_ptrace", "ptrace", "inc_signal", "signal">>

Patches == <<"escape", "supercall", "allowlist", "lock", "reapply", "sucompat", "manual",
             "header", "lsm_count">> \o KernelHooks

Program == CopySources \o <<"kbuild", "kconfig">> \o Patches

TargetOf(s) ==
    CASE s = "scan" -> "object"
      [] s \in SourceFile \cup {"legacy_api", "kbuild", "kconfig", "allowlist", "header"} -> s
      [] s = "inc_seccomp" -> "seccomp"
      [] s \in {"inc_namespace", "bind_upgrade"} -> "namespace"
      [] s = "inc_ptrace" -> "ptrace"
      [] s = "inc_signal" -> "signal"
      [] OTHER -> FileOf(s)

\* Steps that return at once for this tree.
Skipped(s) ==
    \/ s = "sucompat" /\ layout.variant = "resukisu"
    \/ s = "manual" /\ layout.variant # "resukisu"
    \/ s = "lsm_count" /\ layout.kernel # "6.12"

NeededHooks == {h \in Hook : ~Skipped(h)}

\* The preflight of copy_sources: only regular files of ours and what a build
\* leaves, in a directory that is one.
TargetAcceptable(tree) ==
    /\ "abk_sandbox" \notin litter
    /\ \A f \in SourceFile \cup {"legacy_api"} :
            tree[f] = NoFile \/ (tree[f] \in OwnedText /\ ~Foreign(tree[f]))
    /\ tree["object"] \notin {Symlink, Folder}

SourcesChanged(tree) == \E f \in SourceFile : tree[f] # Current

\* Mutant: the artifacts go only if every source has changed.
ScannedAll(tree) ==
    IF ~TargetAcceptable(tree) THEN Refused
    ELSE IF \A f \in SourceFile : tree[f] # Current THEN NoFile
    ELSE tree["object"]

\* Mutant: the artifacts go on every run.
ScannedAlways(tree) ==
    IF ~TargetAcceptable(tree) THEN Refused ELSE NoFile

\* Build artifacts of other sources are removed before any source is written.
Scanned(tree) ==
    IF ~TargetAcceptable(tree) THEN Refused
    ELSE IF SourcesChanged(tree) THEN NoFile
    ELSE tree["object"]

PatchedC(s, t) ==
    CASE s = "escape" -> PatchEscape(t)
      [] s = "supercall" -> PatchSupercallDispatch(t)
      [] s = "allowlist" -> PatchAllowlist(t)
      [] s = "lock" -> PatchPolicyLockOrder(t)
      [] s = "reapply" -> PatchPolicyReapply(t)
      [] s = "sucompat" -> PatchSucompatFailClosed(t)
      [] s = "manual" -> PatchManualFailClosed(t)
      [] s = "lsm_count" -> PatchLsmCount(t)
      [] s \in {"inc_seccomp", "inc_namespace", "inc_ptrace", "inc_signal"} -> NormalizeInclude(t)
      [] s = "seccomp" -> PatchSeccomp(t)
      [] s = "mount_privilege" -> PatchMountPrivilege(t)
      [] s = "bind_upgrade" -> UpgradeBind(t)
      [] s = "bind" -> PatchBind(t)
      [] s = "umount_privilege" -> PatchUmountPrivilege(t)
      [] s = "mount_result" -> PatchMountResult(t)
      [] s = "umount" -> PatchUmount(t)
      [] s = "ptrace" -> PatchPtrace(t)
      [] s = "signal" -> PatchSignal(t)

\* What step s makes of its file: the new text, NoFile for a removal, or an
\* error.  A file that cannot be read as a regular one is an error as well.
Patched(s, tree) ==
    LET t == tree[TargetOf(s)] IN
    CASE s = "scan" -> Scanned(tree)
      [] s = "legacy_api" -> IF t = Folder THEN Refused ELSE IF t = Symlink THEN t ELSE NoFile
      [] s \in SourceFile -> IF t \in {Symlink, Folder} THEN Refused ELSE Current
      [] s = "header" ->
            IF t = NoFile THEN Current
            ELSE IF t \in OwnedText /\ ~Foreign(t) THEN Current ELSE Refused
      [] s = "kbuild" -> IF Regular(t) THEN InstallKbuild(t, TailPolicy) ELSE Refused
      [] s = "kconfig" -> IF Regular(t) THEN InstallKconfig(t) ELSE Refused
      [] OTHER -> IF Skipped(s) THEN t ELSE IF Regular(t) THEN PatchedC(s, t) ELSE Refused

-----------------------------------------------------------------------------
(* install().                                                              *)

At(s) == phase = "open" /\ pc <= Len(Program) /\ Program[pc] = s

Advance == pc' = pc + 1 /\ UNCHANGED <<layout, faults, tampered, restores>>

\* A fault counts towards the bound; the steps left are not taken.
Faulty == /\ faults < MaxFaults
          /\ faults' = faults + 1
          /\ UNCHANGED <<layout, pc>>

\* An error before the transaction: nothing was touched.
Reject ==
    /\ phase = "idle"
    /\ result' = "refused"
    /\ UNCHANGED <<disk, phase, log, missing, todo, failed, before, beforeDirs, meddled, instVars>>

\* What a run makes of a file cut short depends on where it was cut: such a
\* file is restored first.
Intact == \A f \in File : file[f] # Torn

\* main and install up to the with statement.
Start ==
    /\ Intact
    /\ MayInstall
    /\ Begin
    /\ pc' = 1
    /\ UNCHANGED <<layout, faults, tampered, restores>>

StartRefused == ~MayInstall /\ Reject

StepSame(s) ==
    /\ At(s) /\ s # "make_target"
    /\ Patched(s, file) = file[TargetOf(s)]
    /\ Advance
    /\ UNCHANGED txVars

\* Mutant: a write that goes past the transaction.
StepWritesDirectly(s) ==
    /\ At(s) /\ s # "make_target"
    /\ Patched(s, file) \notin {Refused, NoFile, file[TargetOf(s)]}
    /\ file' = [file EXCEPT ![TargetOf(s)] = Patched(s, file)]
    /\ dirs' = dirs \cup Above[DirOf[TargetOf(s)]]
    /\ Advance
    /\ UNCHANGED <<litter, phase, log, missing, todo, failed, result, before, beforeDirs, meddled>>

StepWrites(s) ==
    /\ At(s) /\ s # "make_target"
    /\ Patched(s, file) \notin {Refused, NoFile, file[TargetOf(s)]}
    /\ Write(TargetOf(s), Patched(s, file))
    /\ Advance

StepRemoves(s) ==
    /\ At(s) /\ s \in {"scan", "legacy_api"}
    /\ Patched(s, file) = NoFile
    /\ Remove(TargetOf(s))
    /\ Advance

MakeTarget ==
    /\ At("make_target")
    /\ MakeDir("abk_sandbox")
    /\ Advance

StepRaises(s) ==
    /\ At(s) /\ s # "make_target"
    /\ Patched(s, file) = Refused
    /\ Raise
    /\ UNCHANGED instVars

Finish ==
    /\ pc > Len(Program)
    /\ Commit
    /\ UNCHANGED instVars

\* An OSError in the middle of a step.
StepFails(s) ==
    /\ At(s) /\ Faulty
    /\ \/ s = "make_target" /\ MakeDirFails("abk_sandbox")
       \/ /\ s # "make_target"
          /\ Patched(s, file) \notin {Refused, file[TargetOf(s)]}
          /\ IF Patched(s, file) = NoFile THEN RemoveFails(TargetOf(s)) ELSE WriteFails(TargetOf(s))
    /\ UNCHANGED <<tampered, restores>>

\* The rollback, one file or directory at a time.
RollsBack ==
    /\ \/ \E i \in DOMAIN log : UndoFile(i)
       \/ UndoFilesDone
       \/ \E d \in Dir : UndoDir(d)
       \/ Undone
    /\ UNCHANGED instVars

\* A directory in the way is not a fault of its own; anything else is.
RollbackFails ==
    /\ \/ \E i \in DOMAIN log : /\ UndoFileFails(i)
                                /\ file[log[i].path] = Folder \/ faults < MaxFaults
                                /\ faults' = IF file[log[i].path] = Folder THEN faults ELSE faults + 1
       \/ \E d \in Dir : /\ UndoDirFails(d)
                         /\ ~Empty(d) \/ faults < MaxFaults
                         /\ faults' = IF Empty(d) THEN faults + 1 ELSE faults
    /\ tampered' = TRUE /\ restores' = FALSE
    /\ UNCHANGED <<layout, pc>>

Killed ==
    /\ Faulty
    /\ \/ Kill
       \/ \E s \in {Program[i] : i \in DOMAIN Program} :
            /\ At(s) /\ s # "make_target"
            /\ Patched(s, file) \notin {Refused, NoFile, file[TargetOf(s)]}
            /\ KillInWrite(TargetOf(s))
    /\ UNCHANGED <<tampered, restores>>

-----------------------------------------------------------------------------
(* verify().                                                               *)

\* validate_patch_sources: with _VALIDATION_ONLY set a write is an error, so
\* every patch must leave its file as it is.
PatchesSettled(tree) ==
    \A i \in DOMAIN Patches : Patched(Patches[i], tree) = tree[TargetOf(Patches[i])]

\* Mutant: the markers are not looked for in the text.
NeedlesUnread(tree) == TRUE

\* The text every patched file must hold; what no patch function insists on
\* are both markers of allowlist.c.
NeedlesFound(tree) == \A h \in NeededHooks : Marked(tree[FileOf(h)].sites[h])

\* The defconfig part is LsmOrder's.
Verifies(tree) ==
    /\ MayInstall
    /\ tree["kbuild"] \in KbuildText /\ InstalledKbuildBlock(tree["kbuild"]) = TailPolicy
    /\ PatchesSettled(tree)
    /\ tree["kconfig"] = [menu |-> "installed"]
    /\ NeedlesFound(tree)
    /\ \A f \in SourceFile \cup {"header"} : tree[f] = Current

Verify ==
    /\ phase = "idle"
    /\ Intact
    /\ Verifies(file)
    /\ result' = "verified"
    /\ UNCHANGED <<disk, phase, log, missing, todo, failed, before, beforeDirs, meddled, instVars>>

VerifyRefused == Intact /\ ~Verifies(file) /\ Reject

-----------------------------------------------------------------------------
(* External: the tree between two runs.                                    *)

\* The tree changes and is no longer what a run said of it.
Edited(f, t) ==
    /\ phase = "idle"
    /\ file' = [file EXCEPT ![f] = t]
    /\ before' = file'
    /\ result' = "none"
    /\ UNCHANGED <<dirs, litter, phase, log, missing, todo, failed, beforeDirs, meddled>>

\* make: objects of the sources that are there.
Build ==
    /\ file["kbuild"] \in KbuildText /\ file["kbuild"].block # "none"
    /\ \A f \in SourceFile : file[f] \in OwnedText
    /\ file["object"] # [from |-> [f \in SourceFile |-> file[f]]]
    /\ Edited("object", [from |-> [f \in SourceFile |-> file[f]]])
    /\ UNCHANGED instVars

\* Edits of one file by someone else.
Edits(f) ==
    LET t == file[f] IN
    IF ~Regular(t) \/ t = Torn THEN {}
    ELSE CASE f \in CFile ->
                {[t EXCEPT !.sites[h] = c] : h \in HooksIn[f], c \in Condition \ {"legacy"}}
                \cup {[t EXCEPT !.inc = i] : i \in Include}
           [] f = "kbuild" -> {[t EXCEPT !.flaw = x] : x \in {"override", "trailing", "altered"}}
           [] f = "kconfig" -> {[menu |-> m] : m \in {"altered", "no_anchor", "nested"}}
           [] f \in SourceFile \cup {"header", "legacy_api"} -> {NoFile, [text |-> "foreign"]}
           [] OTHER -> {}

\* An edit uses the bound up: faults and edits are taken one kind at a time.
Tamper(f) ==
    /\ faults = 0 /\ faults' = MaxFaults
    /\ \E t \in Edits(f) \ {file[f]} : Edited(f, t)
    /\ tampered' = TRUE
    /\ UNCHANGED <<layout, pc, restores>>

\* The build environment changes, or KernelSU is updated under the hooks.
Reconfigure ==
    /\ phase = "idle" /\ faults = 0 /\ faults' = MaxFaults
    /\ layout' \in {[layout EXCEPT !.lkm = TRUE], [layout EXCEPT !.trees = 2],
                    [layout EXCEPT !.supported = FALSE], [layout EXCEPT !.audit = {"branch"}],
                    [layout EXCEPT !.audit = {"elsewhere"}],
                    [layout EXCEPT !.auto = TRUE], [layout EXCEPT !.modes = {"manual"}],
                    [layout EXCEPT !.modes = {"tracepoint", "susfs"}]}
    /\ result' = "none" /\ tampered' = TRUE
    /\ UNCHANGED <<disk, phase, log, missing, todo, failed, before, beforeDirs, meddled, pc, restores>>

\* Files cut short or replaced are taken from version control again.
Restore(f) ==
    /\ file[f] \in {Torn, Symlink, Folder}
    /\ Edited(f, IF f \in CFile \cup {"kbuild", "kconfig"} THEN TreeOf[layout.name][f] ELSE NoFile)
    /\ UNCHANGED instVars

\* Another program replaces a file during a transaction, or leaves one in the
\* source directory.
Interfere ==
    /\ Faulty
    /\ \/ \E f \in Exposed, x \in {Symlink, Folder} : file[f] # x /\ Meddle(f, x)
       \/ "abk_sandbox" \notin litter /\ Litter("abk_sandbox")
    /\ tampered' = TRUE
    /\ UNCHANGED restores

-----------------------------------------------------------------------------
Init ==
    /\ layout \in Layouts
    /\ file = TreeOf[layout.name] /\ dirs = DirsOf[layout.name]
    /\ litter = {}
    /\ phase = "idle" /\ result = "none"
    /\ log = <<>> /\ missing = {} /\ todo = 0 /\ failed = FALSE
    /\ before = file /\ beforeDirs = dirs /\ meddled = {}
    /\ pc = 1 /\ faults = 0 /\ tampered = FALSE /\ restores = TRUE

Step(s) == StepSame(s) \/ StepWrites(s) \/ StepRemoves(s) \/ StepRaises(s) \/ StepFails(s)

Next ==
    \/ Start \/ StartRefused \/ MakeTarget \/ Finish
    \/ \E i \in DOMAIN Program : Step(Program[i])
    \/ RollsBack \/ RollbackFails \/ Killed
    \/ Verify \/ VerifyRefused
    \/ Build \/ Reconfigure \/ Interfere
    \/ \E f \in File : Tamper(f) \/ Restore(f)

Spec == Init /\ [][Next]_vars

-----------------------------------------------------------------------------
(* Properties.                                                             *)

\* The hook of h is compiled in at its place.
Live(tree, h) == tree[FileOf(h)].sites[h] \in {"hooked", "extra_call", "anchor_back"}

Complete(tree) ==
    /\ \A h \in NeededHooks : Live(tree, h)
    /\ \A h \in NeededHooks \cap Including : tree[FileOf(h)].inc \in {"placed", "elsewhere"}
    /\ \A f \in SourceFile \cup {"header"} : tree[f] = Current
    /\ tree["kconfig"].menu = "installed"
    /\ tree["kbuild"].flaw = "none"

\* A tree that verify accepts, whatever was done to it, has every hook at its
\* place, and says that KernelSU's own LSM was checked only where it was.
VerifiedMeansComplete ==
    result = "verified" =>
        /\ Complete(file)
        /\ file["kbuild"].block = "resukisu" =>
                layout.variant = "resukisu" /\ layout.kernel # "6.12" /\ Audited

\* An installation that ends well leaves a tree that verify accepts: from an
\* original or an older tree, and also when earlier runs were killed half way
\* or rolled back.
InstalledVerifies == result = "installed" /\ ~tampered => Verifies(file)

\* Installing again does not touch a tree that verify accepts: no file but a
\* leftover header of an old version changes.
AcceptedTreeUnchanged ==
    [][ phase = "open" /\ phase' = "open" /\ Verifies(before) =>
            \A f \in File \ {"legacy_api"} : file'[f] = file[f] \/ f \in meddled' ]_vars

\* No object file lies next to sources it was not made from, at any moment of
\* an installation or of its rollback, after a kill at any point too, unless
\* a restore has failed.
NoStaleObject ==
    restores /\ ~tampered /\ Regular(file["object"]) /\ file["object"] # Torn =>
        file["object"].from = [f \in SourceFile |-> file[f]]

\* Every step of the installer is a step of the transaction, so what is proved
\* of the transaction holds of it.
ImplementsTransaction == TxSpec

\* docs/development.md: a rerun "rejects unknown conflicts or partial state",
\* so an installation that ends well has put every hook in.
InstalledMeansComplete == result = "installed" => Complete(file)
=============================================================================
