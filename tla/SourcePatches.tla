--------------------------- MODULE SourcePatches ---------------------------
(***************************************************************************)
(* What scripts/install.py makes of the text of one file: the patch        *)
(* functions, with what they look for, what they insist on and what they   *)
(* put in.  A C file is its include of the sandbox header and, for every   *)
(* hook that goes into it, the condition of the place; the text itself is  *)
(* left out.                                                               *)
(***************************************************************************)
EXTENDS Naturals

CONSTANT Refused    \* an InstallError instead of a text

\* The hook calls the installer puts into KernelSU and into the kernel.
Hook == {"escape", "supercall", "revoke", "prune", "lock", "reapply", "sucompat",
         "manual", "lsm_count", "seccomp", "mount_privilege", "bind",
         "umount_privilege", "mount_result", "umount", "ptrace", "signal"}

\* Conditions of the place of a hook.
\*   bare          the anchor once, no hook
\*   hooked        the hook, letter for letter, once
\*   legacy        the call of an older version under today's marker
\*   no_scope      the function is missing, or is there twice
\*   no_anchor     the function without the anchor
\*   two_anchors   the anchor twice
\*   foreign_call  bare, and someone else's call of the same function
\*   altered       the marker, but the hook was edited
\*   doubled       the hook twice
\*   dead          the marker only in a comment or in code never compiled
\*   extra_call    hooked, and a call of the same function elsewhere
\*   anchor_back   hooked, and the original anchor again
Condition == {"bare", "hooked", "legacy", "no_scope", "no_anchor", "two_anchors",
              "foreign_call", "altered", "doubled", "dead", "extra_call", "anchor_back"}

\* The include line of the sandbox header: absent, where add_include puts it,
\* elsewhere, twice, or a file without any include to put it after.
Include == {"none", "placed", "elsewhere", "twice", "no_anchor"}

Marked(c) == c \in {"hooked", "legacy", "altered", "doubled", "dead", "extra_call", "anchor_back"}

\* Hooks that replace their anchor, which is then forbidden text.
Replacing == {"lock", "sucompat", "manual", "mount_privilege", "umount_privilege",
              "mount_result", "ptrace", "signal"}

\* Hooks whose calls are counted in the whole file.
Counted == {"escape", "supercall", "prune", "reapply", "lsm_count", "seccomp", "bind",
            "mount_result", "umount", "signal"}

\* Hooks whose check counts the include.
Including == {"escape", "supercall", "revoke", "reapply", "seccomp", "mount_privilege",
              "ptrace", "signal"}

\* Hooks whose anchor must be found once whether or not they are installed.
Anchored == {"seccomp", "bind"}

-----------------------------------------------------------------------------
(* exact_injection_installed and the replace_live_ functions.              *)

\* TRUE, FALSE or an error.
ExactInjectionInstalled(h, c, inc) ==
    IF c = "no_scope" THEN Refused
    ELSE IF ~Marked(c) THEN FALSE
    ELSE IF \/ c \in {"legacy", "altered", "doubled", "dead"}
            \/ c = "extra_call" /\ h \in Counted
            \/ c = "anchor_back" /\ h \in Replacing
            \/ h \in Including /\ inc \notin {"placed", "elsewhere"}
         THEN Refused
         ELSE TRUE

\* Insertion at an anchor that must be there exactly once.
Inserted(c) ==
    CASE c = "bare" -> "hooked"
      [] c = "foreign_call" -> "extra_call"
      [] OTHER -> Refused

AddInclude(inc) == IF inc = "no_anchor" THEN Refused ELSE "placed"

\* The text t with the place of h changed, or an error.
SetSite(t, h, c) ==
    IF c = Refused THEN Refused ELSE [t EXCEPT !.sites[h] = c]

-----------------------------------------------------------------------------
(* The patch functions.                                                    *)

\* A hook that is checked, and inserted when it is absent.
PatchHook(t, h) ==
    LET c == t.sites[h]
        is == ExactInjectionInstalled(h, c, t.inc)
    IN  IF is = Refused \/ (h \in Anchored /\ c = "anchor_back") THEN Refused
        ELSE IF is THEN t
        ELSE SetSite(t, h, Inserted(c))

\* ... together with the include, which goes in with the hook and only then.
PatchWithInclude(t, h) ==
    LET p == PatchHook(t, h)
    IN  IF p = Refused \/ p = t THEN p
        ELSE IF AddInclude(t.inc) = Refused THEN Refused
        ELSE [p EXCEPT !.inc = "placed"]

PatchEscape(t) == PatchWithInclude(t, "escape")
PatchSupercallDispatch(t) == PatchWithInclude(t, "supercall")
PatchPolicyLockOrder(t) == PatchHook(t, "lock")
PatchPolicyReapply(t) == PatchWithInclude(t, "reapply")
PatchSucompatFailClosed(t) == PatchHook(t, "sucompat")
PatchManualFailClosed(t) == PatchHook(t, "manual")
PatchLsmCount(t) == PatchHook(t, "lsm_count")

\* How often allowlist.c calls abk_sandbox_revoke_uid_async.
RevokeCalls(c) ==
    CASE c \in {"hooked", "foreign_call", "altered", "anchor_back"} -> 1
      [] c \in {"doubled", "extra_call"} -> 2
      [] OTHER -> 0

\* patch_allowlist: with either marker in the text both hooks are checked and
\* the answers are not looked at, only the errors; without one, both go in.
PatchAllowlist(t) ==
    LET revoke == ExactInjectionInstalled("revoke", t.sites["revoke"], t.inc)
        prune == IF /\ Marked(t.sites["prune"])
                    /\ RevokeCalls(t.sites["revoke"]) + RevokeCalls(t.sites["prune"]) # 2
                 THEN Refused
                 ELSE ExactInjectionInstalled("prune", t.sites["prune"], t.inc)
        r == Inserted(t.sites["revoke"])
        p == Inserted(t.sites["prune"])
    IN  IF Marked(t.sites["revoke"]) \/ Marked(t.sites["prune"])
        THEN IF Refused \in {revoke, prune} THEN Refused ELSE t
        ELSE IF Refused \in {r, p, AddInclude(t.inc)} THEN Refused
        ELSE [t EXCEPT !.inc = "placed", !.sites["revoke"] = r, !.sites["prune"] = p]

\* The first write of patch_kernel_hooks to a file: the include is put, or
\* moved, where it belongs.
NormalizeInclude(t) ==
    IF AddInclude(t.inc) = Refused THEN Refused ELSE [t EXCEPT !.inc = "placed"]

\* The hooks of patch_kernel_hooks, each written before the next is looked at.
PatchSeccomp(t) == PatchHook(t, "seccomp")
PatchMountPrivilege(t) == PatchHook(t, "mount_privilege")
PatchUmountPrivilege(t) == PatchHook(t, "umount_privilege")
PatchMountResult(t) == PatchHook(t, "mount_result")
PatchUmount(t) == PatchHook(t, "umount")
PatchPtrace(t) == PatchHook(t, "ptrace")
PatchSignal(t) == PatchHook(t, "signal")

\* A bind check of an older version gets its third argument.
UpgradeBind(t) ==
    IF t.sites["bind"] = "legacy" THEN [t EXCEPT !.sites["bind"] = "hooked"] ELSE t

PatchBind(t) == PatchHook(t, "bind")

-----------------------------------------------------------------------------
(* Kbuild and Kconfig.                                                     *)

\* The blocks this and older versions own.
KbuildBlock == {"legacy", "never_old", "resukisu_old", "never", "resukisu"}

\* flaw: an override directive; other lines after the block; a block that was
\* edited, is there twice or is nested in a conditional.
KbuildText == [block : KbuildBlock \cup {"none"},
               flaw : {"none", "override", "trailing", "altered"}]

\* installed_kbuild_block
InstalledKbuildBlock(t) ==
    IF t.flaw # "none" \/ t.block = "none" THEN Refused ELSE t.block

\* Mutant: a block of ours is left as it is, whichever it is.
InstallKbuildAny(t, desired) ==
    IF t.flaw = "override" THEN Refused
    ELSE IF t.block = "none" THEN [t EXCEPT !.block = desired]
    ELSE IF InstalledKbuildBlock(t) = Refused THEN Refused
    ELSE t

\* install_kbuild: appended, or in the place of any block of ours.
InstallKbuild(t, desired) ==
    IF t.flaw = "override" THEN Refused
    ELSE IF t.block = "none" THEN [t EXCEPT !.block = desired]
    ELSE IF InstalledKbuildBlock(t) = Refused THEN Refused
    ELSE [t EXCEPT !.block = desired]

KconfigText == [menu : {"plain", "installed", "altered", "no_anchor", "nested"}]

\* insert_before_last
InstallKconfig(t) ==
    IF t.menu \in {"plain", "installed"} THEN [menu |-> "installed"] ELSE Refused

-----------------------------------------------------------------------------
(* Files of which the module owns the whole text.                          *)

OwnedText == [text : {"older", "current", "foreign"}]
Current == [text |-> "current"]

\* patch_common_header, and the preflight of copy_sources: a file without the
\* marker is not overwritten.
Foreign(t) == t = [text |-> "foreign"]
=============================================================================
