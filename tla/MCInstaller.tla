---------------------------- MODULE MCInstaller ----------------------------
(***************************************************************************)
(* Three trees for TLC: official KernelSU on 6.12 as it comes; ReSukiSU on *)
(* 6.6 with an old version of the module installed and built; SukiSU on    *)
(* 6.1 with an intermediate version of it.                                 *)
(***************************************************************************)
EXTENDS Installer

Place == [tree |-> {"tree"}, abk_sandbox |-> {"tree", "abk_sandbox"}]
DirNames == DOMAIN Place
Home == [f \in FileNames |->
            IF f \in SourceFile \cup {"object", "legacy_api"} THEN "abk_sandbox" ELSE "tree"]

Texts == CText("app_profile") \cup CText("dispatch") \cup CText("allowlist")
         \cup CText("rules") \cup CText("sucompat") \cup CText("lsm_count")
         \cup CText("seccomp") \cup CText("namespace") \cup CText("ptrace")
         \cup CText("signal") \cup KbuildText \cup KconfigText \cup OwnedText \cup ObjectText

Official == [name |-> "official", variant |-> "official", kernel |-> "6.12",
             supported |-> TRUE, audit |-> {"branch"}, lkm |-> FALSE, trees |-> 1,
             defconfig |-> TRUE, modes |-> {}, auto |-> FALSE]
Resukisu == [Official EXCEPT !.name = "resukisu", !.variant = "resukisu", !.kernel = "6.6",
                             !.audit = {}, !.modes = {"susfs"}]
Sukisu == [Official EXCEPT !.name = "sukisu", !.variant = "sukisu", !.kernel = "6.1"]
ThreeLayouts == {Official, Resukisu, Sukisu}

Older == [text |-> "older"]

Pristine(hooks) == [inc |-> "none", sites |-> [h \in hooks |-> "bare"]]
Patched1(hooks) == [inc |-> "placed", sites |-> [h \in hooks |-> "hooked"]]

OfficialTree == [f \in FileNames |->
    CASE f \in CFile -> Pristine(HooksIn[f])
      [] f = "kbuild" -> [block |-> "none", flaw |-> "none"]
      [] f = "kconfig" -> [menu |-> "plain"]
      [] OTHER -> NoFile]

ResukisuTree == [f \in FileNames |->
    CASE f = "lsm_count" -> NoFile
      [] f = "sucompat" -> [inc |-> "none", sites |-> [sucompat |-> "no_anchor", manual |-> "bare"]]
      [] f = "namespace" -> [Patched1(HooksIn[f]) EXCEPT !.sites["bind"] = "legacy"]
      [] f \in {"ptrace", "signal"} -> Pristine(HooksIn[f])
      [] f \in CFile -> Patched1(HooksIn[f])
      [] f = "kbuild" -> [block |-> "legacy", flaw |-> "none"]
      [] f = "kconfig" -> [menu |-> "installed"]
      [] f = "object" -> [from |-> [x \in SourceFile |-> IF x = "lsm" THEN Current ELSE Older]]
      [] f = "lsm" -> Current
      [] OTHER -> Older]

SukisuTree == [f \in FileNames |->
    CASE f \in {"lsm_count", "legacy_api"} -> NoFile
      [] f = "sucompat" -> [inc |-> "none", sites |-> [sucompat |-> "hooked", manual |-> "no_anchor"]]
      [] f = "seccomp" -> [Patched1(HooksIn[f]) EXCEPT !.inc = "elsewhere"]
      [] f \in CFile -> Patched1(HooksIn[f])
      [] f = "kbuild" -> [block |-> "never_old", flaw |-> "none"]
      [] f = "kconfig" -> [menu |-> "installed"]
      [] f = "header" -> Older
      [] f = "object" -> [from |-> [x \in SourceFile |-> Current]]
      [] OTHER -> Current]

Trees == [official |-> OfficialTree, resukisu |-> ResukisuTree, sukisu |-> SukisuTree]
Directories == [official |-> {"tree"}, resukisu |-> DirNames, sukisu |-> DirNames]
=============================================================================
