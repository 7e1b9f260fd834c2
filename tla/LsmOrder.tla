------------------------------ MODULE LsmOrder ------------------------------
(***************************************************************************)
(* The place of the sandbox in the list of LSMs, from the defconfig to the *)
(* running kernel: abk_enable_lsm (libabk.sh) rewrites CONFIG_LSM,         *)
(* validate_defconfig (install.py) accepts or rejects it, the kernel       *)
(* initialises the LSMs it was built with, and abk_lsm_finalize enables    *)
(* entry only for a list abk_lsm_order_is_safe accepts.                    *)
(*                                                                         *)
(* A list is a sequence of names, the empty name standing for two          *)
(* adjacent commas.                                                        *)
(***************************************************************************)
EXTENDS Integers, Sequences, FiniteSets, SequencesExt

CONSTANTS
    Name,           \* LSM names, with "selinux", "ksu", Sandbox and Empty
    Sandbox,        \* "abk_ksu_sandbox"
    Empty,          \* an empty entry
    Capability,     \* LSM_ORDER_FIRST, always first in lsm_names
    Selinux, Ksu,
    KconfigDefault, \* the default of config LSM in security/Kconfig
    MaxLen,         \* bound on the length of CONFIG_LSM
    Tails           \* what can follow the CONFIG_LSM order in lsm_names

ASSUME OrderConstants ==
    /\ {Sandbox, Empty, Selinux, Ksu} \subseteq Name
    /\ Sandbox \notin {Empty, Selinux, Ksu} /\ Selinux # Empty
    /\ Capability \notin Name
    /\ KconfigDefault \in Seq(Name)
    /\ MaxLen \in Nat
    /\ Tails \subseteq Seq(Name \ {Empty})

VARIABLES
    stage,      \* defconfig -> enabled -> validated -> booted -> running
    lines,      \* number of CONFIG_LSM lines in the defconfig
    conf,       \* the list on the line
    original,   \* history: the list abk_enable_lsm started from
    names,      \* lsm_names of the running kernel
    tailOk,     \* ABK_KSU_ALLOW_RUNTIME_KSU_TAIL
    ready       \* abk_lsm_ready

vars == <<stage, lines, conf, original, names, tailOk, ready>>

Init ==
    /\ stage = "defconfig"
    /\ lines \in 0..2
    /\ conf \in BoundedSeq(Name, MaxLen)
    /\ lines = 1 \/ conf = <<>>
    /\ original = conf
    /\ names = <<>>
    /\ tailOk \in BOOLEAN
    /\ ready = FALSE

-----------------------------------------------------------------------------
(* The list checks.                                                        *)

NoDuplicates(list) ==
    \A i, j \in DOMAIN list : list[i] = list[j] => i = j

\* A loop that takes the names of S over, one after the other.
Only(list, S) ==
    LET kept[n \in 0..Len(list)] ==
            IF n = 0 THEN <<>>
            ELSE IF list[n] \in S THEN Append(kept[n - 1], list[n]) ELSE kept[n - 1]
    IN  kept[Len(list)]

Without(list, x) == Only(list, Name \ {x})

Count(list, x) == Cardinality({i \in DOMAIN list : list[i] = x})

\* What abk_enable_lsm accepts: a list without empty or duplicate entries
\* that names selinux.
Acceptable(list) ==
    /\ list # <<>>
    /\ ~Contains(list, Empty)
    /\ NoDuplicates(list)
    /\ Contains(list, Selinux)

\* Mutant: the sandbox is appended even when it is already listed.
NormalizedTwice(list) == Append(list, Sandbox)

\* Mutant: the names are put in front of the list that is being built.
NormalizedReversed(list) == Append(Reverse(Without(list, Sandbox)), Sandbox)

\* The list abk_enable_lsm writes.
Normalized(list) == Append(Without(list, Sandbox), Sandbox)

\* The CONFIG_LSM part of validate_defconfig.
Validates(list) ==
    /\ list # <<>>
    /\ ~Contains(list, Empty)
    /\ NoDuplicates(list)
    /\ Contains(list, Selinux)
    /\ Count(list, Sandbox) = 1
    /\ list[Len(list)] = Sandbox

\* The loop of abk_lsm_order_is_safe: one turn per name.
ScanStart == [ok |-> TRUE, seen |-> {}, prevSandbox |-> FALSE,
              lastSandbox |-> FALSE, lastKsu |-> FALSE, sandboxes |-> 0, ksus |-> 0]

\* Mutant: the flag of the previous name is not carried over.
ScanNameForgetful(s, x) ==
    [ok |-> s.ok /\ x # Empty /\ x \notin s.seen,
     seen |-> s.seen \cup {x},
     prevSandbox |-> s.prevSandbox \/ s.lastSandbox,
     lastSandbox |-> x = Sandbox, lastKsu |-> x = Ksu,
     sandboxes |-> s.sandboxes + (IF x = Sandbox THEN 1 ELSE 0),
     ksus |-> s.ksus + (IF x = Ksu THEN 1 ELSE 0)]

ScanName(s, x) ==
    [ok |-> s.ok /\ x # Empty /\ x \notin s.seen,
     seen |-> s.seen \cup {x},
     prevSandbox |-> s.lastSandbox,
     lastSandbox |-> x = Sandbox, lastKsu |-> x = Ksu,
     sandboxes |-> s.sandboxes + (IF x = Sandbox THEN 1 ELSE 0),
     ksus |-> s.ksus + (IF x = Ksu THEN 1 ELSE 0)]

Scanned(list) ==
    LET scan[n \in 0..Len(list)] ==
            IF n = 0 THEN ScanStart ELSE ScanName(scan[n - 1], list[n])
    IN  scan[Len(list)]

OrderIsSafe(list, allowKsuTail) ==
    LET s == Scanned(list) IN
    /\ list # <<>> /\ s.ok
    /\ s.sandboxes = 1 /\ s.ksus <= 1
    /\ s.lastSandbox \/ (allowKsuTail /\ s.lastKsu /\ s.prevSandbox /\ s.ksus = 1)

-----------------------------------------------------------------------------
(* The stages.                                                             *)

\* abk_enable_lsm of setup.sh's before_build stage, which may run again on its
\* own output.  Without a CONFIG_LSM line it starts from the Kconfig default.
EnableLsm ==
    /\ stage \in {"defconfig", "enabled"}
    /\ lines < 2
    /\ LET value == IF lines = 0 THEN KconfigDefault ELSE conf IN
        /\ Acceptable(value)
        /\ conf' = Normalized(value)
        /\ original' = IF stage = "defconfig" THEN value ELSE original
    /\ lines' = 1
    /\ stage' = "enabled"
    /\ UNCHANGED <<names, tailOk, ready>>

\* abk_die: the build stops and the defconfig is as it was.
EnableDies ==
    /\ stage = "defconfig"
    /\ lines = 2 \/ ~Acceptable(IF lines = 0 THEN KconfigDefault ELSE conf)
    /\ stage' = "died"
    /\ UNCHANGED <<lines, conf, original, names, tailOk, ready>>

ValidateDefconfig ==
    /\ stage = "enabled"
    /\ stage' = IF lines = 1 /\ Validates(conf) THEN "validated" ELSE "died"
    /\ UNCHANGED <<lines, conf, original, names, tailOk, ready>>

\* External: the kernel initialises, in CONFIG_LSM order, the LSMs it was
\* built with (sandbox and selinux are built in), after capability and before
\* what is ordered last or registers itself at run time, as KernelSU does.
Boot ==
    /\ stage = "validated"
    /\ \E built \in SUBSET Name, tail \in Tails :
        /\ {Sandbox, Selinux} \subseteq built
        /\ names' = <<Capability>> \o Only(conf, built) \o tail
    /\ stage' = "booted"
    /\ UNCHANGED <<lines, conf, original, tailOk, ready>>

\* abk_lsm_finalize, a late_initcall.
Finalize ==
    /\ stage = "booted"
    /\ ready' = (Contains(names, Selinux) /\ OrderIsSafe(names, tailOk))
    /\ stage' = "running"
    /\ UNCHANGED <<lines, conf, original, names, tailOk>>

Next == EnableLsm \/ EnableDies \/ ValidateDefconfig \/ Boot \/ Finalize

Spec == Init /\ [][Next]_vars

-----------------------------------------------------------------------------
(* Properties.                                                             *)

\* What abk_enable_lsm writes is what validate_defconfig wants, and the order
\* of the other LSMs is the one it found: the two scripts agree on every list.
EnabledValidates ==
    stage = "enabled" =>
        /\ lines = 1 /\ Validates(conf)
        /\ Without(conf, Sandbox) = Without(original, Sandbox)

\* Running before_build again changes nothing.
EnableIdempotent == [][stage = "enabled" /\ stage' = "enabled" => conf' = conf]_vars

\* Entry is enabled exactly when every hook that runs after the sandbox's is
\* accounted for: the sandbox is last, or only a verified KernelSU follows.
ReadyMeansLast ==
    stage = "running" =>
        (ready <=>
            /\ NoDuplicates(names)
            /\ \E i \in DOMAIN names :
                /\ names[i] = Sandbox
                /\ SubSeq(names, i + 1, Len(names)) \in
                        {<<>>} \cup (IF tailOk THEN {<<Ksu>>} ELSE {}))
=============================================================================
