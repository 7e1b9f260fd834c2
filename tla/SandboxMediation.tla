-------------------------- MODULE SandboxMediation --------------------------
(***************************************************************************)
(* The hooks of lsm.c that decide by the credential of the caller: sockets, *)
(* seccomp, set*id, ptrace, signals and the three hooks of an execve.  Each *)
(* asks abk_sandbox_current, which compares the shape of the credential and *)
(* then scans abk_instances[] without the mutex, one load at a time         *)
(* (abk_sandbox_identity_matches), while entries reserve slots and the      *)
(* revocation worker releases them, one store at a time.                    *)
(*                                                                         *)
(* SandboxSession models entry and revocation in full, with a request       *)
(* overlapping another; here one request per UID is in flight and the       *)
(* namespaces are left out.                                                 *)
(***************************************************************************)
EXTENDS Naturals, FiniteSets

CONSTANTS
    Task,
    UidOf, SidOf,       \* the full UID of a task, the SID of its sandbox
    MaxInstances,       \* ABK_SANDBOX_MAX_INSTANCES
    Root, OtherUid,     \* UID 0, the owner of a setuid program
    NoUid, NoSid,       \* what a released slot is cleared to
    AppSid,             \* the SID of an app outside the sandbox
    Socket,             \* [family, type, protocol] records tasks ask for
    MaxCalls            \* bound: hook calls in flight at a time

Slot == 1..MaxInstances
Uids == {UidOf[t] : t \in Task}
Sids == {SidOf[t] : t \in Task}

\* A SID holds the appId in its type and the caller's MLS range, which
\* Android makes different for the users of one app.
ASSUME MediationConstants ==
    /\ IsFiniteSet(Task)
    /\ MaxInstances \in Nat \ {0}
    /\ {Root, OtherUid, NoUid} \cap Uids = {}
    /\ {AppSid, NoSid} \cap Sids = {}
    /\ \A t, u \in Task : SidOf[t] = SidOf[u] => UidOf[t] = UidOf[u]

VARIABLES
    slot,   \* abk_instances[]
    mutex,  \* what the holder of abk_instance_mutex has begun, if anything
    pc,     \* app, reserving, entered (counted in entrants), committed or in
    cred,   \* the credential of a task
    rev,    \* the revocation request of a UID
    call    \* the hook a task is in

vars == <<slot, mutex, pc, cred, rev, call>>

FreeSlot == [allocated |-> FALSE, uid |-> NoUid, sid |-> NoSid, ready |-> FALSE,
             revoking |-> FALSE, entrants |-> 0]
Unlocked == [op |-> "none"]
NoRequest == [at |-> "idle", left |-> {}, alive |-> FALSE]
NoCall == [kind |-> "none"]

Instance == [allocated : BOOLEAN, uid : Uids \cup {NoUid}, sid : Sids \cup {NoSid},
             ready : BOOLEAN, revoking : BOOLEAN, entrants : Nat]
Lock == [op : {"reserve", "create", "release"}, slot : Slot, todo : SUBSET {"uid", "sid"},
         uid : Uids \cup {NoUid}, sid : Sids \cup {NoSid}]
Request == [at : {"idle", "queued", "scan"}, left : SUBSET Task, alive : BOOLEAN]
Ids == Uids \cup {Root, OtherUid}
Credential ==
    [uid : Ids, euid : Ids, suid : Ids, fsuid : Ids, gids : {"app", "sandbox", "moved"},
     groups : BOOLEAN, caps : BOOLEAN, locked : BOOLEAN, sid : Sids \cup {AppSid}]
Question == [uid : Ids \cup {NoUid}, sid : Sids \cup {AppSid, NoSid}, i : Slot,
             field : {"allocated", "uid", "sid"}, answer : {"none", "no", "yes"}]
IsCall(c) ==
    /\ DOMAIN c = {"kind", "at", "q", "arg", "target", "peer", "gone", "verdict"}
    /\ c.kind \in {"socket", "seccomp", "trace", "grant", "setid", "creds_for_exec",
                   "check_security", "committing_creds"}
    /\ c.at \in {"self", "again", "peer", "done"}
    /\ c.q \in Question /\ c.target \in Task /\ c.peer \in Credential
    /\ c.gone \in BOOLEAN /\ c.verdict \in BOOLEAN

\* The credential of an app: gids stands for gid, egid, sgid and fsgid, caps
\* for the five capability sets, locked for the securebits.
AppCred(t) ==
    [uid |-> UidOf[t], euid |-> UidOf[t], suid |-> UidOf[t], fsuid |-> UidOf[t],
     gids |-> "app", groups |-> TRUE, caps |-> TRUE, locked |-> FALSE, sid |-> AppSid]

\* abk_prepare_sandbox_cred
SandboxCred(t) ==
    [uid |-> UidOf[t], euid |-> Root, suid |-> UidOf[t], fsuid |-> UidOf[t],
     gids |-> "sandbox", groups |-> FALSE, caps |-> FALSE, locked |-> TRUE, sid |-> SidOf[t]]

Init ==
    /\ slot = [i \in Slot |-> FreeSlot]
    /\ mutex = Unlocked
    /\ pc = [t \in Task |-> "app"]
    /\ cred = [t \in Task |-> AppCred(t)]
    /\ rev = [u \in Uids |-> NoRequest]
    /\ call = [t \in Task |-> NoCall]

-----------------------------------------------------------------------------
(* Writers: a reservation and a release, field by field.                   *)

Locked == mutex # Unlocked
InUserMode(t) == call[t] = NoCall /\ pc[t] \in {"app", "in"}
OfUid(u) == {i \in Slot : slot[i].allocated /\ slot[i].uid = u}

\* Join an instance that is ready.
Join(t) ==
    /\ ~Locked /\ InUserMode(t) /\ pc[t] = "app"
    /\ \E i \in OfUid(UidOf[t]) :
        /\ slot[i].ready /\ ~slot[i].revoking /\ slot[i].sid = SidOf[t]
        /\ slot' = [slot EXCEPT ![i].entrants = @ + 1]
    /\ pc' = [pc EXCEPT ![t] = "entered"]
    /\ UNCHANGED <<mutex, cred, rev, call>>

Writing(op, i, u, s) ==
    [op |-> op, slot |-> i, todo |-> {"uid", "sid"}, uid |-> u, sid |-> s]

\* abk_reserve_locked in the first free slot.  The stores of uid and sid have
\* no order between them; allocated is published after both.
Reserve(t) ==
    /\ ~Locked /\ InUserMode(t) /\ pc[t] = "app"
    /\ OfUid(UidOf[t]) = {}
    /\ \E i \in Slot :
        /\ ~slot[i].allocated /\ \A j \in 1..(i - 1) : slot[j].allocated
        /\ mutex' = Writing("reserve", i, UidOf[t], SidOf[t])
    /\ pc' = [pc EXCEPT ![t] = "reserving"]
    /\ UNCHANGED <<slot, cred, rev, call>>

Store(f) ==
    /\ Locked /\ mutex.op # "create" /\ f \in mutex.todo
    /\ slot' = [slot EXCEPT ![mutex.slot] =
                    IF f = "uid" THEN [@ EXCEPT !.uid = mutex.uid]
                                 ELSE [@ EXCEPT !.sid = mutex.sid]]
    /\ mutex' = [mutex EXCEPT !.todo = @ \ {f}]
    /\ UNCHANGED <<pc, cred, rev, call>>

PublishReserved ==
    /\ Locked /\ mutex.op = "reserve" /\ mutex.todo = {}
    /\ slot' = [slot EXCEPT ![mutex.slot].allocated = TRUE]
    /\ mutex' = [mutex EXCEPT !.op = "create"]
    /\ UNCHANGED <<pc, cred, rev, call>>

\* The namespace is made with the mutex held ...
Create ==
    /\ Locked /\ mutex.op = "create"
    /\ slot' = [slot EXCEPT ![mutex.slot].ready = TRUE, ![mutex.slot].entrants = 1]
    /\ pc' = [t \in Task |-> IF pc[t] = "reserving" THEN "entered" ELSE pc[t]]
    /\ mutex' = Unlocked
    /\ UNCHANGED <<cred, rev, call>>

\* ... or not: abk_release_unready_locked.
CreateFails ==
    /\ Locked /\ mutex.op = "create"
    /\ mutex' = Writing("release", mutex.slot, NoUid, NoSid)
    /\ pc' = [t \in Task |-> IF pc[t] = "reserving" THEN "app" ELSE pc[t]]
    /\ UNCHANGED <<slot, cred, rev, call>>

PublishReleased ==
    /\ Locked /\ mutex.op = "release" /\ mutex.todo = {}
    /\ slot' = [slot EXCEPT ![mutex.slot] = FreeSlot]
    /\ mutex' = Unlocked
    /\ UNCHANGED <<pc, cred, rev, call>>

CommitCreds(t) ==
    /\ pc[t] = "entered"
    /\ cred' = [cred EXCEPT ![t] = SandboxCred(t)]
    /\ pc' = [pc EXCEPT ![t] = "committed"]
    /\ UNCHANGED <<slot, mutex, rev, call>>

\* abk_sandbox_entry_complete
EntryComplete(t) ==
    /\ ~Locked /\ pc[t] = "committed"
    /\ slot' = [i \in Slot |->
                    IF i \in OfUid(UidOf[t]) /\ slot[i].sid = SidOf[t]
                    THEN [slot[i] EXCEPT !.entrants = @ - 1] ELSE slot[i]]
    /\ pc' = [pc EXCEPT ![t] = "in"]
    /\ UNCHANGED <<mutex, cred, rev, call>>

-----------------------------------------------------------------------------
(* Revocation: mark; then in the worker detach, look for entrants, kill and *)
(* look whether anyone was alive, and only when nobody was, release.        *)

\* The tasks whose credential can have the UID.
OfApp(u) == {t \in Task : UidOf[t] = u}

Revoked(u) ==
    [i \in Slot |-> IF i \in OfUid(u)
                    THEN [slot[i] EXCEPT !.revoking = TRUE, !.ready = FALSE] ELSE slot[i]]

RevokeMark(u) ==
    /\ ~Locked /\ rev[u].at = "idle"
    /\ slot' = Revoked(u)
    /\ rev' = [rev EXCEPT ![u].at = "queued"]
    /\ UNCHANGED <<mutex, pc, cred, call>>

\* abk_revoke_detach_resources and abk_revoke_has_entrants.
RevokeDetach(u) ==
    /\ ~Locked /\ rev[u].at = "queued"
    /\ slot' = Revoked(u)
    /\ rev' = IF \E i \in OfUid(u) : slot[i].entrants > 0 THEN rev
              ELSE [rev EXCEPT ![u] = [at |-> "scan", left |-> OfApp(u), alive |-> FALSE]]
    /\ UNCHANGED <<mutex, pc, cred, call>>

Registered(u, s) ==
    \E i \in Slot : slot[i].allocated /\ slot[i].uid = u /\ slot[i].sid = s

\* One turn of abk_kill_instance_tasks.
KillScan(u, t) ==
    /\ rev[u].at = "scan" /\ t \in rev[u].left
    /\ rev' = [rev EXCEPT
                ![u].left = @ \ {t},
                ![u].alive = @ \/ /\ cred[t].fsuid = u /\ cred[t].euid = Root
                                  /\ Registered(u, cred[t].sid)]
    /\ UNCHANGED <<slot, mutex, pc, cred, call>>

\* Somebody was alive: again, or give up and keep the slots.
Retry(u) ==
    /\ rev[u].at = "scan" /\ rev[u].left = {} /\ rev[u].alive
    /\ \E r \in {[NoRequest EXCEPT !.at = "queued"], NoRequest} : rev' = [rev EXCEPT ![u] = r]
    /\ UNCHANGED <<slot, mutex, pc, cred, call>>

\* abk_revoke_release_slots: a UID has one slot at most (Reserve).
ReleaseSlot(u) ==
    LET idle == {i \in OfUid(u) : ~slot[i].ready /\ slot[i].entrants = 0}
    IN /\ mutex' = IF idle = {} THEN Unlocked
                   ELSE Writing("release", CHOOSE i \in idle : TRUE, NoUid, NoSid)
       /\ rev' = [rev EXCEPT ![u] = NoRequest]
       /\ UNCHANGED <<slot, pc, cred, call>>

\* Nobody was.
Release(u) ==
    /\ ~Locked /\ rev[u].at = "scan" /\ rev[u].left = {} /\ ~rev[u].alive
    /\ ReleaseSlot(u)

-----------------------------------------------------------------------------
(* Readers.                                                                *)

Query(u, s) == [uid |-> u, sid |-> s, i |-> 1, field |-> "allocated", answer |-> "none"]

\* The tests abk_sandbox_current makes before it looks at the table.
SandboxShape(c) ==
    /\ c.uid = c.fsuid /\ c.suid = c.fsuid /\ c.euid = Root
    /\ c.gids = "sandbox"
    /\ c.fsuid \in Uids

\* abk_sandbox_current begins.
AskCurrent(t) ==
    IF SandboxShape(cred[t]) THEN Query(cred[t].fsuid, cred[t].sid)
    ELSE [Query(cred[t].fsuid, cred[t].sid) EXCEPT !.answer = "no"]

\* Mutant: the target may be in the sandbox of another app.
AskPeerAnyUid(t, c) ==
    IF SandboxShape(c) THEN Query(c.fsuid, c.sid)
    ELSE [Query(c.fsuid, c.sid) EXCEPT !.answer = "no"]

\* abk_cred_is_sandbox_peer begins, for the credential c of the target.
AskPeer(t, c) ==
    IF SandboxShape(c) /\ c.fsuid = cred[t].fsuid THEN Query(c.fsuid, c.sid)
    ELSE [Query(c.fsuid, c.sid) EXCEPT !.answer = "no"]

Scanning(t, f) ==
    call[t].kind # "none" /\ call[t].at # "done" /\ call[t].q.answer = "none" /\ call[t].q.field = f

NextSlot(q) ==
    IF q.i < MaxInstances THEN [q EXCEPT !.i = @ + 1, !.field = "allocated"]
    ELSE [q EXCEPT !.answer = "no"]

Load(t, f, hit, q) ==
    /\ Scanning(t, f)
    /\ call' = [call EXCEPT ![t].q = IF hit THEN q ELSE NextSlot(@)]
    /\ UNCHANGED <<slot, mutex, pc, cred, rev>>

LoadAllocated(t) ==
    Load(t, "allocated", slot[call[t].q.i].allocated, [call[t].q EXCEPT !.field = "uid"])

LoadUid(t) ==
    Load(t, "uid", slot[call[t].q.i].uid = call[t].q.uid, [call[t].q EXCEPT !.field = "sid"])

LoadSid(t) ==
    Load(t, "sid", slot[call[t].q.i].sid = call[t].q.sid, [call[t].q EXCEPT !.answer = "yes"])

Answered(t, kinds, at) ==
    /\ call[t].kind \in kinds /\ call[t].at = at /\ call[t].q.answer # "none"

Yes(t) == call[t].q.answer = "yes"

\* The hook returns: verdict is TRUE for 0, or for a TRUE of the bool hooks.
Verdict(t, arg, b) ==
    /\ call' = [call EXCEPT ![t].at = "done", ![t].q = Query(NoUid, NoSid),
                            ![t].arg = arg, ![t].verdict = b]
    /\ UNCHANGED <<slot, mutex, pc, cred, rev>>

Ask(t, at, q) ==
    /\ call' = [call EXCEPT ![t].at = at, ![t].q = q]
    /\ UNCHANGED <<slot, mutex, pc, cred, rev>>

\* A system call reaches a hook.  What it asks for is only chosen where the
\* hook looks at it, which makes no difference.
Enter(t, kind, target) ==
    /\ InUserMode(t)
    /\ Cardinality({x \in Task : call[x] # NoCall}) < MaxCalls
    /\ call' = [call EXCEPT ![t] =
                    [kind |-> kind, at |-> "self", q |-> AskCurrent(t), arg |-> "none",
                     target |-> target, peer |-> cred[target], gone |-> FALSE, verdict |-> FALSE]]
    /\ UNCHANGED <<slot, mutex, pc, cred, rev>>

-----------------------------------------------------------------------------
(* abk_socket_create and abk_ksu_sandbox_seccomp_allow_syscall.            *)

SocketCreate(t) == Enter(t, "socket", t)

SocketAllowed(s) ==
    \/ s.family = "unix" /\ s.protocol = "none" /\ s.type \in {"stream", "dgram"}
    \/ s.family = "inet" /\ \/ s.type = "stream" /\ s.protocol \in {"none", "tcp"}
                            \/ s.type = "dgram" /\ s.protocol \in {"none", "udp"}

SocketDecide(t) ==
    /\ Answered(t, {"socket"}, "self")
    /\ \E s \in Socket : Verdict(t, s, Yes(t) => SocketAllowed(s))

SeccompAllow(t) == Enter(t, "seccomp", t)

SeccompDecide(t) ==
    /\ Answered(t, {"seccomp"}, "self")
    /\ \E nr \in {"mount", "umount2", "other"} :
            Verdict(t, nr, Yes(t) /\ nr \in {"mount", "umount2"})

-----------------------------------------------------------------------------
(* abk_ptrace_access_check and abk_task_kill ("trace"), and the calls of   *)
(* abk_ksu_sandbox_may_ptrace and may_signal the installer puts into the    *)
(* kernel's own permission checks ("grant").                                *)

Trace(t) == Enter(t, "trace", t)

\* May_ptrace alone starts where the hooks get to after their first test.
Grant(t) == \E x \in Task \ {t} : Enter(t, "grant", x)

\* The credential of the target is read once, then the caller is asked about
\* a second time.
TraceAgain(t) ==
    /\ Answered(t, {"trace"}, "self")
    /\ IF Yes(t)
       THEN /\ \E x \in Task \ {t} :
                    call' = [call EXCEPT ![t].at = "again", ![t].q = AskCurrent(t),
                                         ![t].target = x, ![t].peer = cred[x]]
            /\ UNCHANGED <<slot, mutex, pc, cred, rev>>
       ELSE Verdict(t, "none", TRUE)

MayPtrace(t) ==
    /\ Answered(t, {"trace"}, "again") \/ Answered(t, {"grant"}, "self")
    /\ IF Yes(t) THEN Ask(t, "peer", AskPeer(t, call[t].peer)) ELSE Verdict(t, "none", FALSE)

PeerDecide(t) ==
    /\ Answered(t, {"trace", "grant"}, "peer")
    /\ Verdict(t, "none", Yes(t))

-----------------------------------------------------------------------------
(* abk_task_fix_setuid and abk_task_fix_setgid.                            *)

\* External: what set*uid and set*gid propose for a task without CAP_SETUID
\* and CAP_SETGID.  A change of the effective ID moves the filesystem ID.
Proposals(c) ==
    LET ids == {c.uid, c.euid, c.suid}
    IN {[c EXCEPT !.uid = a, !.euid = b, !.suid = d, !.fsuid = b] : a \in ids, b \in ids, d \in ids}
       \cup {[c EXCEPT !.fsuid = a] : a \in ids} \cup {[c EXCEPT !.gids = "moved"]}

SetIds(t) == pc[t] = "in" /\ Enter(t, "setid", t)

SameIds(n, o) ==
    n.uid = o.uid /\ n.euid = o.euid /\ n.suid = o.suid /\ n.fsuid = o.fsuid /\ n.gids = o.gids

SetIdsDecide(t) ==
    /\ Answered(t, {"setid"}, "self")
    /\ \E n \in Proposals(cred[t]) :
            IF Yes(t) /\ ~SameIds(n, cred[t]) THEN Verdict(t, "none", FALSE) ELSE Verdict(t, n, TRUE)

-----------------------------------------------------------------------------
(* execve: three hooks, the kernel's own work between them (external).     *)

ExecBegin(t) == pc[t] = "in" /\ Enter(t, "creds_for_exec", t)

\* External: what prepare_exec_creds and SELinux's own hook may have made of
\* a credential by then.
Prepared(c) ==
    {c, [c EXCEPT !.fsuid = c.euid], [c EXCEPT !.suid = c.euid, !.fsuid = c.euid],
     [c EXCEPT !.gids = "moved"], [c EXCEPT !.sid = AppSid]}

\* The kernel goes on to bprm_check_security.
CredsForExec(t) ==
    /\ Answered(t, {"creds_for_exec"}, "self")
    /\ \E n \in Prepared(cred[t]) :
        call' = [call EXCEPT
                    ![t].kind = "check_security", ![t].q = AskCurrent(t),
                    ![t].arg = IF Yes(t) THEN [n EXCEPT !.fsuid = cred[t].fsuid, !.caps = FALSE]
                                         ELSE n]
    /\ UNCHANGED <<slot, mutex, pc, cred, rev>>

\* Mutant: the SID is not compared.
ExecCredOkAnySid(n, o) == SameIds(n, o) /\ ~n.groups /\ n.locked = o.locked /\ ~n.caps

ExecCredOk(n, o) ==
    SameIds(n, o) /\ ~n.groups /\ n.locked = o.locked /\ ~n.caps /\ n.sid = o.sid

\* A refusal, or the kernel goes on to bprm_committing_creds.
CheckSecurity(t) ==
    /\ Answered(t, {"check_security"}, "self")
    /\ IF Yes(t) /\ ~ExecCredOk(call[t].arg, cred[t])
       THEN Verdict(t, "none", FALSE)
       ELSE /\ call' = [call EXCEPT ![t].kind = "committing_creds", ![t].q = AskCurrent(t)]
            /\ UNCHANGED <<slot, mutex, pc, cred, rev>>

\* bprm_committing_creds cannot refuse: it writes the sandbox credential,
\* except for the groups and the SID, over what the program asked for.
Canonical(n, o) ==
    [n EXCEPT !.uid = o.fsuid, !.suid = o.fsuid, !.euid = Root, !.fsuid = o.fsuid,
              !.gids = "sandbox", !.caps = FALSE, !.locked = TRUE]

\* External: what bprm_creds_from_file has by then made of a setuid, setgid or capable program.
FromFile(n) ==
    {n, [n EXCEPT !.euid = OtherUid, !.suid = OtherUid, !.fsuid = OtherUid],
     [n EXCEPT !.gids = "moved"], [n EXCEPT !.caps = TRUE]}

CommittingCreds(t) ==
    /\ Answered(t, {"committing_creds"}, "self")
    /\ \E n \in FromFile(call[t].arg) :
            Verdict(t, IF Yes(t) THEN Canonical(n, cred[t]) ELSE n, TRUE)

\* The system call ends; commit_creds where there is a new credential.
Return(t) ==
    /\ call[t] # NoCall /\ call[t].at = "done"
    /\ cred' = IF call[t].verdict /\ call[t].kind \in {"setid", "committing_creds"}
               THEN [cred EXCEPT ![t] = call[t].arg] ELSE cred
    /\ call' = [call EXCEPT ![t] = NoCall]
    /\ UNCHANGED <<slot, mutex, pc, rev>>

-----------------------------------------------------------------------------
(* External: tasks fork and exit.                                          *)

\* The child is put at the end of the task list: a scan under way sees it.
Fork(t, c) ==
    /\ pc[t] = "in" /\ InUserMode(t) /\ pc[c] = "app" /\ InUserMode(c)
    /\ UidOf[c] = UidOf[t] /\ SidOf[c] = SidOf[t]
    /\ pc' = [pc EXCEPT ![c] = "in"]
    /\ cred' = [cred EXCEPT ![c] = cred[t]]
    /\ rev' = [u \in Uids |-> IF rev[u].at = "scan" /\ c \in OfApp(u)
                              THEN [rev[u] EXCEPT !.left = @ \cup {c}] ELSE rev[u]]
    /\ UNCHANGED <<slot, mutex, call>>

\* Another process of the app takes its place.
Exit(t) ==
    /\ pc[t] = "in" /\ InUserMode(t)
    /\ pc' = [pc EXCEPT ![t] = "app"]
    /\ cred' = [cred EXCEPT ![t] = AppCred(t)]
    /\ call' = [x \in Task |-> IF call[x] # NoCall /\ call[x].target = t
                               THEN [call[x] EXCEPT !.gone = TRUE] ELSE call[x]]
    /\ UNCHANGED <<slot, mutex, rev>>

Next ==
    \/ \E f \in {"uid", "sid"} : Store(f)
    \/ PublishReserved \/ Create \/ CreateFails \/ PublishReleased
    \/ \E u \in Uids : \/ RevokeMark(u) \/ RevokeDetach(u) \/ Retry(u) \/ Release(u)
                       \/ \E t \in Task : KillScan(u, t)
    \/ \E t \in Task :
        \/ Join(t) \/ Reserve(t) \/ CommitCreds(t) \/ EntryComplete(t)
        \/ LoadAllocated(t) \/ LoadUid(t) \/ LoadSid(t)
        \/ SocketCreate(t) \/ SocketDecide(t) \/ SeccompAllow(t) \/ SeccompDecide(t)
        \/ Trace(t) \/ Grant(t) \/ TraceAgain(t) \/ MayPtrace(t) \/ PeerDecide(t)
        \/ SetIds(t) \/ SetIdsDecide(t)
        \/ ExecBegin(t) \/ CredsForExec(t) \/ CheckSecurity(t) \/ CommittingCreds(t)
        \/ Return(t) \/ Exit(t)
        \/ \E c \in Task : Fork(t, c)

Spec == Init /\ [][Next]_vars

-----------------------------------------------------------------------------
(* Properties.                                                             *)

TypeOK ==
    /\ slot \in [Slot -> Instance]
    /\ mutex \in Lock \cup {Unlocked}
    /\ pc \in [Task -> {"app", "reserving", "entered", "committed", "in"}]
    /\ cred \in [Task -> Credential]
    /\ rev \in [Uids -> Request]
    /\ DOMAIN call = Task
    /\ \A t \in Task : call[t] # NoCall => IsCall(call[t])

\* A task that has entered the sandbox has the sandbox credential of its UID
\* for as long as it lives, whatever it execs and whichever IDs it sets, and
\* wherever a revocation falls between the hooks.
SandboxKept ==
    \A t \in Task : pc[t] \in {"committed", "in"} => cred[t] = SandboxCred(t)

Peers(t) == call[t].peer = SandboxCred(call[t].target) /\ UidOf[t] = UidOf[call[t].target]

\* What the hooks must answer: a sandboxed task gets exactly what the sandbox
\* allows, and reaches exactly the sandboxed tasks of its own UID; any other
\* task is neither restricted nor given anything.  About a target that exits
\* meanwhile either answer will do.
MediationExact ==
    \A t \in Task : call[t] # NoCall /\ call[t].at = "done" =>
        LET in == pc[t] = "in"
            c == call[t]
        IN CASE c.kind = "socket" -> c.verdict = (in => SocketAllowed(c.arg))
             [] c.kind = "seccomp" -> c.verdict = (in /\ c.arg # "other")
             [] c.kind = "trace" -> c.gone \/ c.verdict = (in => c.target # t /\ Peers(t))
             [] c.kind = "grant" -> c.gone \/ c.verdict = (in /\ Peers(t))
             [] OTHER -> TRUE
=============================================================================
