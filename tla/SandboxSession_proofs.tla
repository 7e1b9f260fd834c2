----------------------- MODULE SandboxSession_proofs -----------------------
(***************************************************************************)
(* SandboxSession for every number of slots, tasks, UIDs, SIDs, requests   *)
(* and retries.                                                            *)
(*                                                                         *)
(* Types first, with overlapping revocations and failing restores allowed. *)
(* TypeOK is not inductive by itself: a joining task moves to the          *)
(* namespace of the file it holds, which is one only because the slot it   *)
(* came from was ready with its namespace file set, which holds only       *)
(* because a slot of the UID is never half built.  IInv collects what the  *)
(* steps need of each other.                                               *)
(*                                                                         *)
(* Then who is inside, with overlapping revocations still: the entrant     *)
(* counter of namespace.c is exact.  The code raises the counter of a slot *)
(* it has found and lowers the one of the first slot with the task's UID   *)
(* and SID.  These are the same slot because a UID has one slot            *)
(* (GoodTable) and because a slot with entrants is never freed, which in   *)
(* turn needs the counter to be exact.                                     *)
(*                                                                         *)
(* Last, with the revocations of a UID one after the other: no task loses  *)
(* the slot it is recognised by, no slot is freed with its resources, the  *)
(* sandboxes have a mount namespace each, and SandboxContract is           *)
(* implemented.  SerialInv says what a request knows at each of its steps: *)
(* the slots it has passed are detached, nobody is entering them after it  *)
(* has seen no entrants, nobody is in them after a kill that found nobody. *)
(***************************************************************************)
EXTENDS SandboxSession, TLAPS, WellFoundedInduction, FiniteSetTheorems

-----------------------------------------------------------------------------
(* What the operations on the instance table preserve.  The state machine  *)
(* changes the table through these operations only, so its invariants      *)
(* about the table rest on the lemmas below.                               *)

\* An instance between two holds of the mutex (SandboxSession!SlotLifecycle).
Settled(i) ==
    /\ i.allocated =>
         /\ i.ready = ~i.revoking
         /\ i.ready => i.nsfile # NoNs
         /\ i.mounts
         /\ i.uid \in Uid /\ i.sid \in Sid
    /\ ~i.allocated => ~i.ready /\ ~i.revoking /\ i.entrants = 0

GoodTable(T) ==
    /\ T \in [Slot -> Instance]
    /\ \A s \in Slot : Settled(T[s])
    /\ \A r, s \in Slot :
            T[r].allocated /\ T[s].allocated /\ T[r].uid = T[s].uid => r = s

\* A slot under revocation stays so from table T to table U, or is freed.
KeepsRevoking(T, U) ==
    \A s \in Slot : T[s].revoking =>
        (U[s].revoking /\ ~U[s].ready) \/ ~U[s].allocated

-----------------------------------------------------------------------------
(* The first-match loops.                                                  *)

\* A loop over the array finds something if there is something to find: the
\* early returns of abk_find_ready_locked and the others lose no match.
LEMMA FirstOfNonempty ==
    ASSUME NEW S, S \subseteq Slot, S # {}
    PROVE  FirstOf(S) # {}
<1>1. S \subseteq Nat
  BY TableConstants DEF Slot
<1>2. PICK x \in S : \A y \in S : ~(<<y, x>> \in OpToRel(<, Nat))
  BY <1>1, NatLessThanWellFounded, WFMin, Zenon
<1>3. \A y \in S : ~(y < x)
  BY <1>1, <1>2 DEF OpToRel
<1>4. ASSUME NEW y \in S
      PROVE  x <= y
  <2>1. x \in Nat /\ y \in Nat
    BY <1>1
  <2>2. ~(y < x)
    BY <1>3
  <2> QED
    BY <2>1, <2>2
<1> QED
  BY <1>4 DEF FirstOf

\* abk_find_ready_locked returns NULL only if no slot of the UID is ready.
LEMMA NoReadySlot ==
    ASSUME NEW T, NEW u, ReadySlot(T, u) = {}
    PROVE  \A s \in Slot : ~(Owns(T[s], u) /\ T[s].ready)
<1> DEFINE S == {s \in Slot : Owns(T[s], u) /\ T[s].ready}
<1>1. S \subseteq Slot
  OBVIOUS
<1>2. FirstOf(S) = {}
  BY DEF ReadySlot
<1> HIDE DEF S
<1>3. S = {}
  BY <1>1, <1>2, FirstOfNonempty
<1> QED
  BY <1>3 DEF S

\* The slot abk_reserve_locked returns is free whenever every allocated slot
\* is settled: the half-built slot it looks for first does not exist.
LEMMA ReservedIsFree ==
    ASSUME NEW T, GoodTable(T), NEW u, NEW sd, NEW s \in ReserveSlot(T, u, sd)
    PROVE  s \in Slot /\ ~T[s].allocated
<1>1. \A r \in Slot : ~(Identifies(T[r], u, sd) /\ ~T[r].ready /\ ~T[r].revoking)
  BY DEF GoodTable, Settled, Identifies
<1> QED
  BY <1>1 DEF ReserveSlot, FirstOf

-----------------------------------------------------------------------------
(* The writing operations.                                                 *)

\* entrants++ changes neither flags nor owner.
LEMMA GoodEnter ==
    ASSUME NEW T, GoodTable(T), NEW s \in Slot, T[s].allocated
    PROVE  GoodTable(Enter(T, s)) /\ KeepsRevoking(T, Enter(T, s))
<1> DEFINE U == Enter(T, s)
<1>1. /\ U \in [Slot -> Instance]
      /\ \A r \in Slot : U[r] = IF r = s THEN [T[s] EXCEPT !.entrants = @ + 1] ELSE T[r]
  BY DEF Enter, GoodTable, Instance
<1>2. \A r \in Slot : Settled(T[r]) /\ T[r] \in Instance
  BY DEF GoodTable
<1>3. \A r \in Slot : /\ U[r].allocated = T[r].allocated
                      /\ U[r].uid = T[r].uid /\ U[r].sid = T[r].sid
                      /\ U[r].ready = T[r].ready /\ U[r].revoking = T[r].revoking
                      /\ U[r].nsfile = T[r].nsfile /\ U[r].mounts = T[r].mounts
                      /\ ~T[r].allocated => U[r].entrants = T[r].entrants
  BY <1>1, <1>2 DEF Instance
<1> HIDE DEF U
<1>4. GoodTable(U)
  BY <1>1, <1>2, <1>3 DEF GoodTable, Settled
<1>5. KeepsRevoking(T, U)
  BY <1>2, <1>3 DEF KeepsRevoking, Settled
<1> QED
  BY <1>4, <1>5 DEF U

\* A new instance for a UID that owns no slot keeps the table good.
LEMMA GoodEstablish ==
    ASSUME NEW T, GoodTable(T), NEW s \in Slot, ~T[s].allocated,
           NEW u \in Uid, NEW sd \in Sid, NEW n \in NsId,
           \A r \in Slot : ~Owns(T[r], u)
    PROVE  /\ GoodTable(Establish(T, s, u, sd, n))
           /\ KeepsRevoking(T, Establish(T, s, u, sd, n))
<1> DEFINE U == Establish(T, s, u, sd, n)
           i == [allocated |-> TRUE, ready |-> TRUE, revoking |-> FALSE,
                 uid |-> u, sid |-> sd, entrants |-> 1, nsfile |-> n, mounts |-> TRUE]
<1>1. i \in Instance /\ Settled(i)
  BY TableConstants DEF Instance, Settled
<1>2. U = [T EXCEPT ![s] = i]
  BY DEF Establish
<1>3. U \in [Slot -> Instance] /\ U[s] = i /\ \A r \in Slot \ {s} : U[r] = T[r]
  BY <1>1, <1>2 DEF GoodTable
<1>4. \A r \in Slot \ {s} : U[r].allocated => U[r].uid # u
  BY <1>3 DEF Owns
<1>5. U[s].uid = u
  BY <1>3
<1>6. \A r \in Slot : Settled(U[r])
  BY <1>1, <1>3 DEF GoodTable
<1>7. KeepsRevoking(T, U)
  BY <1>3 DEF KeepsRevoking, GoodTable, Settled
<1> HIDE DEF U, i
<1>8. GoodTable(U)
  BY <1>3, <1>4, <1>5, <1>6 DEF GoodTable
<1> QED
  BY <1>7, <1>8 DEF U

\* A failed creation leaves the reserved slot free again.
LEMMA GoodUnreserve ==
    ASSUME NEW T, GoodTable(T), NEW s \in Slot, ~T[s].allocated
    PROVE  GoodTable(Unreserve(T, s)) /\ KeepsRevoking(T, Unreserve(T, s))
<1>1. Unreserve(T, s) = [T EXCEPT ![s] = FreeInstance]
  BY DEF Unreserve
<1>2. FreeInstance \in Instance /\ Settled(FreeInstance) /\ ~FreeInstance.allocated
  BY DEF FreeInstance, Instance, Settled
<1> QED
  BY <1>1, <1>2 DEF GoodTable, KeepsRevoking, Settled

\* abk_sandbox_entry_complete only counts down, and never below zero.
LEMMA GoodComplete ==
    ASSUME NEW T, GoodTable(T), NEW u, NEW sd
    PROVE  GoodTable(Complete(T, u, sd)) /\ KeepsRevoking(T, Complete(T, u, sd))
<1> DEFINE U == Complete(T, u, sd)
<1>1. \A r \in Slot : Settled(T[r]) /\ T[r] \in Instance
  BY DEF GoodTable
<1>2. \A r \in Slot :
        \/ U[r] = T[r]
        \/ /\ T[r].entrants # 0
           /\ T[r].allocated
           /\ U[r] = [T[r] EXCEPT !.entrants = @ - 1]
  BY DEF Complete, FirstOf, Identifies
<1>3. DOMAIN U = Slot /\ U = [r \in Slot |-> U[r]]
  BY DEF Complete
<1> HIDE DEF U
<1>4. \A r \in Slot : /\ U[r] \in Instance
                      /\ U[r].allocated = T[r].allocated
                      /\ U[r].uid = T[r].uid /\ U[r].sid = T[r].sid
                      /\ U[r].ready = T[r].ready /\ U[r].revoking = T[r].revoking
                      /\ U[r].nsfile = T[r].nsfile /\ U[r].mounts = T[r].mounts
                      /\ ~T[r].allocated => U[r].entrants = T[r].entrants
  <2> TAKE r \in Slot
  <2>1. T[r] \in Instance
    BY <1>1
  <2>2. CASE U[r] = T[r]
    BY <2>1, <2>2
  <2>3. CASE /\ T[r].entrants # 0
             /\ T[r].allocated
             /\ U[r] = [T[r] EXCEPT !.entrants = @ - 1]
    <3>1. T[r].entrants - 1 \in Nat
      BY <2>1, <2>3 DEF Instance
    <3> QED
      BY <2>1, <2>3, <3>1 DEF Instance
  <2> QED
    BY <1>2, <2>2, <2>3
<1>5. U \in [Slot -> Instance]
  BY <1>3, <1>4
<1>6. GoodTable(U)
  BY <1>1, <1>4, <1>5 DEF GoodTable, Settled
<1>7. KeepsRevoking(T, U)
  BY <1>1, <1>4 DEF KeepsRevoking, Settled
<1> QED
  BY <1>6, <1>7 DEF U

\* abk_mark_uid_revoking turns ready slots into revoking ones.
LEMMA GoodMarkRevoking ==
    ASSUME NEW T, GoodTable(T), NEW u
    PROVE  GoodTable(MarkRevoking(T, u)) /\ KeepsRevoking(T, MarkRevoking(T, u))
<1> DEFINE U == MarkRevoking(T, u)
<1>1. \A r \in Slot : Settled(T[r]) /\ T[r] \in Instance
  BY DEF GoodTable
<1>2. \A r \in Slot : /\ U[r] \in Instance /\ Settled(U[r])
                      /\ U[r].allocated = T[r].allocated
                      /\ U[r].uid = T[r].uid
                      /\ T[r].revoking => U[r].revoking /\ ~U[r].ready
  BY <1>1 DEF MarkRevoking, Owns, Instance, Settled
<1>3. U \in [Slot -> Instance]
  BY <1>2 DEF MarkRevoking
<1> HIDE DEF U
<1>4. GoodTable(U)
  BY <1>2, <1>3 DEF GoodTable
<1>5. KeepsRevoking(T, U)
  BY <1>2 DEF KeepsRevoking
<1> QED
  BY <1>4, <1>5 DEF U

\* Giving up the resources of a slot keeps it, revoking, even if it was not
\* marked before.
LEMMA GoodDetachSlot ==
    ASSUME NEW T, GoodTable(T), NEW s \in Slot, NEW u
    PROVE  GoodTable(DetachSlot(T, s, u)) /\ KeepsRevoking(T, DetachSlot(T, s, u))
<1> DEFINE U == DetachSlot(T, s, u)
<1>1. \A r \in Slot : Settled(T[r]) /\ T[r] \in Instance
  BY DEF GoodTable
<1>2. \A r \in Slot : U[r] = IF r = s /\ Owns(T[s], u)
                             THEN [T[s] EXCEPT !.revoking = TRUE, !.ready = FALSE,
                                               !.nsfile = NoNs]
                             ELSE T[r]
  BY DEF DetachSlot, GoodTable
<1>3. U \in [Slot -> Instance]
  BY DEF DetachSlot, GoodTable, Instance
<1> HIDE DEF U
<1>4. \A r \in Slot : /\ Settled(U[r])
                      /\ U[r].allocated = T[r].allocated
                      /\ U[r].uid = T[r].uid
                      /\ T[r].revoking => U[r].revoking /\ ~U[r].ready
  <2> TAKE r \in Slot
  <2>1. T[r] \in Instance /\ Settled(T[r])
    BY <1>1
  <2>2. CASE r = s /\ Owns(T[s], u)
    <3>1. U[r] = [T[r] EXCEPT !.revoking = TRUE, !.ready = FALSE, !.nsfile = NoNs]
      BY <1>2, <2>2
    <3>2. T[r].allocated
      BY <2>2 DEF Owns
    <3> QED
      BY <2>1, <3>1, <3>2 DEF Instance, Settled
  <2>3. CASE ~(r = s /\ Owns(T[s], u))
    <3>1. U[r] = T[r]
      BY <1>2, <2>3
    <3> QED
      BY <2>1, <3>1 DEF Settled
  <2> QED
    BY <2>2, <2>3
<1>5. GoodTable(U)
  BY <1>3, <1>4 DEF GoodTable
<1>6. KeepsRevoking(T, U)
  BY <1>4 DEF KeepsRevoking
<1> QED
  BY <1>5, <1>6 DEF U

\* abk_revoke_release_slots frees whole slots: no flag or entrant survives.
LEMMA GoodReleaseSlots ==
    ASSUME NEW T, GoodTable(T), NEW u
    PROVE  GoodTable(ReleaseSlots(T, u)) /\ KeepsRevoking(T, ReleaseSlots(T, u))
<1> DEFINE U == ReleaseSlots(T, u)
<1>1. \A r \in Slot : Settled(T[r]) /\ T[r] \in Instance
  BY DEF GoodTable
<1>2. \A r \in Slot : /\ U[r] \in Instance /\ Settled(U[r])
                      /\ U[r].allocated => U[r] = T[r]
                      /\ U[r] = T[r] \/ ~U[r].allocated
  BY <1>1 DEF ReleaseSlots, Owns, Instance, Settled
<1>3. U \in [Slot -> Instance]
  BY <1>2 DEF ReleaseSlots
<1> HIDE DEF U
<1>4. GoodTable(U)
  BY <1>2, <1>3 DEF GoodTable
<1>5. KeepsRevoking(T, U)
  BY <1>1, <1>2 DEF KeepsRevoking, Settled
<1> QED
  BY <1>4, <1>5 DEF U

-----------------------------------------------------------------------------
(* The state machine.                                                      *)

JoiningHasFile == \A t \in Task : pc[t] = "joining" => file[t] \in NsId

BusyHasUid == \A w \in Work : wk[w].pc # "free" => wk[w].uid \in Uid

IInv == TypeOK /\ GoodTable(tbl) /\ JoiningHasFile /\ BusyHasUid

\* A good table is what the two table invariants of the runs ask for.
LEMMA GoodTableIsSettled ==
    GoodTable(tbl) => SlotLifecycle /\ OneSlotPerUid
BY DEF GoodTable, Settled, SlotLifecycle, OneSlotPerUid

\* The zeroed table with every task outside and no revocation under way.
LEMMA InitIInv == Init => IInv
<1> SUFFICES ASSUME Init PROVE IInv
  OBVIOUS
<1>1. FreeInstance \in Instance
  BY DEF FreeInstance, Instance
<1>2. tbl \in [Slot -> Instance] /\ \A s \in Slot : tbl[s] = FreeInstance
  BY <1>1 DEF Init, EmptyTable
<1>3. GoodTable(tbl)
  BY <1>2 DEF GoodTable, Settled, FreeInstance
<1>4. 1 \in Slot
  BY TableConstants DEF Slot
<1>5. IdleCaller \in Caller /\ FreeRequest \in Request
  BY <1>4, SessionConstants DEF IdleCaller, FreeRequest, Caller, Request
<1>6. TypeOK
  BY <1>2, <1>5, SessionConstants DEF Init, TypeOK, Steps
<1> QED
  BY <1>3, <1>6 DEF IInv, Init, JoiningHasFile, BusyHasUid, FreeRequest

-----------------------------------------------------------------------------
(* The table.                                                              *)

\* A task that may create an instance has a UID that owns no slot: a settled
\* slot is ready or revoking, and both were looked for.
LEMMA UnownedWhenMayCreate ==
    ASSUME GoodTable(tbl), NEW t \in Task, MayCreate(t)
    PROVE  \A r \in Slot : ~Owns(tbl[r], UidOf[t])
<1> SUFFICES ASSUME NEW r \in Slot
             PROVE  ~Owns(tbl[r], UidOf[t])
  OBVIOUS
<1>1. ~(Owns(tbl[r], UidOf[t]) /\ tbl[r].ready)
  BY NoReadySlot DEF MayCreate
<1>2. ~(Owns(tbl[r], UidOf[t]) /\ tbl[r].revoking)
  BY DEF MayCreate, UidRevoking
<1>3. tbl[r].allocated => tbl[r].ready \/ tbl[r].revoking
  BY DEF GoodTable, Settled
<1> QED
  BY <1>1, <1>2, <1>3 DEF Owns

\* Every step keeps the table good and no step revives a slot that is being
\* revoked.
LEMMA TableStep ==
    ASSUME IInv, [Next]_vars
    PROVE  GoodTable(tbl') /\ KeepsRevoking(tbl, tbl')
<1> USE DEF IInv
<1>1. GoodTable(tbl)
  OBVIOUS
<1>2. ASSUME UNCHANGED tbl
      PROVE  GoodTable(tbl') /\ KeepsRevoking(tbl, tbl')
  <2>1. KeepsRevoking(tbl, tbl)
    BY <1>1 DEF KeepsRevoking, GoodTable, Settled
  <2> QED
    BY <1>1, <1>2, <2>1
<1>3. ASSUME NEW t \in Task, JoinReady(t)
      PROVE  GoodTable(tbl') /\ KeepsRevoking(tbl, tbl')
  <2>1. PICK s \in ReadySlot(tbl, UidOf[t]) : tbl' = Enter(tbl, s)
    BY <1>3 DEF JoinReady
  <2>2. s \in Slot /\ tbl[s].allocated
    BY <2>1 DEF ReadySlot, FirstOf, Owns
  <2> QED
    BY <1>1, <2>1, <2>2, GoodEnter
<1>4. ASSUME NEW t \in Task, CreateNamespace(t)
      PROVE  GoodTable(tbl') /\ KeepsRevoking(tbl, tbl')
  <2>1. PICK s \in ReserveSlot(tbl, UidOf[t], SidOf[t]), n \in FreshNs :
            tbl' = Establish(tbl, s, UidOf[t], SidOf[t], n)
    BY <1>4 DEF CreateNamespace
  <2>2. UidOf[t] \in Uid /\ SidOf[t] \in Sid /\ n \in NsId
    BY SessionConstants DEF FreshNs
  <2>3. s \in Slot /\ ~tbl[s].allocated
    BY <1>1, ReservedIsFree
  <2>4. \A r \in Slot : ~Owns(tbl[r], UidOf[t])
    BY <1>1, <1>4, UnownedWhenMayCreate DEF CreateNamespace
  <2> QED
    BY <1>1, <2>1, <2>2, <2>3, <2>4, GoodEstablish
<1>5. ASSUME NEW t \in Task, CreateFails(t)
      PROVE  GoodTable(tbl') /\ KeepsRevoking(tbl, tbl')
  <2>1. PICK s \in ReserveSlot(tbl, UidOf[t], SidOf[t]) : tbl' = Unreserve(tbl, s)
    BY <1>5 DEF CreateFails
  <2>2. s \in Slot /\ ~tbl[s].allocated
    BY <1>1, ReservedIsFree
  <2> QED
    BY <1>1, <2>1, <2>2, GoodUnreserve
<1>6. ASSUME NEW t \in Task, JoinFails(t) \/ EntryComplete(t)
      PROVE  GoodTable(tbl') /\ KeepsRevoking(tbl, tbl')
  BY <1>1, <1>6, GoodComplete DEF JoinFails, EntryComplete
<1>7. ASSUME NEW u \in Uid, RevokeMark(u)
      PROVE  GoodTable(tbl') /\ KeepsRevoking(tbl, tbl')
  BY <1>1, <1>7, GoodMarkRevoking DEF RevokeMark
<1>8. ASSUME NEW u \in Uid, CallerDetach(u)
      PROVE  GoodTable(tbl') /\ KeepsRevoking(tbl, tbl')
  <2>1. rv[u].scan \in Slot
    BY DEF TypeOK, Caller
  <2> QED
    BY <1>1, <1>8, <2>1, GoodDetachSlot DEF CallerDetach
<1>9. ASSUME NEW w \in Work, WorkerDetach(w)
      PROVE  GoodTable(tbl') /\ KeepsRevoking(tbl, tbl')
  <2>1. wk[w].scan \in Slot
    BY DEF TypeOK, Request
  <2> QED
    BY <1>1, <1>9, <2>1, GoodDetachSlot DEF WorkerDetach
<1>10. ASSUME NEW w \in Work, WorkerRelease(w)
       PROVE  GoodTable(tbl') /\ KeepsRevoking(tbl, tbl')
  BY <1>1, <1>10, GoodReleaseSlots DEF WorkerRelease
<1>11. ASSUME NEW t \in Task,
              \/ Authorize(t) \/ EscapeReturns(t) \/ JoinRejected(t)
              \/ JoinNamespace(t) \/ CreateDenied(t) \/ CommitCreds(t) \/ Exit(t)
       PROVE  UNCHANGED tbl
  BY <1>11 DEF Authorize, EscapeReturns, JoinRejected, JoinNamespace,
               CreateDenied, CommitCreds, Exit
<1>12. ASSUME NEW u \in Uid,
              \/ ProfileAllow(u) \/ ProfileDeny(u) \/ PruneBegin(u)
              \/ RevokeQueue(u) \/ RevokeNoMemory(u) \/ CallerKill(u)
              \/ PruneRemove(u)
       PROVE  UNCHANGED tbl
  BY <1>12 DEF ProfileAllow, ProfileDeny, PruneBegin, RevokeQueue,
               RevokeNoMemory, CallerKill, PruneRemove
<1>13. ASSUME NEW w \in Work, WorkerEntrants(w) \/ WorkerKill(w)
       PROVE  UNCHANGED tbl
  BY <1>13 DEF WorkerEntrants, WorkerKill
<1>14. ASSUME NEW t \in Task, NEW c \in Task, Fork(t, c)
       PROVE  UNCHANGED tbl
  BY <1>14 DEF Fork
<1>15. UNCHANGED vars => UNCHANGED tbl
  BY DEF vars
<1> QED
  BY <1>2, <1>3, <1>4, <1>5, <1>6, <1>7, <1>8, <1>9, <1>10, <1>11, <1>12,
     <1>13, <1>14, <1>15
     DEF Next, EntryStep, CallerStep, WorkerStep

-----------------------------------------------------------------------------
(* The rest of the state.                                                  *)

\* The tasks' part of TypeOK, with what a joining task holds.
TasksOK ==
    /\ pc \in [Task -> Steps]
    /\ ns \in [Task -> NsId \cup {AppNs}]
    /\ file \in [Task -> NsId \cup {NoNs}]
    /\ killed \subseteq Task
    /\ JoiningHasFile

\* The revocation's part.
RevokeOK ==
    /\ allowed \in [Uid -> BOOLEAN]
    /\ rv \in [Uid -> Caller]
    /\ wk \in [Work -> Request]
    /\ retained \subseteq Uid
    /\ BusyHasUid

\* The steps of abk_sandbox_try_escape and of a task's life keep every variable
\* but the table in its type; JoinReady hands out a namespace file because a
\* ready slot of a good table has one.
LEMMA EntryTypes ==
    ASSUME IInv, NEW t \in Task, Authorize(t) \/ EntryStep(t) \/ Exit(t)
    PROVE  TasksOK' /\ RevokeOK'
<1> USE DEF IInv, TypeOK, JoiningHasFile, BusyHasUid, TasksOK, RevokeOK,
            Steps, revokeVars
<1>1. CASE Authorize(t)
  BY <1>1 DEF Authorize
<1>2. CASE EscapeReturns(t)
  BY <1>2 DEF EscapeReturns
<1>3. CASE JoinRejected(t)
  BY <1>3 DEF JoinRejected
<1>4. CASE JoinReady(t)
  <2>1. PICK s \in ReadySlot(tbl, UidOf[t]) :
            file' = [file EXCEPT ![t] = tbl[s].nsfile]
    BY <1>4 DEF JoinReady
  <2>2. s \in Slot /\ tbl[s].allocated /\ tbl[s].ready
    BY <2>1 DEF ReadySlot, FirstOf, Owns
  <2>3. tbl[s].nsfile \in NsId
    BY <2>2 DEF GoodTable, Settled, Instance
  <2> QED
    BY <1>4, <2>1, <2>3 DEF JoinReady
<1>5. CASE JoinNamespace(t)
  BY <1>5 DEF JoinNamespace
<1>6. CASE JoinFails(t)
  BY <1>6 DEF JoinFails
<1>7. CASE CreateDenied(t)
  BY <1>7 DEF CreateDenied
<1>8. CASE CreateNamespace(t)
  BY <1>8 DEF CreateNamespace, MayCreate, FreshNs
<1>9. CASE CreateFails(t)
  BY <1>9 DEF CreateFails, MayCreate, FreshNs
<1>10. CASE CommitCreds(t)
  BY <1>10 DEF CommitCreds
<1>11. CASE EntryComplete(t)
  BY <1>11 DEF EntryComplete
<1>12. CASE Exit(t)
  BY <1>12 DEF Exit
<1> QED
  BY <1>1, <1>2, <1>3, <1>4, <1>5, <1>6, <1>7, <1>8, <1>9, <1>10, <1>11, <1>12
     DEF EntryStep

\* A fork copies a namespace that is one.
LEMMA ForkTypes ==
    ASSUME IInv, NEW t \in Task, NEW c \in Task, Fork(t, c)
    PROVE  TasksOK' /\ RevokeOK'
BY DEF IInv, TypeOK, JoiningHasFile, BusyHasUid, TasksOK, RevokeOK,
       Steps, revokeVars, Fork

\* The same of the allowlist caller inside the revocation hook: its scan stays
\* inside the array and the request it queues carries its UID.
LEMMA CallerTypes ==
    ASSUME IInv, NEW u \in Uid,
           ProfileAllow(u) \/ ProfileDeny(u) \/ PruneBegin(u) \/ CallerStep(u)
    PROVE  TasksOK' /\ RevokeOK'
<1> USE DEF IInv, TypeOK, JoiningHasFile, BusyHasUid, TasksOK, RevokeOK,
            Steps, taskVars
<1>1. /\ 1 \in Slot
      /\ \A i \in Slot : i < MaxInstances => i + 1 \in Slot
  BY TableConstants DEF Slot
<1>2. rv[u] \in Caller
  OBVIOUS
<1>3. CASE ProfileAllow(u)
  BY <1>3 DEF ProfileAllow
<1>4. CASE ProfileDeny(u)
  BY <1>1, <1>4 DEF ProfileDeny, IdleCaller, Caller
<1>5. CASE PruneBegin(u)
  BY <1>1, <1>5 DEF PruneBegin, IdleCaller, Caller
<1>6. CASE RevokeMark(u)
  BY <1>6 DEF RevokeMark, Caller
<1>7. ASSUME HookReturns(u)
      PROVE  rv' \in [Uid -> Caller]
  BY <1>1, <1>7 DEF HookReturns, IdleCaller, Caller
<1>8. CASE RevokeQueue(u)
  <2> DEFINE q == [pc |-> "detach", uid |-> u, scan |-> 1, retries |-> 0]
  <2>1. PICK w \in Work : wk' = [wk EXCEPT ![w] = q]
    BY <1>8 DEF RevokeQueue
  <2>2. q \in Request
    BY <1>1, SessionConstants DEF Request
  <2>3. q.uid \in Uid
    OBVIOUS
  <2> HIDE DEF q
  <2>4. wk' \in [Work -> Request]
    BY <2>1, <2>2
  <2>5. BusyHasUid'
    BY <2>1, <2>3
  <2> QED
    BY <1>7, <1>8, <2>4, <2>5 DEF RevokeQueue
<1>9. CASE RevokeNoMemory(u)
  BY <1>9 DEF RevokeNoMemory, Caller
<1>10. CASE CallerDetach(u)
  <2>1. (IF rv[u].scan < MaxInstances THEN [rv[u] EXCEPT !.scan = @ + 1]
                                      ELSE [rv[u] EXCEPT !.at = "kill"]) \in Caller
    BY <1>1, <1>2 DEF Caller
  <2> QED
    BY <1>10, <2>1 DEF CallerDetach
<1>11. CASE CallerKill(u)
  BY <1>7, <1>11 DEF CallerKill, Victims
<1>12. CASE PruneRemove(u)
  BY <1>1, <1>12 DEF PruneRemove, IdleCaller, Caller
<1> QED
  BY <1>3, <1>4, <1>5, <1>6, <1>8, <1>9, <1>10, <1>11, <1>12 DEF CallerStep

\* The same of abk_revoke_worker: the scan restarts at the first slot and the
\* retries never pass ABK_REVOKE_RETRIES.
LEMMA WorkerTypes ==
    ASSUME IInv, NEW w \in Work, WorkerStep(w)
    PROVE  TasksOK' /\ RevokeOK'
<1> USE DEF IInv, TypeOK, JoiningHasFile, BusyHasUid, TasksOK, RevokeOK,
            Steps, taskVars
<1>1. /\ 1 \in Slot
      /\ \A i \in Slot : i < MaxInstances => i + 1 \in Slot
  BY TableConstants DEF Slot
<1>2. wk[w] \in Request /\ (wk[w].pc # "free" => wk[w].uid \in Uid)
  OBVIOUS
<1>3. FreeRequest \in Request /\ FreeRequest.pc = "free"
  BY <1>1, SessionConstants DEF FreeRequest, Request
<1>4. ASSUME wk[w].pc # "free", WorkerRetry(w) \/ WorkerGivesUp(w)
      PROVE  wk' \in [Work -> Request] /\ BusyHasUid' /\ retained' \subseteq Uid
  <2>1. CASE WorkerRetry(w)
    <3>1. wk[w].retries + 1 \in 0..MaxRetries
      BY <1>2, <2>1, SessionConstants DEF WorkerRetry, Request
    <3>2. [wk[w] EXCEPT !.pc = "detach", !.scan = 1, !.retries = @ + 1] \in Request
      BY <1>1, <1>2, <3>1 DEF Request
    <3> QED
      BY <1>2, <1>4, <2>1, <3>2 DEF WorkerRetry, Request
  <2>2. CASE WorkerGivesUp(w)
    BY <1>2, <1>3, <1>4, <2>2 DEF WorkerGivesUp
  <2> QED
    BY <1>4, <2>1, <2>2
<1>5. CASE WorkerDetach(w)
  <2> DEFINE q == IF wk[w].scan < MaxInstances THEN [wk[w] EXCEPT !.scan = @ + 1]
                                               ELSE [wk[w] EXCEPT !.pc = "entrants"]
  <2>1. q \in Request /\ q.uid = wk[w].uid
    BY <1>1, <1>2 DEF Request
  <2>2. wk' = [wk EXCEPT ![w] = q] /\ wk[w].uid \in Uid
    BY <1>2, <1>5 DEF WorkerDetach
  <2> HIDE DEF q
  <2>3. wk' \in [Work -> Request] /\ BusyHasUid'
    BY <2>1, <2>2
  <2> QED
    BY <1>5, <2>3 DEF WorkerDetach
<1>6. CASE WorkerEntrants(w)
  <2>1. wk[w].pc # "free"
    BY <1>6 DEF WorkerEntrants
  <2>2. CASE WorkerRetry(w) \/ WorkerGivesUp(w)
    BY <1>4, <1>6, <2>1, <2>2 DEF WorkerEntrants
  <2>3. CASE wk' = [wk EXCEPT ![w].pc = "kill"] /\ UNCHANGED retained
    BY <1>2, <1>6, <2>1, <2>3 DEF WorkerEntrants, Request
  <2> QED
    BY <1>6, <2>2, <2>3 DEF WorkerEntrants
<1>7. CASE WorkerKill(w)
  <2>1. wk[w].pc # "free" /\ killed' \subseteq Task
    BY <1>7 DEF WorkerKill, Victims
  <2>2. CASE WorkerRetry(w) \/ WorkerGivesUp(w)
    BY <1>4, <1>7, <2>1, <2>2 DEF WorkerKill
  <2>3. CASE wk' = [wk EXCEPT ![w].pc = "release"] /\ UNCHANGED retained
    BY <1>2, <1>7, <2>1, <2>3 DEF WorkerKill, Request
  <2> QED
    BY <1>7, <2>2, <2>3 DEF WorkerKill
<1>8. CASE WorkerRelease(w)
  BY <1>3, <1>8 DEF WorkerRelease
<1> QED
  BY <1>5, <1>6, <1>7, <1>8 DEF WorkerStep

\* IInv is inductive.
LEMMA NextIInv == IInv /\ [Next]_vars => IInv'
<1> SUFFICES ASSUME IInv, [Next]_vars PROVE IInv'
  OBVIOUS
<1>1. GoodTable(tbl')
  BY TableStep
<1>2. TasksOK' /\ RevokeOK'
  <2>1. CASE UNCHANGED vars
    BY <2>1 DEF vars, IInv, TypeOK, JoiningHasFile, BusyHasUid, TasksOK, RevokeOK
  <2>2. CASE Next
    BY <2>2, EntryTypes, ForkTypes, CallerTypes, WorkerTypes DEF Next
  <2> QED
    BY <2>1, <2>2
<1> QED
  BY <1>1, <1>2 DEF IInv, TypeOK, TasksOK, RevokeOK, GoodTable

-----------------------------------------------------------------------------
(* The theorems.                                                           *)

\* The inductive invariant holds of every behaviour.
THEOREM IInvHolds == Spec => []IInv
BY InitIInv, NextIInv, PTL DEF Spec

\* Every variable of the entry and revocation keeps its type; in particular a
\* joining task always gets a mount namespace from the file it was handed
\* outside the mutex.
THEOREM TypeCorrect == Spec => []TypeOK
<1>1. IInv => TypeOK
  BY DEF IInv
<1> QED
  BY <1>1, IInvHolds, PTL

\* A full UID never has two instances.
THEOREM OneInstance == Spec => []OneSlotPerUid
<1>1. IInv => OneSlotPerUid
  BY GoodTableIsSettled DEF IInv
<1> QED
  BY <1>1, IInvHolds, PTL

\* An allocated slot is ready or revoking, never both, never neither.
THEOREM SlotsSettled == Spec => []SlotLifecycle
<1>1. IInv => SlotLifecycle
  BY GoodTableIsSettled DEF IInv
<1> QED
  BY <1>1, IInvHolds, PTL

\* A slot under revocation stays revoking and not ready until it is freed.
THEOREM NeverRevived == Spec => RevokingUntilFreed
<1> DEFINE A == \A s \in Slot : tbl[s].revoking =>
                    (tbl'[s].revoking /\ ~tbl'[s].ready) \/ ~tbl'[s].allocated
<1>1. IInv /\ [Next]_vars => [A]_vars
  BY TableStep DEF KeepsRevoking
<1>2. Spec => [][A]_vars
  BY <1>1, IInvHolds, PTL DEF Spec
<1> QED
  BY <1>2 DEF RevokingUntilFreed

-----------------------------------------------------------------------------
(* Who is inside.                                                          *)

\* The tasks of P that slot s of table T counts.
Counted(T, P, s) == {t \in P : UidOf[t] = T[s].uid /\ SidOf[t] = T[s].sid}

\* Table T counts exactly the tasks of P, and has a slot for each of them.
Exact(T, P) ==
    /\ \A s \in Slot : T[s].allocated => T[s].entrants = Cardinality(Counted(T, P, s))
    /\ \A t \in P : IdentityMatches(T, UidOf[t], SidOf[t])

\* The tasks between entrants++ and abk_sandbox_entry_complete.
InEntry == {t \in Task : Entering(t)}

-----------------------------------------------------------------------------
(* The counter under each operation of the table.                          *)

\* A slot counts finitely many tasks.
LEMMA CountedFinite ==
    ASSUME NEW T, NEW P \in SUBSET Task, NEW s
    PROVE  IsFiniteSet(Counted(T, P, s)) /\ Cardinality(Counted(T, P, s)) \in Nat
<1>1. Counted(T, P, s) \in SUBSET Task
  BY DEF Counted
<1>2. IsFiniteSet(Counted(T, P, s))
  BY <1>1, SessionConstants, FS_Subset
<1> QED
  BY <1>2, FS_CardinalityType

\* An operation that keeps owner and counter of the allocated slots, and
\* allocates and frees none, keeps the count.
LEMMA ExactSame ==
    ASSUME NEW T, NEW U, NEW P \in SUBSET Task, Exact(T, P),
           \A s \in Slot : U[s].allocated <=> T[s].allocated,
           \A s \in Slot : T[s].allocated =>
                U[s].uid = T[s].uid /\ U[s].sid = T[s].sid
                /\ U[s].entrants = T[s].entrants
    PROVE  Exact(U, P)
<1>1. ASSUME NEW s \in Slot, U[s].allocated
      PROVE  U[s].entrants = Cardinality(Counted(U, P, s))
  <2>1. Counted(U, P, s) = Counted(T, P, s)
    BY <1>1 DEF Counted
  <2> QED
    BY <1>1, <2>1 DEF Exact
<1>2. ASSUME NEW t \in P
      PROVE  IdentityMatches(U, UidOf[t], SidOf[t])
  BY <1>2 DEF Exact, IdentityMatches, Identifies
<1> QED
  BY <1>1, <1>2 DEF Exact

\* entrants++ of the slot that names the task counts that task and no other
\* slot does.
LEMMA ExactEnter ==
    ASSUME NEW T, GoodTable(T), NEW P \in SUBSET Task, Exact(T, P),
           NEW t \in Task \ P, NEW s \in Slot,
           Identifies(T[s], UidOf[t], SidOf[t])
    PROVE  Exact(Enter(T, s), P \cup {t})
<1> DEFINE U == Enter(T, s)
<1>1. \A r \in Slot : T[r] \in Instance
  BY DEF GoodTable
<1>2. /\ \A r \in Slot \ {s} : U[r] = T[r]
      /\ U[s] = [T[s] EXCEPT !.entrants = T[s].entrants + 1]
  BY DEF Enter, GoodTable
<1>3. /\ U[s].allocated /\ U[s].uid = T[s].uid /\ U[s].sid = T[s].sid
      /\ U[s].entrants = T[s].entrants + 1
  BY <1>1, <1>2 DEF Instance, Identifies
<1> HIDE DEF U
<1>4. \A r \in Slot \ {s} : T[r].allocated => T[r].uid # UidOf[t]
  BY DEF GoodTable, Identifies
<1>5. ASSUME NEW r \in Slot, U[r].allocated
      PROVE  U[r].entrants = Cardinality(Counted(U, P \cup {t}, r))
  <2>1. CASE r = s
    <3>1. Counted(U, P \cup {t}, s) = Counted(T, P, s) \cup {t}
      BY <1>3 DEF Counted, Identifies
    <3>2. t \notin Counted(T, P, s)
      BY DEF Counted
    <3>3. IsFiniteSet(Counted(T, P, s))
      BY CountedFinite
    <3>4. Cardinality(Counted(T, P, s) \cup {t}) = Cardinality(Counted(T, P, s)) + 1
      BY <3>2, <3>3, FS_AddElement
    <3>5. T[s].entrants = Cardinality(Counted(T, P, s))
      BY DEF Exact, Identifies
    <3> QED
      BY <1>3, <2>1, <3>1, <3>4, <3>5
  <2>2. CASE r # s
    <3>1. Counted(U, P \cup {t}, r) = Counted(T, P, r)
      BY <1>2, <1>4, <1>5, <2>2 DEF Counted
    <3> QED
      BY <1>2, <1>5, <2>2, <3>1 DEF Exact
  <2> QED
    BY <2>1, <2>2
<1>6. ASSUME NEW r \in P \cup {t}
      PROVE  IdentityMatches(U, UidOf[r], SidOf[r])
  <2>1. PICK q \in Slot : Identifies(T[q], UidOf[r], SidOf[r])
    BY DEF Exact, IdentityMatches
  <2>2. Identifies(U[q], UidOf[r], SidOf[r])
    BY <1>2, <1>3, <2>1 DEF Identifies
  <2> QED
    BY <2>2 DEF IdentityMatches
<1> QED
  BY <1>5, <1>6 DEF Exact, U

\* A new instance for a UID without a slot counts its creator only.
LEMMA ExactEstablish ==
    ASSUME NEW T, GoodTable(T), NEW P \in SUBSET Task, Exact(T, P),
           NEW t \in Task \ P, NEW s \in Slot, ~T[s].allocated,
           \A r \in Slot : ~Owns(T[r], UidOf[t]), NEW n
    PROVE  Exact(Establish(T, s, UidOf[t], SidOf[t], n), P \cup {t})
<1> DEFINE U == Establish(T, s, UidOf[t], SidOf[t], n)
<1>1. /\ \A r \in Slot \ {s} : U[r] = T[r]
      /\ U[s].allocated /\ U[s].uid = UidOf[t] /\ U[s].sid = SidOf[t]
      /\ U[s].entrants = 1
  BY DEF Establish, GoodTable
<1> HIDE DEF U
<1>2. \A r \in P : UidOf[r] # UidOf[t]
  BY DEF Exact, IdentityMatches, Identifies, Owns
<1>3. ASSUME NEW r \in Slot, U[r].allocated
      PROVE  U[r].entrants = Cardinality(Counted(U, P \cup {t}, r))
  <2>1. CASE r = s
    <3>1. Counted(U, P \cup {t}, s) = {t}
      BY <1>1, <1>2 DEF Counted
    <3> QED
      BY <1>1, <2>1, <3>1, FS_Singleton
  <2>2. CASE r # s
    <3>1. T[r].allocated /\ T[r].uid # UidOf[t]
      BY <1>1, <1>3, <2>2 DEF Owns
    <3>2. Counted(U, P \cup {t}, r) = Counted(T, P, r)
      BY <1>1, <2>2, <3>1 DEF Counted
    <3> QED
      BY <1>1, <2>2, <3>1, <3>2 DEF Exact
  <2> QED
    BY <2>1, <2>2
<1>4. ASSUME NEW r \in P \cup {t}
      PROVE  IdentityMatches(U, UidOf[r], SidOf[r])
  <2>1. CASE r = t
    BY <1>1, <2>1 DEF IdentityMatches, Identifies
  <2>2. CASE r \in P
    <3>1. PICK q \in Slot : Identifies(T[q], UidOf[r], SidOf[r])
      BY <2>2 DEF Exact, IdentityMatches
    <3>2. q # s
      BY <3>1 DEF Identifies
    <3> QED
      BY <1>1, <3>1, <3>2 DEF IdentityMatches, Identifies
  <2> QED
    BY <2>1, <2>2
<1> QED
  BY <1>3, <1>4 DEF Exact, U

\* abk_sandbox_entry_complete lowers the counter of the slot that counts the
\* task: its "unmatched entry completion" branch is never taken.
LEMMA ExactComplete ==
    ASSUME NEW T, GoodTable(T), NEW P \in SUBSET Task, Exact(T, P), NEW t \in P
    PROVE  Exact(Complete(T, UidOf[t], SidOf[t]), P \ {t})
<1> DEFINE U == Complete(T, UidOf[t], SidOf[t])
<1>1. \A r \in Slot : T[r] \in Instance
  BY DEF GoodTable
<1>2. PICK s \in Slot : Identifies(T[s], UidOf[t], SidOf[t])
  BY DEF Exact, IdentityMatches
<1>3. \A r \in Slot \ {s} : T[r].allocated => T[r].uid # UidOf[t]
  BY <1>2 DEF GoodTable, Identifies
<1>4. {r \in Slot : Identifies(T[r], UidOf[t], SidOf[t])} = {s}
  BY <1>2, <1>3 DEF Identifies
<1>5. FirstOf({r \in Slot : Identifies(T[r], UidOf[t], SidOf[t])}) = {s}
  <2>1. s <= s
    BY TableConstants DEF Slot
  <2> QED
    BY <1>4, <2>1 DEF FirstOf
<1>6. IsFiniteSet(Counted(T, P, s)) /\ Cardinality(Counted(T, P, s)) \in Nat
  BY CountedFinite
<1>7. t \in Counted(T, P, s)
  BY <1>2 DEF Counted, Identifies
<1>8. T[s].entrants = Cardinality(Counted(T, P, s)) /\ T[s].entrants # 0
  <2>1. T[s].entrants = Cardinality(Counted(T, P, s))
    BY <1>2 DEF Exact, Identifies
  <2>2. Cardinality(Counted(T, P, s)) # 0
    BY <1>6, <1>7, FS_EmptySet
  <2> QED
    BY <2>1, <2>2
<1>9. /\ \A r \in Slot \ {s} : U[r] = T[r]
      /\ U[s] = [T[s] EXCEPT !.entrants = T[s].entrants - 1]
  BY <1>5, <1>8 DEF Complete
<1>10. /\ U[s].allocated /\ U[s].uid = T[s].uid /\ U[s].sid = T[s].sid
       /\ U[s].entrants = T[s].entrants - 1
  BY <1>1, <1>2, <1>9 DEF Instance, Identifies
<1> HIDE DEF U
<1>11. ASSUME NEW r \in Slot, U[r].allocated
       PROVE  U[r].entrants = Cardinality(Counted(U, P \ {t}, r))
  <2>1. CASE r = s
    <3>1. Counted(U, P \ {t}, s) = Counted(T, P, s) \ {t}
      BY <1>10 DEF Counted
    <3>2. Cardinality(Counted(T, P, s) \ {t}) = Cardinality(Counted(T, P, s)) - 1
      BY <1>6, <1>7, FS_RemoveElement
    <3> QED
      BY <1>8, <1>10, <2>1, <3>1, <3>2
  <2>2. CASE r # s
    <3>1. T[r].allocated /\ T[r].uid # UidOf[t]
      BY <1>3, <1>9, <1>11, <2>2
    <3>2. Counted(U, P \ {t}, r) = Counted(T, P, r)
      BY <1>9, <2>2, <3>1 DEF Counted
    <3> QED
      BY <1>9, <2>2, <3>1, <3>2 DEF Exact
  <2> QED
    BY <2>1, <2>2
<1>12. ASSUME NEW r \in P \ {t}
       PROVE  IdentityMatches(U, UidOf[r], SidOf[r])
  <2>1. PICK q \in Slot : Identifies(T[q], UidOf[r], SidOf[r])
    BY DEF Exact, IdentityMatches
  <2>2. Identifies(U[q], UidOf[r], SidOf[r])
    BY <1>9, <1>10, <2>1 DEF Identifies
  <2> QED
    BY <2>2 DEF IdentityMatches
<1> QED
  BY <1>11, <1>12 DEF Exact, U

\* abk_revoke_release_slots frees only slots that count nobody.
LEMMA ExactReleaseSlots ==
    ASSUME NEW T, GoodTable(T), NEW P \in SUBSET Task, Exact(T, P), NEW u
    PROVE  Exact(ReleaseSlots(T, u), P)
<1> DEFINE U == ReleaseSlots(T, u)
<1>1. \A r \in Slot : T[r] \in Instance
  BY DEF GoodTable
<1>2. ASSUME NEW r \in Slot
      PROVE  \/ U[r] = T[r]
             \/ ~U[r].allocated /\ T[r].allocated /\ T[r].entrants = 0
  BY <1>1 DEF ReleaseSlots, Instance, Owns
<1> HIDE DEF U
<1>3. ASSUME NEW r \in Slot, U[r].allocated
      PROVE  U[r].entrants = Cardinality(Counted(U, P, r))
  <2>1. U[r] = T[r]
    BY <1>2, <1>3
  <2>2. Counted(U, P, r) = Counted(T, P, r)
    BY <2>1 DEF Counted
  <2> QED
    BY <1>3, <2>1, <2>2 DEF Exact
<1>4. ASSUME NEW t \in P
      PROVE  IdentityMatches(U, UidOf[t], SidOf[t])
  <2>1. PICK q \in Slot : Identifies(T[q], UidOf[t], SidOf[t])
    BY DEF Exact, IdentityMatches
  <2>2. t \in Counted(T, P, q)
    BY <2>1 DEF Counted, Identifies
  <2>3. IsFiniteSet(Counted(T, P, q))
    BY CountedFinite
  <2>4. Cardinality(Counted(T, P, q)) # 0
    BY <2>2, <2>3, FS_EmptySet
  <2>5. T[q].entrants # 0
    BY <2>1, <2>4 DEF Exact, Identifies
  <2>6. U[q] = T[q]
    BY <1>2, <2>5
  <2> QED
    BY <2>1, <2>6 DEF IdentityMatches
<1> QED
  BY <1>3, <1>4 DEF Exact, U

\* Marking and detaching change neither owners nor counters.
LEMMA ExactRevoke ==
    ASSUME NEW T, GoodTable(T), NEW P \in SUBSET Task, Exact(T, P), NEW u
    PROVE  /\ Exact(MarkRevoking(T, u), P)
           /\ \A s \in Slot : Exact(DetachSlot(T, s, u), P)
<1>1. \A r \in Slot : T[r] \in Instance
  BY DEF GoodTable
<1>2. Exact(MarkRevoking(T, u), P)
  <2> DEFINE U == MarkRevoking(T, u)
  <2>1. ASSUME NEW r \in Slot
        PROVE  /\ U[r].allocated <=> T[r].allocated
               /\ U[r].uid = T[r].uid /\ U[r].sid = T[r].sid
               /\ U[r].entrants = T[r].entrants
    BY <1>1 DEF MarkRevoking, Instance
  <2> HIDE DEF U
  <2>2. Exact(U, P)
    BY <2>1, ExactSame
  <2> QED
    BY <2>2 DEF U
<1>3. ASSUME NEW s \in Slot
      PROVE  Exact(DetachSlot(T, s, u), P)
  <2> DEFINE U == DetachSlot(T, s, u)
  <2>1. ASSUME NEW r \in Slot
        PROVE  /\ U[r].allocated <=> T[r].allocated
               /\ U[r].uid = T[r].uid /\ U[r].sid = T[r].sid
               /\ U[r].entrants = T[r].entrants
    BY <1>1 DEF DetachSlot, Instance, GoodTable
  <2> HIDE DEF U
  <2>2. Exact(U, P)
    BY <2>1, ExactSame
  <2> QED
    BY <2>2 DEF U
<1> QED
  BY <1>2, <1>3

\* A failed creation leaves a free slot free.
LEMMA ExactUnreserve ==
    ASSUME NEW T, GoodTable(T), NEW P \in SUBSET Task, Exact(T, P),
           NEW s \in Slot, ~T[s].allocated
    PROVE  Exact(Unreserve(T, s), P)
<1> DEFINE U == Unreserve(T, s)
<1>1. \A r \in Slot : U[r] = IF r = s THEN FreeInstance ELSE T[r]
  BY DEF Unreserve, GoodTable
<1> HIDE DEF U
<1>2. \A r \in Slot : U[r].allocated <=> T[r].allocated
  BY <1>1 DEF FreeInstance
<1>3. \A r \in Slot : T[r].allocated => U[r] = T[r]
  BY <1>1
<1>4. Exact(U, P)
  BY <1>2, <1>3, ExactSame
<1> QED
  BY <1>4 DEF U

-----------------------------------------------------------------------------
(* The counter along a behaviour.                                          *)

\* What the run checks, in the terms of the lemmas above.
LEMMA ExactIsEntrantsExact == Exact(tbl, InEntry) <=> EntrantsExact
<1>1. \A s \in Slot : Counted(tbl, InEntry, s) = Entrants(s)
  BY DEF Counted, InEntry, Entrants
<1> QED
  BY <1>1 DEF Exact, EntrantsExact, InEntry

\* Every step keeps the count.
LEMMA ExactStep ==
    ASSUME IInv, Exact(tbl, InEntry), [Next]_vars
    PROVE  Exact(tbl', InEntry')
<1>1. GoodTable(tbl) /\ TypeOK
  BY DEF IInv
<1>2. InEntry \in SUBSET Task
  BY DEF InEntry
<1>3. pc \in [Task -> Steps]
  BY <1>1 DEF TypeOK
<1>4. ASSUME UNCHANGED tbl, InEntry' = InEntry
      PROVE  Exact(tbl', InEntry')
  BY <1>4
<1>5. ASSUME NEW t \in Task, JoinReady(t)
      PROVE  Exact(tbl', InEntry')
  <2>1. PICK s \in ReadySlot(tbl, UidOf[t]) :
            tbl[s].sid = SidOf[t] /\ tbl' = Enter(tbl, s)
    BY <1>5 DEF JoinReady
  <2>2. s \in Slot /\ Identifies(tbl[s], UidOf[t], SidOf[t])
    BY <2>1 DEF ReadySlot, FirstOf, Owns, Identifies
  <2>3. t \notin InEntry /\ InEntry' = InEntry \cup {t}
    BY <1>3, <1>5 DEF JoinReady, InEntry, Entering
  <2> QED
    BY <1>1, <1>2, <2>1, <2>2, <2>3, ExactEnter
<1>6. ASSUME NEW t \in Task, CreateNamespace(t)
      PROVE  Exact(tbl', InEntry')
  <2>1. PICK s \in ReserveSlot(tbl, UidOf[t], SidOf[t]), n \in FreshNs :
            tbl' = Establish(tbl, s, UidOf[t], SidOf[t], n)
    BY <1>6 DEF CreateNamespace
  <2>2. s \in Slot /\ ~tbl[s].allocated
    BY <1>1, ReservedIsFree
  <2>3. \A r \in Slot : ~Owns(tbl[r], UidOf[t])
    BY <1>1, <1>6, UnownedWhenMayCreate DEF CreateNamespace
  <2>4. t \notin InEntry /\ InEntry' = InEntry \cup {t}
    BY <1>3, <1>6 DEF CreateNamespace, MayCreate, InEntry, Entering
  <2> QED
    BY <1>1, <1>2, <2>1, <2>2, <2>3, <2>4, ExactEstablish
<1>7. ASSUME NEW t \in Task, CreateFails(t)
      PROVE  Exact(tbl', InEntry')
  <2>1. PICK s \in ReserveSlot(tbl, UidOf[t], SidOf[t]) : tbl' = Unreserve(tbl, s)
    BY <1>7 DEF CreateFails
  <2>2. s \in Slot /\ ~tbl[s].allocated
    BY <1>1, ReservedIsFree
  <2>3. InEntry' = InEntry
    BY <1>3, <1>7 DEF CreateFails, MayCreate, InEntry, Entering
  <2> QED
    BY <1>1, <1>2, <2>1, <2>2, <2>3, ExactUnreserve
<1>8. ASSUME NEW t \in Task, JoinFails(t) \/ EntryComplete(t)
      PROVE  Exact(tbl', InEntry')
  <2>1. t \in InEntry /\ InEntry' = InEntry \ {t}
    BY <1>3, <1>8 DEF JoinFails, EntryComplete, InEntry, Entering
  <2>2. tbl' = Complete(tbl, UidOf[t], SidOf[t])
    BY <1>8 DEF JoinFails, EntryComplete
  <2> QED
    BY <1>1, <1>2, <2>1, <2>2, ExactComplete
<1>9. ASSUME NEW t \in Task,
             \/ Authorize(t) \/ EscapeReturns(t) \/ JoinRejected(t)
             \/ JoinNamespace(t) \/ CreateDenied(t) \/ CommitCreds(t) \/ Exit(t)
      PROVE  UNCHANGED tbl /\ InEntry' = InEntry
  BY <1>3, <1>9 DEF Authorize, EscapeReturns, JoinRejected, JoinNamespace,
                    CreateDenied, CommitCreds, Exit, InEntry, Entering
<1>10. ASSUME NEW t \in Task, NEW c \in Task, Fork(t, c)
       PROVE  UNCHANGED tbl /\ InEntry' = InEntry
  BY <1>3, <1>10 DEF Fork, InEntry, Entering
<1>11. ASSUME UNCHANGED pc
       PROVE  InEntry' = InEntry
  BY <1>11 DEF InEntry, Entering
<1>12. ASSUME NEW u \in Uid, RevokeMark(u)
       PROVE  Exact(tbl', InEntry')
  BY <1>1, <1>2, <1>11, <1>12, ExactRevoke DEF RevokeMark, taskVars
<1>13. ASSUME NEW u \in Uid, CallerDetach(u)
       PROVE  Exact(tbl', InEntry')
  <2>1. rv[u].scan \in Slot
    BY <1>1 DEF TypeOK, Caller
  <2> QED
    BY <1>1, <1>2, <1>11, <1>13, <2>1, ExactRevoke DEF CallerDetach, taskVars
<1>14. ASSUME NEW w \in Work, WorkerDetach(w)
       PROVE  Exact(tbl', InEntry')
  <2>1. wk[w].scan \in Slot
    BY <1>1 DEF TypeOK, Request
  <2> QED
    BY <1>1, <1>2, <1>11, <1>14, <2>1, ExactRevoke DEF WorkerDetach, taskVars
<1>15. ASSUME NEW w \in Work, WorkerRelease(w)
       PROVE  Exact(tbl', InEntry')
  BY <1>1, <1>2, <1>11, <1>15, ExactReleaseSlots DEF WorkerRelease, taskVars
<1>16. ASSUME NEW u \in Uid,
              \/ ProfileAllow(u) \/ ProfileDeny(u) \/ PruneBegin(u)
              \/ RevokeQueue(u) \/ RevokeNoMemory(u) \/ CallerKill(u)
              \/ PruneRemove(u)
       PROVE  UNCHANGED <<tbl, pc>>
  BY <1>16 DEF ProfileAllow, ProfileDeny, PruneBegin, RevokeQueue,
               RevokeNoMemory, CallerKill, PruneRemove, taskVars
<1>17. ASSUME NEW w \in Work, WorkerEntrants(w) \/ WorkerKill(w)
       PROVE  UNCHANGED <<tbl, pc>>
  BY <1>17 DEF WorkerEntrants, WorkerKill, taskVars
<1>18. UNCHANGED vars => UNCHANGED <<tbl, pc>>
  BY DEF vars
<1> QED
  BY <1>4, <1>5, <1>6, <1>7, <1>8, <1>9, <1>10, <1>11, <1>12, <1>13, <1>14,
     <1>15, <1>16, <1>17, <1>18
     DEF Next, EntryStep, CallerStep, WorkerStep

\* The entrant counter of a slot is the number of tasks inside the entry path
\* for it, and none of these tasks ever loses its slot: no completion is
\* unmatched and none counts down a slot that was recycled, however many
\* revocations of the UID overlap.
THEOREM CounterExact == Spec => []EntrantsExact
<1>1. Init => Exact(tbl, InEntry)
  <2> SUFFICES ASSUME Init PROVE Exact(tbl, InEntry)
    OBVIOUS
  <2>1. InEntry = {}
    BY DEF Init, InEntry, Entering
  <2>2. \A s \in Slot : ~tbl[s].allocated
    BY DEF Init, EmptyTable, FreeInstance
  <2> QED
    BY <2>1, <2>2 DEF Exact
<1>2. IInv /\ Exact(tbl, InEntry) /\ [Next]_vars => Exact(tbl, InEntry)'
  BY ExactStep DEF Exact, Counted, IdentityMatches
<1>3. Spec => []Exact(tbl, InEntry)
  BY <1>1, <1>2, IInvHolds, PTL DEF Spec
<1> QED
  BY <1>3, ExactIsEntrantsExact, PTL

-----------------------------------------------------------------------------
(* Revocations of a UID one after the other: ~Overlap.                     *)

\* The task is in a sandbox or on its way in.
Member(t) == Entering(t) \/ Sandboxed(t)

Usable(u) == \E s \in Slot : Owns(tbl[s], u) /\ tbl[s].ready

\* Of the caller in the hook and the requests, one is at work on a UID.
Serial ==
    /\ \A w \in Work : wk[w].pc = "free" => wk[w].uid = NoUid
    /\ \A v, w \in Work : wk[v].uid = wk[w].uid /\ wk[v].uid # NoUid => v = w
    /\ \A u \in Uid, w \in Work :
            rv[u].at \in {"mark", "queue", "detach", "kill"} => wk[w].uid # u

\* What the scan of a request has passed and is under revocation has given its
\* namespace file up.
Detached ==
    \A w \in Work, s \in Slot :
        /\ wk[w].pc # "free" /\ (wk[w].pc = "detach" => s < wk[w].scan)
        /\ Owns(tbl[s], wk[w].uid) /\ tbl[s].revoking
        => tbl[s].nsfile = NoNs

Recognised == \A t \in Task : Member(t) => IdentityMatches(tbl, UidOf[t], SidOf[t])

\* From the look at the entrants on nobody is in the entry path of a slot under
\* revocation, and from the kill that finds nobody on nobody is in it: who is
\* there has come in by an instance made since, which is usable.
Quiet ==
    \A w \in Work, t \in Task :
        /\ UidOf[t] = wk[w].uid
        /\ \/ wk[w].pc = "kill" /\ Entering(t)
           \/ wk[w].pc = "release" /\ Member(t)
        => Usable(UidOf[t])

SerialInv == Serial /\ Detached /\ Recognised /\ Quiet /\ FreedSlotHoldsNothing

\* Table U differs from table T in entrants, and in what free slots name.
SameSlots(T, U) ==
    \A s \in Slot :
        /\ U[s].allocated = T[s].allocated
        /\ U[s].nsfile = T[s].nsfile /\ U[s].mounts = T[s].mounts
        /\ T[s].allocated => /\ U[s].uid = T[s].uid /\ U[s].sid = T[s].sid
                             /\ U[s].ready = T[s].ready
                             /\ U[s].revoking = T[s].revoking

\* A step of a task that leaves the slots alone: the tasks it brings in are
\* recognised, and come in by a usable slot or as the child of a member.
LEMMA SerialTask ==
    ASSUME SerialInv, SameSlots(tbl, tbl'), UNCHANGED <<rv, wk>>,
           \A t \in Task : Member(t)' => IdentityMatches(tbl, UidOf[t], SidOf[t]),
           \A t \in Task : Entering(t)' => Entering(t) \/ Usable(UidOf[t]),
           \A t \in Task : Member(t)' =>
                \/ Usable(UidOf[t])
                \/ \E p \in Task : Member(p) /\ UidOf[p] = UidOf[t]
    PROVE  SerialInv'
<1>1. \A u : Usable(u) => Usable(u)'
  BY DEF Usable, Owns, SameSlots
<1>2. \A u, sd : IdentityMatches(tbl, u, sd) => IdentityMatches(tbl', u, sd)
  BY DEF IdentityMatches, Identifies, SameSlots
<1>3. Serial'
  BY DEF SerialInv, Serial
<1>4. Detached'
  BY DEF SerialInv, Detached, Owns, SameSlots
<1>5. Recognised'
  BY <1>2 DEF Recognised, IdentityMatches
<1>6. Quiet'
  <2> SUFFICES ASSUME NEW w \in Work, NEW t \in Task, UidOf[t] = wk[w].uid,
                      \/ wk[w].pc = "kill" /\ Entering(t)'
                      \/ wk[w].pc = "release" /\ Member(t)'
               PROVE  Usable(UidOf[t])
    BY <1>1 DEF Quiet
  <2>1. CASE wk[w].pc = "kill" /\ Entering(t)'
    BY <2>1 DEF SerialInv, Quiet
  <2>2. CASE wk[w].pc = "release" /\ Member(t)'
    BY <2>2 DEF SerialInv, Quiet
  <2> QED
    BY <2>1, <2>2
<1>7. FreedSlotHoldsNothing'
  BY DEF SerialInv, FreedSlotHoldsNothing, SameSlots
<1> QED
  BY <1>3, <1>4, <1>5, <1>6, <1>7 DEF SerialInv

\* The steps of a task leave the slots alone, but for the one that creates an
\* instance.
LEMMA SameSlotsOps ==
    ASSUME NEW T, GoodTable(T)
    PROVE  /\ SameSlots(T, T)
           /\ \A s \in Slot : SameSlots(T, Enter(T, s))
           /\ \A u, sd : SameSlots(T, Complete(T, u, sd))
           /\ \A s \in Slot : ~T[s].allocated /\ T[s].nsfile = NoNs /\ ~T[s].mounts =>
                    SameSlots(T, Unreserve(T, s))
<1>1. \A r \in Slot : T[r] \in Instance
  BY DEF GoodTable
<1>2. SameSlots(T, T)
  BY DEF SameSlots
<1>3. ASSUME NEW s \in Slot
      PROVE  SameSlots(T, Enter(T, s))
  BY <1>1 DEF SameSlots, Enter, GoodTable, Instance
<1>4. ASSUME NEW u, NEW sd
      PROVE  SameSlots(T, Complete(T, u, sd))
  <2> DEFINE U == Complete(T, u, sd)
  <2>1. \A r \in Slot : U[r] = T[r] \/ U[r] = [T[r] EXCEPT !.entrants = @ - 1]
    BY DEF Complete
  <2> HIDE DEF U
  <2>2. SameSlots(T, U)
    BY <1>1, <2>1 DEF SameSlots, Instance
  <2> QED
    BY <2>2 DEF U
<1>5. ASSUME NEW s \in Slot, ~T[s].allocated, T[s].nsfile = NoNs, ~T[s].mounts
      PROVE  SameSlots(T, Unreserve(T, s))
  <2> DEFINE U == Unreserve(T, s)
  <2>1. \A r \in Slot : U[r] = IF r = s THEN FreeInstance ELSE T[r]
    BY <1>5 DEF Unreserve, GoodTable
  <2> HIDE DEF U
  <2>2. /\ T[s].allocated = FALSE /\ T[s].mounts = FALSE
    BY <1>1, <1>5 DEF Instance
  <2>3. /\ \A r \in Slot \ {s} : U[r] = T[r]
        /\ U[s].allocated = FALSE /\ U[s].mounts = FALSE /\ U[s].nsfile = NoNs
    BY <2>1 DEF FreeInstance
  <2>4. \A r \in Slot : /\ U[r].allocated = T[r].allocated
                        /\ U[r].nsfile = T[r].nsfile /\ U[r].mounts = T[r].mounts
                        /\ T[r].allocated => U[r] = T[r]
    BY <1>5, <2>2, <2>3
  <2>5. SameSlots(T, U)
    BY <2>4 DEF SameSlots
  <2> QED
    BY <2>5 DEF U
<1> QED
  BY <1>2, <1>3, <1>4, <1>5

\* What a step does that keeps table, requests and callers, or changes the
\* table by an operation of a task other than Establish.
LEMMA SerialEntry ==
    ASSUME IInv, SerialInv, NEW t \in Task,
           Authorize(t) \/ (EntryStep(t) /\ ~CreateNamespace(t)) \/ Exit(t)
    PROVE  SerialInv'
<1>1. GoodTable(tbl) /\ pc \in [Task -> Steps] /\ Recognised
  BY DEF IInv, TypeOK, SerialInv
<1>2. /\ SameSlots(tbl, tbl)
      /\ \A s \in Slot : SameSlots(tbl, Enter(tbl, s))
      /\ \A u, sd : SameSlots(tbl, Complete(tbl, u, sd))
      /\ \A s \in Slot : ~tbl[s].allocated /\ tbl[s].nsfile = NoNs /\ ~tbl[s].mounts =>
               SameSlots(tbl, Unreserve(tbl, s))
  BY <1>1, SameSlotsOps
<1>3. ASSUME SameSlots(tbl, tbl'), UNCHANGED <<rv, wk>>,
             \A r \in Task : Entering(r)' => Entering(r),
             \A r \in Task : Member(r)' => Member(r)
      PROVE  SerialInv'
  BY <1>1, <1>3, SerialTask DEF Recognised
<1>4. CASE JoinReady(t)
  <2>1. PICK s \in ReadySlot(tbl, UidOf[t]) :
            tbl[s].sid = SidOf[t] /\ tbl' = Enter(tbl, s)
    BY <1>4 DEF JoinReady
  <2>2. s \in Slot /\ Owns(tbl[s], UidOf[t]) /\ tbl[s].ready
    BY <2>1 DEF ReadySlot, FirstOf
  <2>3. Usable(UidOf[t]) /\ IdentityMatches(tbl, UidOf[t], SidOf[t])
    BY <2>1, <2>2 DEF Usable, IdentityMatches, Identifies, Owns
  <2>4. \A r \in Task \ {t} : pc'[r] = pc[r]
    BY <1>1, <1>4 DEF JoinReady
  <2>5. \A r \in Task \ {t} : (Entering(r)' <=> Entering(r)) /\ (Member(r)' <=> Member(r))
    BY <2>4 DEF Entering, Member, Sandboxed
  <2>6. SameSlots(tbl, tbl')
    BY <1>2, <2>1, <2>2
  <2>7. UNCHANGED <<rv, wk>>
    BY <1>4 DEF JoinReady, revokeVars
  <2>8. \A r \in Task : Member(r)' => IdentityMatches(tbl, UidOf[r], SidOf[r])
    BY <1>1, <2>3, <2>5 DEF Recognised
  <2>9. \A r \in Task : Entering(r)' => Entering(r) \/ Usable(UidOf[r])
    BY <2>3, <2>5
  <2>10. \A r \in Task : Member(r)' => Usable(UidOf[r]) \/ Member(r)
    BY <2>3, <2>5
  <2> QED
    BY <2>6, <2>7, <2>8, <2>9, <2>10, SerialTask
<1>5. CASE CreateFails(t)
  <2>1. PICK s \in ReserveSlot(tbl, UidOf[t], SidOf[t]) : tbl' = Unreserve(tbl, s)
    BY <1>5 DEF CreateFails
  <2>2. s \in Slot /\ ~tbl[s].allocated
    BY <1>1, ReservedIsFree
  <2>3. SameSlots(tbl, tbl')
    BY <1>2, <2>1, <2>2 DEF SerialInv, FreedSlotHoldsNothing
  <2> QED
    BY <1>1, <1>3, <1>5, <2>3
       DEF CreateFails, MayCreate, revokeVars, Entering, Member, Sandboxed
<1>6. CASE JoinFails(t) \/ EntryComplete(t)
  <2>1. SameSlots(tbl, tbl')
    BY <1>2, <1>6 DEF JoinFails, EntryComplete
  <2> QED
    BY <1>1, <1>3, <1>6, <2>1
       DEF JoinFails, EntryComplete, revokeVars, Entering, Member, Sandboxed
<1>7. CASE \/ Authorize(t) \/ EscapeReturns(t) \/ JoinRejected(t)
           \/ JoinNamespace(t) \/ CreateDenied(t) \/ CommitCreds(t) \/ Exit(t)
  <2>1. UNCHANGED <<tbl, rv, wk>>
    BY <1>7 DEF Authorize, EscapeReturns, JoinRejected, JoinNamespace, CreateDenied,
                CommitCreds, Exit, revokeVars
  <2>2. \A r \in Task : (Entering(r)' => Entering(r)) /\ (Member(r)' => Member(r))
    BY <1>1, <1>7
       DEF Authorize, EscapeReturns, JoinRejected, JoinNamespace, CreateDenied,
           CommitCreds, Exit, Entering, Member, Sandboxed
  <2> QED
    BY <1>2, <1>3, <2>1, <2>2
<1> QED
  BY <1>4, <1>5, <1>6, <1>7 DEF EntryStep

\* A child is recognised as its parent is.
LEMMA SerialFork ==
    ASSUME IInv, SerialInv, NEW t \in Task, NEW c \in Task, Fork(t, c)
    PROVE  SerialInv'
<1>1. GoodTable(tbl) /\ pc \in [Task -> Steps] /\ Recognised
  BY DEF IInv, TypeOK, SerialInv
<1>2. SameSlots(tbl, tbl')
  BY <1>1, SameSlotsOps DEF Fork
<1>3. Member(t) /\ UidOf[c] = UidOf[t] /\ SidOf[c] = SidOf[t]
  BY DEF Fork, Member, Sandboxed
<1>4. \A r \in Task : /\ Entering(r)' => Entering(r)
                      /\ Member(r)' => Member(r) \/ r = c
  BY <1>1 DEF Fork, Entering, Member, Sandboxed
<1>5. \A r \in Task : Member(r)' =>
          /\ IdentityMatches(tbl, UidOf[r], SidOf[r])
          /\ \E p \in Task : Member(p) /\ UidOf[p] = UidOf[r]
  BY <1>1, <1>3, <1>4 DEF Recognised
<1>6. UNCHANGED <<rv, wk>>
  BY DEF Fork, revokeVars
<1> QED
  BY <1>2, <1>4, <1>5, <1>6, SerialTask

\* A new instance is usable, and nobody of its UID was anywhere before.
LEMMA SerialCreate ==
    ASSUME IInv, SerialInv, NEW t \in Task, CreateNamespace(t)
    PROVE  SerialInv'
<1>1. GoodTable(tbl) /\ pc \in [Task -> Steps]
  BY DEF IInv, TypeOK
<1>2. PICK s \in ReserveSlot(tbl, UidOf[t], SidOf[t]), n \in FreshNs :
          tbl' = Establish(tbl, s, UidOf[t], SidOf[t], n)
  BY DEF CreateNamespace
<1>3. s \in Slot /\ ~tbl[s].allocated
  BY <1>1, ReservedIsFree
<1>4. /\ \A r \in Slot \ {s} : tbl'[r] = tbl[r]
      /\ tbl'[s].allocated /\ tbl'[s].ready /\ ~tbl'[s].revoking
      /\ tbl'[s].uid = UidOf[t] /\ tbl'[s].sid = SidOf[t]
  BY <1>1, <1>2, <1>3 DEF Establish, GoodTable
<1>5. UNCHANGED <<rv, wk>>
  BY DEF CreateNamespace, revokeVars
<1>6. \A r \in Task \ {t} : pc'[r] = pc[r]
  BY <1>1 DEF CreateNamespace
<1>7. \A r \in Task \ {t} : (Entering(r)' <=> Entering(r)) /\ (Member(r)' <=> Member(r))
  BY <1>6 DEF Entering, Member, Sandboxed
<1>8. Usable(UidOf[t])' /\ \A u : Usable(u) => Usable(u)'
  BY <1>3, <1>4 DEF Usable, Owns
<1>9. \A u, sd : IdentityMatches(tbl, u, sd) => IdentityMatches(tbl', u, sd)
  BY <1>3, <1>4 DEF IdentityMatches, Identifies
<1>10. Serial'
  BY <1>5 DEF SerialInv, Serial
<1>11. Detached'
  <2> SUFFICES ASSUME NEW w \in Work, NEW r \in Slot,
                      wk[w].pc # "free" /\ (wk[w].pc = "detach" => r < wk[w].scan),
                      Owns(tbl'[r], wk[w].uid), tbl'[r].revoking
               PROVE  tbl'[r].nsfile = NoNs
    BY <1>5 DEF Detached
  <2> QED
    BY <1>4 DEF SerialInv, Detached
<1>12. Recognised'
  <2>1. IdentityMatches(tbl', UidOf[t], SidOf[t])
    BY <1>3, <1>4 DEF IdentityMatches, Identifies
  <2>2. \A r \in Task \ {t} : Member(r)' => IdentityMatches(tbl', UidOf[r], SidOf[r])
    BY <1>7, <1>9 DEF SerialInv, Recognised
  <2> QED
    BY <2>1, <2>2 DEF Recognised, IdentityMatches
<1>13. Quiet'
  BY <1>5, <1>7, <1>8 DEF SerialInv, Quiet
<1>14. FreedSlotHoldsNothing'
  BY <1>4 DEF SerialInv, FreedSlotHoldsNothing
<1> QED
  BY <1>10, <1>11, <1>12, <1>13, <1>14 DEF SerialInv

\* Revoking the slots of a UID takes them from nobody, and troubles no request
\* but the ones of this UID.
LEMMA SerialClosing ==
    ASSUME SerialInv, NEW u \in Uid, UNCHANGED pc,
           \A s \in Slot :
                \/ tbl'[s] = tbl[s]
                \/ /\ tbl[s].allocated /\ tbl[s].uid = u
                   /\ tbl'[s].allocated /\ tbl'[s].uid = u /\ tbl'[s].sid = tbl[s].sid,
           \A w \in Work : wk'[w].pc \in {"kill", "release"} =>
                wk'[w] = wk[w] /\ wk[w].uid # u
    PROVE  Recognised' /\ Quiet' /\ FreedSlotHoldsNothing'
<1>1. \A t \in Task : (Entering(t)' <=> Entering(t)) /\ (Member(t)' <=> Member(t))
  BY DEF Entering, Member, Sandboxed
<1>2. \A v, sd : IdentityMatches(tbl, v, sd) => IdentityMatches(tbl', v, sd)
  BY DEF IdentityMatches, Identifies
<1>3. \A v : v # u /\ Usable(v) => Usable(v)'
  BY DEF Usable, Owns
<1>4. Recognised'
  BY <1>1, <1>2 DEF SerialInv, Recognised, IdentityMatches
<1>5. Quiet'
  <2> SUFFICES ASSUME NEW w \in Work, NEW t \in Task, UidOf[t] = wk'[w].uid,
                      \/ wk'[w].pc = "kill" /\ Entering(t)
                      \/ wk'[w].pc = "release" /\ Member(t)
               PROVE  Usable(UidOf[t])'
    BY <1>1 DEF Quiet
  <2>1. wk'[w] = wk[w] /\ wk[w].uid # u
    OBVIOUS
  <2>2. Usable(UidOf[t])
    BY <2>1 DEF SerialInv, Quiet
  <2> QED
    BY <1>3, <2>1, <2>2
<1>6. FreedSlotHoldsNothing'
  BY DEF SerialInv, FreedSlotHoldsNothing
<1> QED
  BY <1>4, <1>5, <1>6

\* abk_mark_uid_revoking: no request of the UID is under way.
LEMMA SerialMark ==
    ASSUME IInv, SerialInv, NEW u \in Uid, RevokeMark(u)
    PROVE  SerialInv'
<1>1. /\ GoodTable(tbl) /\ rv \in [Uid -> Caller]
      /\ \A r \in Slot : tbl[r] \in Instance
  BY DEF IInv, TypeOK, GoodTable
<1>2. /\ rv[u].at = "mark" /\ rv' = [rv EXCEPT ![u].at = "queue"]
      /\ UNCHANGED <<pc, wk>> /\ tbl' = MarkRevoking(tbl, u)
  BY DEF RevokeMark, taskVars
<1>3. \A w \in Work : wk[w].uid # u
  BY <1>2 DEF SerialInv, Serial
<1>4. \A s \in Slot :
          \/ tbl'[s] = tbl[s]
          \/ /\ tbl[s].allocated /\ tbl[s].uid = u
             /\ tbl'[s].allocated /\ tbl'[s].uid = u /\ tbl'[s].sid = tbl[s].sid
  BY <1>1, <1>2 DEF MarkRevoking, Owns, Instance
<1>5. Recognised' /\ Quiet' /\ FreedSlotHoldsNothing'
  BY <1>2, <1>3, <1>4, SerialClosing
<1>6. \A v \in Uid : rv'[v].at = IF v = u THEN "queue" ELSE rv[v].at
  BY <1>1, <1>2 DEF Caller
<1>7. Serial'
  <2>1. \A v \in Uid, w \in Work :
            rv'[v].at \in {"mark", "queue", "detach", "kill"} => wk[w].uid # v
    BY <1>3, <1>6 DEF SerialInv, Serial
  <2> QED
    BY <1>2, <2>1 DEF SerialInv, Serial
<1>8. Detached'
  <2> SUFFICES ASSUME NEW w \in Work, NEW s \in Slot,
                      wk[w].pc # "free" /\ (wk[w].pc = "detach" => s < wk[w].scan),
                      Owns(tbl'[s], wk[w].uid), tbl'[s].revoking
               PROVE  tbl'[s].nsfile = NoNs
    BY <1>2 DEF Detached
  <2>1. tbl'[s] = tbl[s]
    BY <1>3, <1>4 DEF Owns
  <2> QED
    BY <2>1 DEF SerialInv, Detached
<1> QED
  BY <1>5, <1>7, <1>8 DEF SerialInv

\* One turn of abk_revoke_detach_resources.
LEMMA DetachEffect ==
    ASSUME NEW T, GoodTable(T), NEW s \in Slot, NEW u
    PROVE  \A r \in Slot :
               \/ DetachSlot(T, s, u)[r] = T[r] /\ (r = s => ~Owns(T[r], u))
               \/ /\ T[r].allocated /\ T[r].uid = u /\ r = s
                  /\ DetachSlot(T, s, u)[r].allocated
                  /\ DetachSlot(T, s, u)[r].uid = u
                  /\ DetachSlot(T, s, u)[r].sid = T[r].sid
                  /\ DetachSlot(T, s, u)[r].nsfile = NoNs
                  /\ DetachSlot(T, s, u)[r].revoking
                  /\ ~DetachSlot(T, s, u)[r].ready
<1>1. \A r \in Slot : T[r] \in Instance
  BY DEF GoodTable
<1>2. CASE Owns(T[s], u)
  <2> DEFINE i == [T[s] EXCEPT !.revoking = TRUE, !.ready = FALSE, !.nsfile = NoNs]
  <2>1. DetachSlot(T, s, u) = [T EXCEPT ![s] = i]
    BY <1>1, <1>2 DEF DetachSlot, GoodTable
  <2>2. /\ i.allocated /\ i.uid = u /\ i.sid = T[s].sid /\ i.nsfile = NoNs
        /\ i.revoking /\ ~i.ready
    BY <1>1, <1>2 DEF Owns, Instance
  <2> HIDE DEF i
  <2> QED
    BY <1>2, <2>1, <2>2 DEF GoodTable, Owns
<1>3. CASE ~Owns(T[s], u)
  BY <1>3 DEF DetachSlot
<1> QED
  BY <1>2, <1>3

\* The caller that got no memory for a request detaches by itself.
LEMMA SerialCallerDetach ==
    ASSUME IInv, SerialInv, NEW u \in Uid, CallerDetach(u)
    PROVE  SerialInv'
<1>1. GoodTable(tbl) /\ rv \in [Uid -> Caller] /\ rv[u] \in Caller
  BY DEF IInv, TypeOK
<1>2. PICK s \in Slot : s = rv[u].scan
  BY <1>1 DEF Caller
<1>3. /\ rv[u].at = "detach" /\ UNCHANGED <<pc, wk>> /\ tbl' = DetachSlot(tbl, s, u)
  BY <1>2 DEF CallerDetach, taskVars
<1>4. \A w \in Work : wk[w].uid # u
  BY <1>3 DEF SerialInv, Serial
<1>5. \A r \in Slot :
          \/ tbl'[r] = tbl[r]
          \/ /\ tbl[r].allocated /\ tbl[r].uid = u
             /\ tbl'[r].allocated /\ tbl'[r].uid = u /\ tbl'[r].sid = tbl[r].sid
  BY <1>1, <1>3, DetachEffect
<1>6. Recognised' /\ Quiet' /\ FreedSlotHoldsNothing'
  BY <1>3, <1>4, <1>5, SerialClosing
<1>7. \A v \in Uid : rv'[v].at = rv[v].at \/ v = u
  BY <1>1 DEF CallerDetach
<1>8. Serial'
  <2>1. \A v \in Uid, w \in Work :
            rv'[v].at \in {"mark", "queue", "detach", "kill"} => wk[w].uid # v
    BY <1>4, <1>7 DEF SerialInv, Serial
  <2> QED
    BY <1>3, <2>1 DEF SerialInv, Serial
<1>9. Detached'
  <2> SUFFICES ASSUME NEW w \in Work, NEW r \in Slot,
                      wk[w].pc # "free" /\ (wk[w].pc = "detach" => r < wk[w].scan),
                      Owns(tbl'[r], wk[w].uid), tbl'[r].revoking
               PROVE  tbl'[r].nsfile = NoNs
    BY <1>3 DEF Detached
  <2>1. tbl'[r] = tbl[r]
    BY <1>4, <1>5 DEF Owns
  <2> QED
    BY <2>1 DEF SerialInv, Detached
<1> QED
  BY <1>6, <1>8, <1>9 DEF SerialInv

\* The scan of a request goes on, or comes to its end.
LEMMA SerialWorkerDetach ==
    ASSUME IInv, SerialInv, NEW w \in Work, WorkerDetach(w)
    PROVE  SerialInv'
<1>1. GoodTable(tbl) /\ wk \in [Work -> Request] /\ wk[w] \in Request
  BY DEF IInv, TypeOK
<1>2. PICK s \in Slot, u \in Uid : s = wk[w].scan /\ u = wk[w].uid
  BY <1>1 DEF Request, WorkerDetach, IInv, BusyHasUid
<1>3. wk[w].pc = "detach" /\ UNCHANGED <<pc, rv>> /\ tbl' = DetachSlot(tbl, s, u)
  BY <1>2 DEF WorkerDetach, taskVars
<1>4. PICK q : /\ wk' = [wk EXCEPT ![w] = q]
               /\ q = IF wk[w].scan < MaxInstances THEN [wk[w] EXCEPT !.scan = @ + 1]
                                                   ELSE [wk[w] EXCEPT !.pc = "entrants"]
  BY DEF WorkerDetach
<1>5. /\ q.uid = u /\ q.pc \in {"detach", "entrants"}
      /\ q.pc = "detach" => q.scan = s + 1
      /\ q.pc = "entrants" => s = MaxInstances
  BY <1>1, <1>2, <1>3, <1>4, TableConstants DEF Request, Slot
<1>6. wk'[w] = q /\ \A v \in Work \ {w} : wk'[v] = wk[v]
  BY <1>1, <1>4
<1>7. \A v \in Work \ {w} : wk[v].uid # u
  BY <1>2, TableConstants DEF SerialInv, Serial
<1>8. \A r \in Slot :
          \/ tbl'[r] = tbl[r] /\ (r = s => ~Owns(tbl[r], u))
          \/ /\ tbl[r].allocated /\ tbl[r].uid = u /\ r = s
             /\ tbl'[r].allocated /\ tbl'[r].uid = u /\ tbl'[r].sid = tbl[r].sid
             /\ tbl'[r].nsfile = NoNs
  BY <1>1, <1>3, DetachEffect
<1>9. Recognised' /\ Quiet' /\ FreedSlotHoldsNothing'
  <2>1. \A v \in Work : wk'[v].pc \in {"kill", "release"} => wk'[v] = wk[v] /\ wk[v].uid # u
    BY <1>5, <1>6, <1>7
  <2>2. \A r \in Slot :
            \/ tbl'[r] = tbl[r]
            \/ /\ tbl[r].allocated /\ tbl[r].uid = u
               /\ tbl'[r].allocated /\ tbl'[r].uid = u /\ tbl'[r].sid = tbl[r].sid
    BY <1>8
  <2> QED
    BY <1>3, <2>1, <2>2, SerialClosing
<1>10. Serial'
  <2>1. \A v \in Work : wk'[v].uid = wk[v].uid /\ (wk'[v].pc = "free" => wk[v].pc = "free")
    BY <1>2, <1>5, <1>6
  <2> QED
    BY <1>3, <2>1 DEF SerialInv, Serial
<1>11. Detached'
  <2> SUFFICES ASSUME NEW v \in Work, NEW r \in Slot,
                      wk'[v].pc # "free" /\ (wk'[v].pc = "detach" => r < wk'[v].scan),
                      Owns(tbl'[r], wk'[v].uid), tbl'[r].revoking
               PROVE  tbl'[r].nsfile = NoNs
    BY DEF Detached
  <2>1. CASE tbl'[r].nsfile = NoNs
    BY <2>1
  <2>2. CASE tbl'[r] = tbl[r] /\ (r = s => ~Owns(tbl[r], u))
    <3>1. CASE v # w
      BY <1>6, <2>2, <3>1 DEF SerialInv, Detached
    <3>2. CASE v = w
      <4>1. Owns(tbl[r], wk[w].uid) /\ r # s
        BY <1>2, <1>5, <1>6, <2>2, <3>2
      <4>2. r < s
        <5>1. q.pc = "detach" => r < s + 1
          BY <1>5, <1>6, <3>2
        <5> QED
          BY <1>5, <4>1, <5>1, TableConstants DEF Slot
      <4> QED
        BY <1>2, <1>3, <2>2, <4>1, <4>2 DEF SerialInv, Detached
    <3> QED
      BY <3>1, <3>2
  <2> QED
    BY <1>8, <2>1, <2>2
<1> QED
  BY <1>9, <1>10, <1>11 DEF SerialInv

\* abk_revoke_release_slots takes the slot from nobody: members of the UID are
\* there by a usable slot, which is not released.
LEMMA SerialRelease ==
    ASSUME IInv, SerialInv, NEW w \in Work, WorkerRelease(w)
    PROVE  SerialInv'
<1>1. /\ GoodTable(tbl) /\ wk \in [Work -> Request]
      /\ \A r \in Slot : tbl[r] \in Instance
  BY DEF IInv, TypeOK, GoodTable
<1>2. PICK u \in Uid : u = wk[w].uid
  BY DEF WorkerRelease, IInv, BusyHasUid
<1>3. /\ wk[w].pc = "release" /\ UNCHANGED <<pc, rv>> /\ tbl' = ReleaseSlots(tbl, u)
  BY <1>2 DEF WorkerRelease, taskVars
<1>4. /\ wk'[w].pc = "free" /\ wk'[w].uid = NoUid
      /\ \A v \in Work \ {w} : wk'[v] = wk[v]
  BY <1>1 DEF WorkerRelease, FreeRequest
<1>5. \A v \in Work \ {w} : wk[v].uid # u
  BY <1>2, TableConstants DEF SerialInv, Serial
<1>6. \A r \in Slot :
          \/ tbl'[r] = tbl[r]
          \/ /\ tbl[r].allocated /\ tbl[r].uid = u /\ ~tbl[r].ready
             /\ ~tbl'[r].allocated /\ ~tbl'[r].mounts /\ tbl'[r].nsfile = tbl[r].nsfile
  BY <1>1, <1>3 DEF ReleaseSlots, Owns, Instance
<1>7. \A t \in Task : (Entering(t)' <=> Entering(t)) /\ (Member(t)' <=> Member(t))
  BY <1>3 DEF Entering, Member, Sandboxed
<1>8. \A v : Usable(v) => Usable(v)'
  BY <1>6 DEF Usable, Owns
<1>9. Serial'
  <2>1. \A v \in Uid, x \in Work :
            rv[v].at \in {"mark", "queue", "detach", "kill"} => wk'[x].uid # v
    BY <1>4, TableConstants DEF SerialInv, Serial
  <2> QED
    BY <1>3, <1>4, <2>1 DEF SerialInv, Serial
<1>10. Detached'
  <2> SUFFICES ASSUME NEW v \in Work, NEW r \in Slot,
                      wk'[v].pc # "free" /\ (wk'[v].pc = "detach" => r < wk'[v].scan),
                      Owns(tbl'[r], wk'[v].uid), tbl'[r].revoking
               PROVE  tbl'[r].nsfile = NoNs
    BY DEF Detached
  <2>1. v # w /\ wk'[v] = wk[v] /\ tbl'[r] = tbl[r]
    BY <1>4, <1>6 DEF Owns
  <2> QED
    BY <2>1 DEF SerialInv, Detached
<1>11. Recognised'
  <2> SUFFICES ASSUME NEW t \in Task, Member(t)
               PROVE  IdentityMatches(tbl', UidOf[t], SidOf[t])
    BY <1>7 DEF Recognised, IdentityMatches
  <2>1. PICK r \in Slot : Identifies(tbl[r], UidOf[t], SidOf[t])
    BY DEF SerialInv, Recognised, IdentityMatches
  <2>2. CASE UidOf[t] = u
    <3>1. PICK s \in Slot : Owns(tbl[s], u) /\ tbl[s].ready
      BY <1>2, <1>3, <2>2 DEF SerialInv, Quiet, Usable
    <3>2. r = s
      BY <1>1, <2>1, <2>2, <3>1 DEF GoodTable, Owns, Identifies
    <3> QED
      BY <1>6, <2>1, <3>1, <3>2 DEF IdentityMatches
  <2>3. CASE UidOf[t] # u
    <3>1. tbl'[r] = tbl[r]
      BY <1>6, <2>1, <2>3 DEF Identifies
    <3> QED
      BY <2>1, <3>1 DEF IdentityMatches
  <2> QED
    BY <2>2, <2>3
<1>12. Quiet'
  <2> SUFFICES ASSUME NEW v \in Work, NEW t \in Task, UidOf[t] = wk'[v].uid,
                      \/ wk'[v].pc = "kill" /\ Entering(t)
                      \/ wk'[v].pc = "release" /\ Member(t)
               PROVE  Usable(UidOf[t])'
    BY <1>7 DEF Quiet
  <2>1. wk'[v] = wk[v]
    BY <1>4
  <2> QED
    BY <1>8, <2>1 DEF SerialInv, Quiet
<1>13. FreedSlotHoldsNothing'
  <2> SUFFICES ASSUME NEW r \in Slot, ~tbl'[r].allocated
               PROVE  tbl'[r].nsfile = NoNs /\ ~tbl'[r].mounts
    BY DEF FreedSlotHoldsNothing
  <2>1. CASE tbl'[r] = tbl[r]
    BY <2>1 DEF SerialInv, FreedSlotHoldsNothing
  <2>2. CASE /\ tbl[r].allocated /\ tbl[r].uid = u /\ ~tbl[r].ready
             /\ ~tbl'[r].mounts /\ tbl'[r].nsfile = tbl[r].nsfile
    <3>1. tbl[r].revoking /\ Owns(tbl[r], wk[w].uid)
      BY <1>1, <1>2, <2>2 DEF GoodTable, Settled, Owns
    <3> QED
      BY <1>3, <2>2, <3>1 DEF SerialInv, Detached
  <2> QED
    BY <1>6, <2>1, <2>2
<1> QED
  BY <1>9, <1>10, <1>11, <1>12, <1>13 DEF SerialInv

\* A step that changes neither the table nor the tasks: what it may do to a
\* request is to begin one, to end one, and to go on when the answer allows it.
LEMMA SerialOther ==
    ASSUME SerialInv, UNCHANGED <<tbl, pc>>, Serial',
           \A w \in Work :
                \/ wk'[w] = wk[w]
                \/ wk'[w].pc = "free"
                \/ wk'[w].pc = "detach" /\ wk'[w].scan = 1
                \/ /\ wk'[w].uid = wk[w].uid
                   /\ \/ /\ wk[w].pc = "entrants" /\ wk'[w].pc = "kill"
                         /\ \A t \in Task : UidOf[t] = wk[w].uid => ~Entering(t)
                      \/ /\ wk[w].pc = "kill" /\ wk'[w].pc = "release"
                         /\ Victims(wk[w].uid) = {}
    PROVE  SerialInv'
<1>1. \A t \in Task : (Entering(t)' <=> Entering(t)) /\ (Member(t)' <=> Member(t))
  BY DEF Entering, Member, Sandboxed
<1>2. \A v : Usable(v) => Usable(v)'
  BY DEF Usable, Owns
<1>3. Detached'
  <2> SUFFICES ASSUME NEW w \in Work, NEW s \in Slot,
                      wk'[w].pc # "free" /\ (wk'[w].pc = "detach" => s < wk'[w].scan),
                      Owns(tbl[s], wk'[w].uid), tbl[s].revoking
               PROVE  tbl[s].nsfile = NoNs
    BY DEF Detached
  <2>1. CASE wk'[w] = wk[w]
    BY <2>1 DEF SerialInv, Detached
  <2>2. CASE wk'[w].pc = "detach" /\ wk'[w].scan = 1
    BY <2>2, TableConstants DEF Slot
  <2>3. CASE wk'[w].uid = wk[w].uid /\ wk[w].pc \in {"entrants", "kill"}
    BY <2>3 DEF SerialInv, Detached
  <2> QED
    BY <2>1, <2>2, <2>3
<1>4. Recognised'
  BY <1>1 DEF SerialInv, Recognised, IdentityMatches
<1>5. Quiet'
  <2> SUFFICES ASSUME NEW w \in Work, NEW t \in Task, UidOf[t] = wk'[w].uid,
                      \/ wk'[w].pc = "kill" /\ Entering(t)
                      \/ wk'[w].pc = "release" /\ Member(t)
               PROVE  Usable(UidOf[t])
    BY <1>1, <1>2 DEF Quiet
  <2>1. CASE wk'[w] = wk[w]
    BY <2>1 DEF SerialInv, Quiet
  <2>2. CASE /\ wk'[w].pc = "kill" /\ wk'[w].uid = wk[w].uid
             /\ \A r \in Task : UidOf[r] = wk[w].uid => ~Entering(r)
    BY <2>2
  <2>3. CASE /\ wk[w].pc = "kill" /\ wk'[w].uid = wk[w].uid /\ wk'[w].pc = "release"
             /\ Victims(wk[w].uid) = {}
    <3>1. IdentityMatches(tbl, UidOf[t], SidOf[t]) /\ Member(t)
      BY <2>3 DEF SerialInv, Recognised
    <3>2. ~Sandboxed(t)
      BY <2>3, <3>1 DEF Victims
    <3> QED
      BY <2>3, <3>1, <3>2 DEF SerialInv, Quiet, Member
  <2> QED
    BY <2>1, <2>2, <2>3
<1>6. FreedSlotHoldsNothing'
  BY DEF SerialInv, FreedSlotHoldsNothing
<1> QED
  BY <1>3, <1>4, <1>5, <1>6 DEF SerialInv

\* The hook begins only when no request of the UID is under way, and the
\* request is queued by the one caller in the hook.
LEMMA SerialCaller ==
    ASSUME IInv, SerialInv, ~Overlap, NEW u \in Uid,
           \/ ProfileAllow(u) \/ ProfileDeny(u) \/ PruneBegin(u) \/ RevokeQueue(u)
           \/ RevokeNoMemory(u) \/ CallerKill(u) \/ PruneRemove(u)
    PROVE  SerialInv'
<1>1. rv \in [Uid -> Caller] /\ wk \in [Work -> Request]
  BY DEF IInv, TypeOK
<1>2. UNCHANGED <<tbl, pc>>
  BY DEF ProfileAllow, ProfileDeny, PruneBegin, RevokeQueue, RevokeNoMemory, CallerKill,
         PruneRemove, taskVars
<1>3. \A v \in Uid \ {u} : rv'[v] = rv[v]
  BY <1>1 DEF ProfileAllow, ProfileDeny, PruneBegin, RevokeQueue, RevokeNoMemory, CallerKill,
              PruneRemove, HookReturns
<1>4. CASE RevokeQueue(u)
  <2>1. PICK w, q :
            /\ w \in Work /\ wk[w].pc = "free" /\ wk' = [wk EXCEPT ![w] = q]
            /\ q = [pc |-> "detach", uid |-> u, scan |-> 1, retries |-> 0]
    BY <1>4 DEF RevokeQueue
  <2>2. q.pc = "detach" /\ q.uid = u /\ q.scan = 1
    BY <2>1
  <2>3. wk'[w] = q /\ \A v \in Work \ {w} : wk'[v] = wk[v]
    BY <1>1, <2>1
  <2>4. \A v \in Work : wk[v].uid # u
    BY <1>4 DEF RevokeQueue, SerialInv, Serial
  <2>5. rv'[u].at \notin {"mark", "queue", "detach", "kill"}
    BY <1>1, <1>4 DEF RevokeQueue, HookReturns, IdleCaller
  <2>6. Serial'
    <3>1. \A v \in Work : wk'[v].pc = "free" => wk'[v].uid = NoUid
      BY <2>2, <2>3 DEF SerialInv, Serial
    <3>2. \A v, x \in Work : wk'[v].uid = wk'[x].uid /\ wk'[v].uid # NoUid => v = x
      BY <2>2, <2>3, <2>4 DEF SerialInv, Serial
    <3>3. \A v \in Uid, x \in Work :
              rv'[v].at \in {"mark", "queue", "detach", "kill"} => wk'[x].uid # v
      BY <1>3, <2>2, <2>3, <2>5 DEF SerialInv, Serial
    <3> QED
      BY <3>1, <3>2, <3>3 DEF Serial
  <2> QED
    BY <1>2, <2>2, <2>3, <2>6, SerialOther
<1>5. CASE ~RevokeQueue(u)
  <2>1. UNCHANGED wk
    BY <1>5 DEF ProfileAllow, ProfileDeny, PruneBegin, RevokeNoMemory, CallerKill, PruneRemove
  <2>2. ASSUME rv'[u].at \in {"mark", "queue", "detach", "kill"}
        PROVE  \A w \in Work : wk[w].uid # u
    <3>1. CASE ProfileAllow(u) \/ RevokeNoMemory(u)
      <4>1. rv[u].at \in {"mark", "queue", "detach", "kill"}
        BY <2>2, <3>1 DEF ProfileAllow, RevokeNoMemory
      <4> QED
        BY <4>1 DEF SerialInv, Serial
    <3>2. CASE ProfileDeny(u) \/ PruneBegin(u)
      BY <3>2 DEF ProfileDeny, PruneBegin, MayRevoke
    <3>3. CASE CallerKill(u) \/ PruneRemove(u)
      <4>1. rv'[u] = IdleCaller \/ rv'[u] = [IdleCaller EXCEPT !.at = "remove", !.prune = TRUE]
        BY <1>1, <3>3 DEF CallerKill, PruneRemove, HookReturns
      <4>2. /\ IdleCaller.at = "idle"
            /\ [IdleCaller EXCEPT !.at = "remove", !.prune = TRUE].at = "remove"
        BY DEF IdleCaller
      <4>3. rv'[u].at \in {"idle", "remove"}
        BY <4>1, <4>2
      <4> QED
        BY <2>2, <4>3
    <3> QED
      BY <1>5, <3>1, <3>2, <3>3
  <2>3. Serial'
    BY <1>3, <2>1, <2>2 DEF SerialInv, Serial
  <2> QED
    BY <1>2, <2>1, <2>3, SerialOther
<1> QED
  BY <1>4, <1>5

\* The worker looks at the entrants, whose counter is exact, and at the
\* victims.
LEMMA SerialWorker ==
    ASSUME IInv, Exact(tbl, InEntry), SerialInv, NEW w \in Work,
           WorkerEntrants(w) \/ WorkerKill(w)
    PROVE  SerialInv'
<1>1. wk \in [Work -> Request] /\ wk[w] \in Request
  BY DEF IInv, TypeOK
<1>2. UNCHANGED <<tbl, pc, rv>> /\ wk[w].pc \in {"entrants", "kill"}
  BY DEF WorkerEntrants, WorkerKill, taskVars
<1>3. PICK q :
        /\ wk' = [wk EXCEPT ![w] = q]
        /\ \/ q = FreeRequest
           \/ q.pc = "detach" /\ q.scan = 1 /\ q.uid = wk[w].uid
           \/ /\ q.uid = wk[w].uid /\ q.pc = "kill" /\ wk[w].pc = "entrants"
              /\ ~HasEntrants(tbl, wk[w].uid)
           \/ /\ q.uid = wk[w].uid /\ q.pc = "release" /\ wk[w].pc = "kill"
              /\ Victims(wk[w].uid) = {}
  <2>1. CASE WorkerRetry(w)
    <3>1. PICK q : /\ wk' = [wk EXCEPT ![w] = q]
                   /\ q = [wk[w] EXCEPT !.pc = "detach", !.scan = 1, !.retries = @ + 1]
      BY <2>1 DEF WorkerRetry
    <3>2. q.pc = "detach" /\ q.scan = 1 /\ q.uid = wk[w].uid
      BY <1>1, <3>1 DEF Request
    <3> QED
      BY <3>1, <3>2
  <2>2. CASE WorkerGivesUp(w)
    BY <2>2 DEF WorkerGivesUp
  <2>3. CASE WorkerEntrants(w) /\ ~HasEntrants(tbl, wk[w].uid)
    <3>1. PICK q : wk' = [wk EXCEPT ![w] = q] /\ q = [wk[w] EXCEPT !.pc = "kill"]
      BY <2>3 DEF WorkerEntrants
    <3>2. q.pc = "kill" /\ q.uid = wk[w].uid
      BY <1>1, <3>1 DEF Request
    <3> QED
      BY <2>3, <3>1, <3>2 DEF WorkerEntrants
  <2>4. CASE WorkerKill(w) /\ Victims(wk[w].uid) = {}
    <3>1. PICK q : wk' = [wk EXCEPT ![w] = q] /\ q = [wk[w] EXCEPT !.pc = "release"]
      BY <2>4 DEF WorkerKill
    <3>2. q.pc = "release" /\ q.uid = wk[w].uid
      BY <1>1, <3>1 DEF Request
    <3> QED
      BY <2>4, <3>1, <3>2 DEF WorkerKill
  <2> QED
    BY <2>1, <2>2, <2>3, <2>4 DEF WorkerEntrants, WorkerKill
<1>4. wk'[w] = q /\ \A v \in Work \ {w} : wk'[v] = wk[v]
  BY <1>1, <1>3
<1>5. ASSUME ~HasEntrants(tbl, wk[w].uid), NEW t \in Task, UidOf[t] = wk[w].uid, Entering(t)
      PROVE  FALSE
  <2>1. t \in InEntry /\ InEntry \in SUBSET Task
    BY <1>5 DEF InEntry
  <2>2. PICK s \in Slot : Identifies(tbl[s], UidOf[t], SidOf[t])
    BY <2>1 DEF Exact, IdentityMatches
  <2>3. t \in Counted(tbl, InEntry, s)
    BY <2>1, <2>2 DEF Counted, Identifies
  <2>4. IsFiniteSet(Counted(tbl, InEntry, s))
    BY <2>1, CountedFinite
  <2>5. Cardinality(Counted(tbl, InEntry, s)) # 0
    BY <2>3, <2>4, FS_EmptySet
  <2> QED
    BY <1>5, <2>2, <2>5 DEF Exact, HasEntrants, Identifies, Owns
<1>6. FreeRequest.pc = "free" /\ FreeRequest.uid = NoUid
  BY DEF FreeRequest
<1>7. Serial'
  <2>1. \A v \in Work : wk'[v].pc = "free" => wk'[v].uid = NoUid
    BY <1>3, <1>4, <1>6 DEF SerialInv, Serial
  <2>2. q.uid = wk[w].uid \/ q.uid = NoUid
    BY <1>3, <1>6
  <2>3. \A v, x \in Work : wk'[v].uid = wk'[x].uid /\ wk'[v].uid # NoUid => v = x
    BY <1>4, <2>2 DEF SerialInv, Serial
  <2>4. \A v \in Uid, x \in Work :
            rv[v].at \in {"mark", "queue", "detach", "kill"} => wk'[x].uid # v
    BY <1>4, <2>2, TableConstants DEF SerialInv, Serial
  <2> QED
    BY <1>2, <2>1, <2>3, <2>4 DEF Serial
<1>8. \A v \in Work :
          \/ wk'[v] = wk[v]
          \/ wk'[v].pc = "free"
          \/ wk'[v].pc = "detach" /\ wk'[v].scan = 1
          \/ /\ wk'[v].uid = wk[v].uid
             /\ \/ /\ wk[v].pc = "entrants" /\ wk'[v].pc = "kill"
                   /\ \A t \in Task : UidOf[t] = wk[v].uid => ~Entering(t)
                \/ /\ wk[v].pc = "kill" /\ wk'[v].pc = "release"
                   /\ Victims(wk[v].uid) = {}
  BY <1>3, <1>4, <1>5, <1>6
<1> QED
  BY <1>2, <1>7, <1>8, SerialOther

\* SerialInv is inductive, on top of IInv and the exact counter.
LEMMA SerialStep ==
    ASSUME ~Overlap, IInv, Exact(tbl, InEntry), SerialInv, [Next]_vars
    PROVE  SerialInv'
<1>1. CASE UNCHANGED vars
  BY <1>1 DEF vars, SerialInv, Serial, Detached, Recognised, Quiet, FreedSlotHoldsNothing,
              Usable, Member, Entering, Sandboxed, IdentityMatches
<1>2. CASE Next
  BY <1>2, SerialEntry, SerialFork, SerialCreate, SerialMark, SerialCallerDetach,
     SerialWorkerDetach, SerialRelease, SerialCaller, SerialWorker
     DEF Next, EntryStep, CallerStep, WorkerStep
<1> QED
  BY <1>1, <1>2

LEMMA SerialInit == Init => SerialInv
BY DEF Init, SerialInv, Serial, Detached, Recognised, Quiet, FreedSlotHoldsNothing, Member,
       Entering, Sandboxed, FreeRequest, IdleCaller, EmptyTable, FreeInstance

LEMMA SerialHolds == ~Overlap /\ Spec => []SerialInv
<1>1. Spec => []Exact(tbl, InEntry)
  BY CounterExact, ExactIsEntrantsExact, PTL
<1>2. CASE ~Overlap
  <2>1. IInv /\ Exact(tbl, InEntry) /\ SerialInv /\ [Next]_vars => SerialInv'
    BY <1>2, SerialStep
  <2>2. Spec => []SerialInv
    BY <1>1, <2>1, SerialInit, IInvHolds, PTL DEF Spec
  <2> QED
    BY <2>2
<1>3. CASE Overlap
  BY <1>3
<1> QED
  BY <1>2, <1>3

\* A live task with the sandbox credential keeps the slot it is recognised by,
\* through any number of entries, forks and revocations one after the other.
THEOREM TaskStaysRecognised == ~Overlap /\ Spec => []IdentityRetained
<1>1. SerialInv => IdentityRetained
  BY DEF SerialInv, Recognised, IdentityRetained, Member
<1> QED
  BY <1>1, SerialHolds, PTL

\* A slot that abk_revoke_release_slots frees holds no namespace file and no
\* mount array: its scan has passed there.
THEOREM FreedSlotsEmpty == ~Overlap /\ Spec => []FreedSlotHoldsNothing
<1>1. SerialInv => FreedSlotHoldsNothing
  BY DEF SerialInv
<1> QED
  BY <1>1, SerialHolds, PTL

\* An entry that is denied leaves the caller where it was, at whatever point
\* and against whatever revocation, if moving a caller back does not fail.
THEOREM DenialRollsBack == ~RestoreFails /\ Spec => []DeniedRollsBack
<1>1. Init => DeniedRollsBack
  BY DEF Init, DeniedRollsBack
<1>2. CASE ~RestoreFails
  <2>1. ASSUME IInv, DeniedRollsBack, [Next]_vars
        PROVE  DeniedRollsBack'
    <3>1. pc \in [Task -> Steps] /\ ns \in [Task -> NsId \cup {AppNs}]
      BY <2>1 DEF IInv, TypeOK
    <3>2. ASSUME NEW t \in Task, Authorize(t) \/ EntryStep(t) \/ Exit(t)
          PROVE  DeniedRollsBack'
      BY <1>2, <2>1, <3>1, <3>2
         DEF DeniedRollsBack, EntryStep, Authorize, EscapeReturns, JoinRejected, JoinReady,
             JoinNamespace, JoinFails, CreateDenied, CreateNamespace, CreateFails, MayCreate,
             CommitCreds, EntryComplete, Exit
    <3>3. ASSUME NEW t \in Task, NEW c \in Task, Fork(t, c)
          PROVE  DeniedRollsBack'
      BY <2>1, <3>1, <3>3 DEF DeniedRollsBack, Fork
    <3>4. ASSUME UNCHANGED <<pc, ns>>
          PROVE  DeniedRollsBack'
      BY <2>1, <3>4 DEF DeniedRollsBack
    <3>5. ASSUME NEW u \in Uid,
                 ProfileAllow(u) \/ ProfileDeny(u) \/ PruneBegin(u) \/ CallerStep(u)
          PROVE  UNCHANGED <<pc, ns>>
      BY <3>5 DEF ProfileAllow, ProfileDeny, PruneBegin, CallerStep, RevokeMark, RevokeQueue,
                  RevokeNoMemory, CallerDetach, CallerKill, PruneRemove, taskVars
    <3>6. ASSUME NEW w \in Work, WorkerStep(w)
          PROVE  UNCHANGED <<pc, ns>>
      BY <3>6 DEF WorkerStep, WorkerDetach, WorkerEntrants, WorkerKill, WorkerRelease, taskVars
    <3>7. UNCHANGED vars => UNCHANGED <<pc, ns>>
      BY DEF vars
    <3> QED
      BY <2>1, <3>2, <3>3, <3>4, <3>5, <3>6, <3>7 DEF Next
  <2>2. IInv /\ DeniedRollsBack /\ [Next]_vars => DeniedRollsBack'
    BY <2>1
  <2>3. Spec => []DeniedRollsBack
    BY <1>1, <2>2, IInvHolds, PTL DEF Spec
  <2> QED
    BY <2>3
<1>3. CASE RestoreFails
  BY <1>3
<1> QED
  BY <1>2, <1>3

-----------------------------------------------------------------------------
(* The mount namespaces.                                                   *)

\* The namespace a member is in, or is about to join.
Place(t) == IF pc[t] = "joining" THEN file[t] ELSE ns[t]

\* Namespace n belongs to the sandbox of UID u.
Seat(n, u) ==
    \/ \E t \in Task : Member(t) /\ UidOf[t] = u /\ Place(t) = n
    \/ \E s \in Slot : Owns(tbl[s], u) /\ tbl[s].nsfile = n /\ n # NoNs

\* Every sandbox has one namespace of its own.
OneSeat ==
    \A u, v \in Uid, n, m \in NsId \cup {AppNs, NoNs} :
        Seat(n, u) /\ Seat(m, v) => n \in NsId /\ (n = m <=> u = v)

\* Whatever a step other than the creation of an instance does to the slots,
\* a namespace file they hold they held before.
LEMMA FilesKept ==
    ASSUME IInv, SerialInv, [Next]_vars, \A t \in Task : ~CreateNamespace(t)
    PROVE  \A s \in Slot, u \in Uid :
               Owns(tbl'[s], u) /\ tbl'[s].nsfile # NoNs =>
                   Owns(tbl[s], u) /\ tbl'[s].nsfile = tbl[s].nsfile
<1> DEFINE Kept == \A s \in Slot, u \in Uid :
                       Owns(tbl'[s], u) /\ tbl'[s].nsfile # NoNs =>
                           Owns(tbl[s], u) /\ tbl'[s].nsfile = tbl[s].nsfile
<1>1. /\ GoodTable(tbl) /\ TypeOK
      /\ \A r \in Slot : tbl[r] \in Instance
  BY DEF IInv, GoodTable
<1>2. ASSUME SameSlots(tbl, tbl')
      PROVE  Kept
  BY <1>2 DEF SameSlots, Owns
<1>3. /\ SameSlots(tbl, tbl)
      /\ \A s \in Slot : SameSlots(tbl, Enter(tbl, s))
      /\ \A u, sd : SameSlots(tbl, Complete(tbl, u, sd))
      /\ \A s \in Slot : ~tbl[s].allocated /\ tbl[s].nsfile = NoNs /\ ~tbl[s].mounts =>
               SameSlots(tbl, Unreserve(tbl, s))
  BY <1>1, SameSlotsOps
<1>4. ASSUME NEW t \in Task, JoinReady(t)
      PROVE  Kept
  <2>1. PICK s \in Slot : tbl' = Enter(tbl, s)
    BY <1>4 DEF JoinReady, ReadySlot, FirstOf
  <2> QED
    BY <1>2, <1>3, <2>1
<1>5. ASSUME NEW t \in Task, JoinFails(t) \/ EntryComplete(t)
      PROVE  Kept
  BY <1>2, <1>3, <1>5 DEF JoinFails, EntryComplete
<1>6. ASSUME NEW t \in Task, CreateFails(t)
      PROVE  Kept
  <2>1. PICK s \in ReserveSlot(tbl, UidOf[t], SidOf[t]) : tbl' = Unreserve(tbl, s)
    BY <1>6 DEF CreateFails
  <2>2. s \in Slot /\ ~tbl[s].allocated
    BY <1>1, ReservedIsFree
  <2>3. SameSlots(tbl, tbl')
    BY <1>3, <2>1, <2>2 DEF SerialInv, FreedSlotHoldsNothing
  <2> QED
    BY <1>2, <2>3
<1>7. ASSUME NEW v \in Uid, RevokeMark(v)
      PROVE  Kept
  BY <1>1, <1>7 DEF RevokeMark, MarkRevoking, Owns, Instance
<1>8. ASSUME NEW s \in Slot, NEW v \in Uid, tbl' = DetachSlot(tbl, s, v)
      PROVE  Kept
  <2>1. \A r \in Slot : tbl'[r] = tbl[r] \/ tbl'[r].nsfile = NoNs
    BY <1>1, <1>8, DetachEffect
  <2> QED
    BY <2>1
<1>9. ASSUME NEW v \in Uid, CallerDetach(v)
      PROVE  Kept
  <2>1. rv[v].scan \in Slot
    BY <1>1 DEF TypeOK, Caller
  <2> QED
    BY <1>8, <1>9, <2>1 DEF CallerDetach
<1>10. ASSUME NEW w \in Work, WorkerDetach(w)
       PROVE  Kept
  <2>1. wk[w].scan \in Slot /\ wk[w].uid \in Uid
    BY <1>1, <1>10 DEF TypeOK, Request, WorkerDetach, IInv, BusyHasUid
  <2> QED
    BY <1>8, <1>10, <2>1 DEF WorkerDetach
<1>11. ASSUME NEW w \in Work, WorkerRelease(w)
       PROVE  Kept
  <2>1. \A r \in Slot : tbl'[r] = tbl[r] \/ ~tbl'[r].allocated
    BY <1>1, <1>11 DEF WorkerRelease, ReleaseSlots, Instance
  <2> QED
    BY <2>1 DEF Owns
<1>12. ASSUME UNCHANGED tbl
       PROVE  Kept
  BY <1>12
<1>13. ASSUME NEW t \in Task,
              \/ Authorize(t) \/ EscapeReturns(t) \/ JoinRejected(t)
              \/ JoinNamespace(t) \/ CreateDenied(t) \/ CommitCreds(t) \/ Exit(t)
       PROVE  UNCHANGED tbl
  BY <1>13 DEF Authorize, EscapeReturns, JoinRejected, JoinNamespace,
               CreateDenied, CommitCreds, Exit
<1>14. ASSUME NEW u \in Uid,
              \/ ProfileAllow(u) \/ ProfileDeny(u) \/ PruneBegin(u)
              \/ RevokeQueue(u) \/ RevokeNoMemory(u) \/ CallerKill(u)
              \/ PruneRemove(u)
       PROVE  UNCHANGED tbl
  BY <1>14 DEF ProfileAllow, ProfileDeny, PruneBegin, RevokeQueue,
               RevokeNoMemory, CallerKill, PruneRemove
<1>15. ASSUME NEW w \in Work, WorkerEntrants(w) \/ WorkerKill(w)
       PROVE  UNCHANGED tbl
  BY <1>15 DEF WorkerEntrants, WorkerKill
<1>16. ASSUME NEW t \in Task, NEW c \in Task, Fork(t, c)
       PROVE  UNCHANGED tbl
  BY <1>16 DEF Fork
<1>17. UNCHANGED vars => UNCHANGED tbl
  BY DEF vars
<1> HIDE DEF Kept
<1>18. Kept
  BY <1>4, <1>5, <1>6, <1>7, <1>9, <1>10, <1>11, <1>12, <1>13, <1>14, <1>15, <1>16, <1>17
     DEF Next, EntryStep, CallerStep, WorkerStep
<1> QED
  BY <1>18 DEF Kept

\* Who is a member after such a step is in a namespace its sandbox had before.
LEMMA MembersSeated ==
    ASSUME IInv, [Next]_vars, \A t \in Task : ~CreateNamespace(t),
           NEW r \in Task, Member(r)'
    PROVE  Seat(Place(r)', UidOf[r])
<1>1. /\ TypeOK /\ GoodTable(tbl)
      /\ pc \in [Task -> Steps] /\ ns \in [Task -> NsId \cup {AppNs}]
      /\ file \in [Task -> NsId \cup {NoNs}]
  BY DEF IInv, TypeOK
<1>2. ASSUME Member(r), Place(r)' = Place(r)
      PROVE  Seat(Place(r)', UidOf[r])
  BY <1>2 DEF Seat
<1>3. ASSUME UNCHANGED <<pc, ns, file>>
      PROVE  Member(r) /\ Place(r)' = Place(r)
  BY <1>3 DEF Member, Entering, Sandboxed, Place
<1>4. ASSUME NEW t \in Task, JoinReady(t)
      PROVE  Seat(Place(r)', UidOf[r])
  <2>1. CASE r = t
    <3>1. PICK s \in ReadySlot(tbl, UidOf[t]) : file' = [file EXCEPT ![t] = tbl[s].nsfile]
      BY <1>4 DEF JoinReady
    <3>2. s \in Slot /\ Owns(tbl[s], UidOf[t]) /\ tbl[s].ready
      BY <3>1 DEF ReadySlot, FirstOf
    <3>3. tbl[s].nsfile # NoNs
      BY <1>1, <3>2 DEF GoodTable, Settled, Owns
    <3>4. Place(t)' = tbl[s].nsfile
      BY <1>1, <1>4, <3>1 DEF Place, JoinReady
    <3> QED
      BY <2>1, <3>2, <3>3, <3>4 DEF Seat
  <2>2. CASE r # t
    <3>1. pc'[r] = pc[r] /\ file'[r] = file[r] /\ ns'[r] = ns[r]
      BY <1>1, <1>4, <2>2 DEF JoinReady
    <3>2. Member(r) /\ Place(r)' = Place(r)
      BY <3>1 DEF Member, Entering, Sandboxed, Place
    <3> QED
      BY <1>2, <3>2
  <2> QED
    BY <2>1, <2>2
<1>5. ASSUME NEW t \in Task,
             \/ Authorize(t) \/ EscapeReturns(t) \/ JoinRejected(t) \/ JoinNamespace(t)
             \/ JoinFails(t) \/ CreateDenied(t) \/ CreateFails(t) \/ CommitCreds(t)
             \/ EntryComplete(t) \/ Exit(t)
      PROVE  Member(r) /\ Place(r)' = Place(r)
  <2>1. CASE r # t
    <3>1. pc'[r] = pc[r] /\ file'[r] = file[r] /\ ns'[r] = ns[r]
      BY <1>1, <1>5, <2>1
         DEF Authorize, EscapeReturns, JoinRejected, JoinNamespace, JoinFails, CreateDenied,
             CreateFails, MayCreate, CommitCreds, EntryComplete, Exit
    <3> QED
      BY <3>1 DEF Member, Entering, Sandboxed, Place
  <2>2. CASE r = t
    <3>1. CASE JoinNamespace(t)
      BY <1>1, <2>2, <3>1 DEF JoinNamespace, Member, Entering, Sandboxed, Place
    <3>2. CASE CommitCreds(t) \/ EntryComplete(t)
      BY <1>1, <2>2, <3>2 DEF CommitCreds, EntryComplete, Member, Entering, Sandboxed, Place
    <3>3. CASE ~(JoinNamespace(t) \/ CommitCreds(t) \/ EntryComplete(t))
      <4>1. pc'[t] \in {"app", "granted"}
        BY <1>1, <1>5, <3>3
           DEF Authorize, EscapeReturns, JoinRejected, JoinFails, CreateDenied,
               CreateFails, MayCreate, Exit
      <4> QED
        BY <2>2, <4>1 DEF Member, Entering, Sandboxed
    <3> QED
      BY <3>1, <3>2, <3>3
  <2> QED
    BY <2>1, <2>2
<1>6. ASSUME NEW t \in Task, NEW c \in Task, Fork(t, c)
      PROVE  Seat(Place(r)', UidOf[r])
  <2>1. CASE r = c
    <3>1. Place(c)' = Place(t) /\ Member(t) /\ UidOf[c] = UidOf[t]
      BY <1>1, <1>6 DEF Fork, Place, Member, Sandboxed
    <3> QED
      BY <2>1, <3>1 DEF Seat
  <2>2. CASE r # c
    <3>1. pc'[r] = pc[r] /\ file'[r] = file[r] /\ ns'[r] = ns[r]
      BY <1>1, <1>6, <2>2 DEF Fork
    <3>2. Member(r) /\ Place(r)' = Place(r)
      BY <3>1 DEF Member, Entering, Sandboxed, Place
    <3> QED
      BY <1>2, <3>2
  <2> QED
    BY <2>1, <2>2
<1>7. ASSUME NEW u \in Uid,
             ProfileAllow(u) \/ ProfileDeny(u) \/ PruneBegin(u) \/ CallerStep(u)
      PROVE  UNCHANGED <<pc, ns, file>>
  BY <1>7 DEF ProfileAllow, ProfileDeny, PruneBegin, CallerStep, RevokeMark, RevokeQueue,
              RevokeNoMemory, CallerDetach, CallerKill, PruneRemove, taskVars
<1>8. ASSUME NEW w \in Work, WorkerStep(w)
      PROVE  UNCHANGED <<pc, ns, file>>
  BY <1>8 DEF WorkerStep, WorkerDetach, WorkerEntrants, WorkerKill, WorkerRelease, taskVars
<1>9. UNCHANGED vars => UNCHANGED <<pc, ns, file>>
  BY DEF vars
<1> QED
  BY <1>2, <1>3, <1>4, <1>5, <1>6, <1>7, <1>8, <1>9 DEF Next, EntryStep

\* One namespace per sandbox is kept: a new instance gets a fresh one, and its
\* UID has no member left that is in another.
LEMMA OneSeatStep ==
    ASSUME IInv, SerialInv, OneSeat, [Next]_vars
    PROVE  OneSeat'
<1>1. GoodTable(tbl) /\ pc \in [Task -> Steps] /\ ns \in [Task -> NsId \cup {AppNs}]
      /\ file \in [Task -> NsId \cup {NoNs}]
  BY DEF IInv, TypeOK
<1>2. CASE \A t \in Task : ~CreateNamespace(t)
  <2>1. \A n, u : u \in Uid /\ Seat(n, u)' => Seat(n, u)
    <3> SUFFICES ASSUME NEW n, NEW u \in Uid, Seat(n, u)'
                 PROVE  Seat(n, u)
      OBVIOUS
    <3>1. ASSUME NEW t \in Task, Member(t)', UidOf[t] = u, Place(t)' = n
          PROVE  Seat(n, u)
      BY <1>2, <3>1, MembersSeated
    <3>2. ASSUME NEW s \in Slot, Owns(tbl'[s], u), tbl'[s].nsfile = n, n # NoNs
          PROVE  Seat(n, u)
      <4>1. Owns(tbl[s], u) /\ tbl[s].nsfile = n
        BY <1>2, <3>2, FilesKept
      <4> QED
        BY <3>2, <4>1 DEF Seat
    <3> QED
      BY <3>1, <3>2 DEF Seat
  <2> QED
    BY <2>1 DEF OneSeat
<1>3. ASSUME NEW t \in Task, CreateNamespace(t)
      PROVE  OneSeat'
  <2>1. PICK s \in ReserveSlot(tbl, UidOf[t], SidOf[t]), n \in FreshNs :
            /\ tbl' = Establish(tbl, s, UidOf[t], SidOf[t], n)
            /\ ns' = [ns EXCEPT ![t] = n]
    BY <1>3 DEF CreateNamespace
  <2>2. s \in Slot /\ ~tbl[s].allocated
    BY <1>1, ReservedIsFree
  <2>3. \A r \in Slot : ~Owns(tbl[r], UidOf[t])
    BY <1>1, <1>3, UnownedWhenMayCreate DEF CreateNamespace
  <2>4. \A m : ~Seat(m, UidOf[t])
    <3>1. \A r \in Task : Member(r) => UidOf[r] # UidOf[t]
      BY <2>3 DEF SerialInv, Recognised, IdentityMatches, Identifies, Owns
    <3> QED
      BY <2>3, <3>1 DEF Seat
  <2>5. n \in NsId /\ \A u : ~Seat(n, u)
    BY DEF FreshNs, Seat, Place
  <2>6. \A m, u : Seat(m, u)' => Seat(m, u) \/ (m = n /\ u = UidOf[t])
    <3> SUFFICES ASSUME NEW m, NEW u, Seat(m, u)'
                 PROVE  Seat(m, u) \/ (m = n /\ u = UidOf[t])
      OBVIOUS
    <3>1. ASSUME NEW r \in Task, Member(r)', UidOf[r] = u, Place(r)' = m
          PROVE  Seat(m, u) \/ (m = n /\ u = UidOf[t])
      <4>1. CASE r = t
        BY <1>1, <1>3, <2>1, <3>1, <4>1 DEF CreateNamespace, Place
      <4>2. CASE r # t
        <5>1. pc'[r] = pc[r] /\ file'[r] = file[r] /\ ns'[r] = ns[r]
          BY <1>1, <1>3, <2>1, <4>2 DEF CreateNamespace
        <5>2. Member(r) /\ Place(r) = m
          BY <3>1, <5>1 DEF Member, Entering, Sandboxed, Place
        <5> QED
          BY <3>1, <5>2 DEF Seat
      <4> QED
        BY <4>1, <4>2
    <3>2. ASSUME NEW r \in Slot, Owns(tbl'[r], u), tbl'[r].nsfile = m, m # NoNs
          PROVE  Seat(m, u) \/ (m = n /\ u = UidOf[t])
      <4>1. CASE r = s
        BY <1>1, <2>1, <2>2, <3>2, <4>1 DEF Establish, GoodTable, Owns
      <4>2. CASE r # s
        <5>1. tbl'[r] = tbl[r]
          BY <1>1, <2>1, <2>2, <4>2 DEF Establish, GoodTable
        <5> QED
          BY <3>2, <5>1 DEF Seat
      <4> QED
        BY <4>1, <4>2
    <3> QED
      BY <3>1, <3>2 DEF Seat
  <2> QED
    BY <2>4, <2>5, <2>6 DEF OneSeat
<1> QED
  BY <1>2, <1>3

\* The live sandbox tasks of a UID share one private mount namespace, and
\* share it with no other UID.
THEOREM NamespacesApart == ~Overlap /\ Spec => []OneNamespacePerUid
<1>1. Init => OneSeat
  BY DEF Init, OneSeat, Seat, Member, Entering, Sandboxed, EmptyTable, FreeInstance
<1>2. IInv /\ SerialInv /\ OneSeat /\ [Next]_vars => OneSeat'
  BY OneSeatStep
<1>3. IInv /\ OneSeat => OneNamespacePerUid
  <2> SUFFICES ASSUME IInv, OneSeat, NEW t \in Task, NEW r \in Task,
                      Sandboxed(t), Sandboxed(r)
               PROVE  /\ ns[t] # AppNs
                      /\ ns[t] = ns[r] <=> UidOf[t] = UidOf[r]
    BY DEF OneNamespacePerUid
  <2>1. /\ UidOf[t] \in Uid /\ UidOf[r] \in Uid
        /\ ns[t] \in NsId \cup {AppNs, NoNs} /\ ns[r] \in NsId \cup {AppNs, NoNs}
    BY SessionConstants DEF IInv, TypeOK
  <2>2. Seat(ns[t], UidOf[t]) /\ Seat(ns[r], UidOf[r])
    BY DEF Seat, Member, Sandboxed, Place
  <2> QED
    BY <2>1, <2>2, SessionConstants DEF OneSeat
<1> QED
  BY <1>1, <1>2, <1>3, SerialHolds, IInvHolds, PTL DEF Spec

-----------------------------------------------------------------------------
(* The contract.                                                           *)

PhaseOf(u) ==
    IF Usable(u) THEN "active" ELSE IF UidRevoking(tbl, u) THEN "closing" ELSE "absent"

\* What Contract sees of the state.
ContractPhase == [u \in Uid |-> IF \E s \in Slot : Owns(tbl[s], u) /\ tbl[s].ready
                                THEN "active"
                                ELSE IF UidRevoking(tbl, u) THEN "closing" ELSE "absent"]

ContractMembers == {t \in Task : Entering(t) \/ Sandboxed(t)}

LEMMA ContractView ==
    /\ ContractPhase = [u \in Uid |-> PhaseOf(u)]
    /\ ContractPhase' = [u \in Uid |-> PhaseOf(u)']
    /\ ContractMembers = {t \in Task : Member(t)}
    /\ ContractMembers' = {t \in Task : Member(t)'}
BY DEF ContractPhase, ContractMembers, PhaseOf, Usable, Member, Entering, Sandboxed, UidRevoking

\* The actions of the contract in these terms.
LEMMA ContractActions ==
    /\ \A t \in Task :
        Contract!Open(t) <=>
            /\ ContractPhase[UidOf[t]] = "absent"
            /\ {r \in ContractMembers : UidOf[r] = UidOf[t]} = {}
            /\ ContractPhase' = [ContractPhase EXCEPT ![UidOf[t]] = "active"]
            /\ ContractMembers' = ContractMembers \cup {t}
    /\ \A t \in Task :
        Contract!Enter(t) <=>
            /\ ContractPhase[UidOf[t]] = "active"
            /\ t \notin ContractMembers
            /\ ContractMembers' = ContractMembers \cup {t}
            /\ ContractPhase' = ContractPhase
    /\ \A t, c \in Task :
        Contract!Inherit(t, c) <=>
            /\ t \in ContractMembers /\ c \notin ContractMembers
            /\ UidOf[c] = UidOf[t]
            /\ ContractMembers' = ContractMembers \cup {c}
            /\ ContractPhase' = ContractPhase
    /\ \A t \in Task :
        Contract!Leave(t) <=>
            /\ t \in ContractMembers
            /\ ContractMembers' = ContractMembers \ {t}
            /\ ContractPhase' = ContractPhase
    /\ \A u \in Uid :
        Contract!Revoke(u) <=>
            /\ ContractPhase[u] = "active"
            /\ ContractPhase' = [ContractPhase EXCEPT ![u] = "closing"]
            /\ ContractMembers' = ContractMembers
    /\ \A u \in Uid :
        Contract!Close(u) <=>
            /\ ContractPhase[u] = "closing"
            /\ {r \in ContractMembers : UidOf[r] = u} = {}
            /\ ContractPhase' = [ContractPhase EXCEPT ![u] = "absent"]
            /\ ContractMembers' = ContractMembers
BY DEF Contract!Open, Contract!Enter, Contract!Inherit, Contract!Leave, Contract!Revoke,
       Contract!Close, Contract!MembersOf, ContractPhase, ContractMembers

\* Operations that leave the slots alone leave the phases alone.
LEMMA PhaseSame == SameSlots(tbl, tbl') => ContractPhase' = ContractPhase
<1> SUFFICES ASSUME SameSlots(tbl, tbl') PROVE ContractPhase' = ContractPhase
  OBVIOUS
<1>1. \A u : Usable(u)' <=> Usable(u)
  BY DEF SameSlots, Usable, Owns
<1>2. \A u : UidRevoking(tbl, u)' <=> UidRevoking(tbl, u)
  BY DEF SameSlots, UidRevoking, Owns
<1>3. \A u \in Uid : PhaseOf(u)' = PhaseOf(u)
  BY <1>1, <1>2 DEF PhaseOf
<1> QED
  BY <1>3, ContractView

\* Marking and detaching close an active sandbox, and change no other.
LEMMA PhaseClosing ==
    ASSUME GoodTable(tbl), GoodTable(tbl'), NEW u \in Uid,
           \A r \in Slot :
                \/ tbl'[r] = tbl[r]
                \/ /\ tbl[r].allocated /\ tbl[r].uid = u
                   /\ tbl'[r].allocated /\ tbl'[r].uid = u
                   /\ tbl'[r].revoking /\ ~tbl'[r].ready
    PROVE  \/ ContractPhase' = ContractPhase
           \/ /\ ContractPhase[u] = "active"
              /\ ContractPhase' = [ContractPhase EXCEPT ![u] = "closing"]
<1>1. \A v \in Uid \ {u} : PhaseOf(v)' = PhaseOf(v)
  BY DEF PhaseOf, Usable, UidRevoking, Owns
<1>2. PhaseOf(u)' = PhaseOf(u) \/ (PhaseOf(u) = "active" /\ PhaseOf(u)' = "closing")
  <2>1. CASE \A s \in Slot : ~Owns(tbl[s], u)
    <3>1. \A s \in Slot : tbl'[s] = tbl[s]
      BY <2>1 DEF Owns
    <3> QED
      BY <3>1 DEF PhaseOf, Usable, UidRevoking
  <2>2. ASSUME NEW s \in Slot, Owns(tbl[s], u)
        PROVE  PhaseOf(u)' = PhaseOf(u) \/ (PhaseOf(u) = "active" /\ PhaseOf(u)' = "closing")
    <3>1. \A r \in Slot : Owns(tbl[r], u) => r = s
      BY <2>2 DEF GoodTable, Owns
    <3>2. Owns(tbl'[s], u)
      BY <2>2 DEF Owns
    <3>3. \A r \in Slot : Owns(tbl'[r], u) => r = s
      BY <3>2 DEF GoodTable, Owns
    <3>4. tbl[s].ready = ~tbl[s].revoking /\ tbl[s].revoking \in BOOLEAN
      BY <2>2 DEF GoodTable, Settled, Owns, Instance
    <3>5. PhaseOf(u) = IF tbl[s].ready THEN "active" ELSE "closing"
      BY <2>2, <3>1, <3>4 DEF PhaseOf, Usable, UidRevoking
    <3>6. tbl'[s].ready = ~tbl'[s].revoking /\ tbl'[s].revoking \in BOOLEAN
      BY <3>2 DEF GoodTable, Settled, Owns, Instance
    <3>7. PhaseOf(u)' = IF tbl'[s].ready THEN "active" ELSE "closing"
      BY <3>2, <3>3, <3>6 DEF PhaseOf, Usable, UidRevoking
    <3> QED
      BY <3>5, <3>7
  <2> QED
    BY <2>1, <2>2
<1> QED
  BY <1>1, <1>2, ContractView

\* A step of a task is a step of the contract.
LEMMA ContractEntry ==
    ASSUME IInv, SerialInv, NEW t \in Task, Authorize(t) \/ EntryStep(t) \/ Exit(t)
    PROVE  Contract!Next \/ UNCHANGED <<ContractPhase, ContractMembers>>
<1> USE DEF Contract!Next
<1>1. GoodTable(tbl) /\ pc \in [Task -> Steps] /\ UidOf[t] \in Uid
  BY SessionConstants DEF IInv, TypeOK
<1>2. /\ SameSlots(tbl, tbl)
      /\ \A s \in Slot : SameSlots(tbl, Enter(tbl, s))
      /\ \A u, sd : SameSlots(tbl, Complete(tbl, u, sd))
      /\ \A s \in Slot : ~tbl[s].allocated /\ tbl[s].nsfile = NoNs /\ ~tbl[s].mounts =>
               SameSlots(tbl, Unreserve(tbl, s))
  BY <1>1, SameSlotsOps
<1>3. ASSUME \A r \in Task \ {t} : pc'[r] = pc[r]
      PROVE  \A r \in Task \ {t} : Member(r)' <=> Member(r)
  BY <1>3 DEF Member, Entering, Sandboxed
<1>4. CASE JoinReady(t)
  <2>1. PICK s \in ReadySlot(tbl, UidOf[t]) : tbl' = Enter(tbl, s)
    BY <1>4 DEF JoinReady
  <2>2. s \in Slot /\ Owns(tbl[s], UidOf[t]) /\ tbl[s].ready
    BY <2>1 DEF ReadySlot, FirstOf
  <2>3. PhaseOf(UidOf[t]) = "active"
    BY <2>2 DEF PhaseOf, Usable
  <2>4. ContractPhase' = ContractPhase
    BY <1>2, <2>1, <2>2, PhaseSame
  <2>5. ~Member(t) /\ Member(t)' /\ \A r \in Task \ {t} : pc'[r] = pc[r]
    BY <1>1, <1>4 DEF JoinReady, Member, Entering, Sandboxed
  <2>6. ContractMembers' = ContractMembers \cup {t} /\ t \notin ContractMembers
    BY <1>3, <2>5, ContractView
  <2>7. ContractPhase[UidOf[t]] = "active"
    BY <1>1, <2>3, ContractView
  <2>8. Contract!Enter(t)
    BY <2>4, <2>6, <2>7, ContractActions
  <2> QED
    BY <2>8
<1>5. CASE CreateNamespace(t)
  <2>1. PICK s \in ReserveSlot(tbl, UidOf[t], SidOf[t]), n \in FreshNs :
            tbl' = Establish(tbl, s, UidOf[t], SidOf[t], n)
    BY <1>5 DEF CreateNamespace
  <2>2. s \in Slot /\ ~tbl[s].allocated
    BY <1>1, ReservedIsFree
  <2>3. \A r \in Slot : ~Owns(tbl[r], UidOf[t])
    BY <1>1, <1>5, UnownedWhenMayCreate DEF CreateNamespace
  <2>4. \A r \in Task : Member(r) => UidOf[r] # UidOf[t]
    BY <2>3 DEF SerialInv, Recognised, IdentityMatches, Identifies, Owns
  <2>5. /\ \A r \in Slot \ {s} : tbl'[r] = tbl[r]
        /\ Owns(tbl'[s], UidOf[t]) /\ tbl'[s].ready
    BY <1>1, <2>1, <2>2 DEF Establish, GoodTable, Owns
  <2>6. PhaseOf(UidOf[t]) = "absent" /\ PhaseOf(UidOf[t])' = "active"
    BY <2>2, <2>3, <2>5 DEF PhaseOf, Usable, UidRevoking
  <2>7. \A v \in Uid \ {UidOf[t]} : PhaseOf(v)' = PhaseOf(v)
    BY <2>2, <2>5 DEF PhaseOf, Usable, UidRevoking, Owns
  <2>8. Member(t)' /\ \A r \in Task \ {t} : pc'[r] = pc[r]
    BY <1>1, <1>5 DEF CreateNamespace, Member, Entering
  <2>9. ContractMembers' = ContractMembers \cup {t}
    BY <1>3, <2>8, ContractView
  <2>10. {r \in ContractMembers : UidOf[r] = UidOf[t]} = {}
    BY <2>4, ContractView
  <2>11. /\ ContractPhase[UidOf[t]] = "absent"
         /\ ContractPhase' = [ContractPhase EXCEPT ![UidOf[t]] = "active"]
    BY <1>1, <2>6, <2>7, ContractView
  <2>12. Contract!Open(t)
    BY <2>9, <2>10, <2>11, ContractActions
  <2> QED
    BY <2>12
<1>6. ASSUME SameSlots(tbl, tbl'), ~Member(t)', \A r \in Task \ {t} : pc'[r] = pc[r]
      PROVE  Contract!Next \/ UNCHANGED <<ContractPhase, ContractMembers>>
  <2>1. ContractPhase' = ContractPhase
    BY <1>6, PhaseSame
  <2>2. ContractMembers' = ContractMembers \ {t}
    BY <1>3, <1>6, ContractView
  <2>3. CASE t \in ContractMembers
    <3>1. Contract!Leave(t)
      BY <2>1, <2>2, <2>3, ContractActions
    <3> QED
      BY <3>1
  <2>4. CASE t \notin ContractMembers
    BY <2>1, <2>2, <2>4
  <2> QED
    BY <2>3, <2>4
<1>7. ASSUME SameSlots(tbl, tbl'), Member(t), Member(t)',
             \A r \in Task \ {t} : pc'[r] = pc[r]
      PROVE  UNCHANGED <<ContractPhase, ContractMembers>>
  BY <1>3, <1>7, PhaseSame, ContractView
<1>8. CASE JoinNamespace(t) \/ CommitCreds(t) \/ EntryComplete(t)
  <2>1. SameSlots(tbl, tbl')
    BY <1>2, <1>8 DEF JoinNamespace, CommitCreds, EntryComplete
  <2>2. Member(t) /\ Member(t)' /\ \A r \in Task \ {t} : pc'[r] = pc[r]
    BY <1>1, <1>8 DEF JoinNamespace, CommitCreds, EntryComplete, Member, Entering, Sandboxed
  <2> QED
    BY <1>7, <2>1, <2>2
<1>9. CASE CreateFails(t)
  <2>1. PICK s \in ReserveSlot(tbl, UidOf[t], SidOf[t]) : tbl' = Unreserve(tbl, s)
    BY <1>9 DEF CreateFails
  <2>2. s \in Slot /\ ~tbl[s].allocated
    BY <1>1, ReservedIsFree
  <2>3. SameSlots(tbl, tbl')
    BY <1>2, <2>1, <2>2 DEF SerialInv, FreedSlotHoldsNothing
  <2>4. ~Member(t)' /\ \A r \in Task \ {t} : pc'[r] = pc[r]
    BY <1>1, <1>9 DEF CreateFails, MayCreate, Member, Entering, Sandboxed
  <2> QED
    BY <1>6, <2>3, <2>4
<1>10. CASE \/ Authorize(t) \/ EscapeReturns(t) \/ JoinRejected(t) \/ JoinFails(t)
            \/ CreateDenied(t) \/ Exit(t)
  <2>1. SameSlots(tbl, tbl')
    BY <1>2, <1>10
       DEF Authorize, EscapeReturns, JoinRejected, JoinFails, CreateDenied, Exit
  <2>2. ~Member(t)' /\ \A r \in Task \ {t} : pc'[r] = pc[r]
    BY <1>1, <1>10
       DEF Authorize, EscapeReturns, JoinRejected, JoinFails, CreateDenied, Exit, Member,
           Entering, Sandboxed
  <2> QED
    BY <1>6, <2>1, <2>2
<1> QED
  BY <1>4, <1>5, <1>8, <1>9, <1>10 DEF EntryStep

\* A fork makes a member of the child of one.
LEMMA ContractFork ==
    ASSUME IInv, NEW t \in Task, NEW c \in Task, Fork(t, c)
    PROVE  Contract!Inherit(t, c)
<1>1. GoodTable(tbl) /\ pc \in [Task -> Steps]
  BY DEF IInv, TypeOK
<1>2. ContractPhase' = ContractPhase
  BY <1>1, SameSlotsOps, PhaseSame DEF Fork
<1>3. /\ Member(t) /\ ~Member(c) /\ Member(c)' /\ UidOf[c] = UidOf[t]
      /\ \A r \in Task \ {c} : Member(r)' <=> Member(r)
  BY <1>1 DEF Fork, Member, Entering, Sandboxed
<1>4. /\ ContractMembers' = ContractMembers \cup {c}
      /\ t \in ContractMembers /\ c \notin ContractMembers
  BY <1>3, ContractView
<1> QED
  BY <1>2, <1>3, <1>4, ContractActions

\* The marks and the scans of a revocation close the sandbox of its UID or
\* change nothing the contract sees.
LEMMA ContractRevoke ==
    ASSUME IInv, [Next]_vars, UNCHANGED pc, NEW u \in Uid,
           \/ tbl' = MarkRevoking(tbl, u)
           \/ \E s \in Slot : tbl' = DetachSlot(tbl, s, u)
    PROVE  Contract!Next \/ UNCHANGED <<ContractPhase, ContractMembers>>
<1> USE DEF Contract!Next
<1>1. GoodTable(tbl) /\ GoodTable(tbl') /\ \A r \in Slot : tbl[r] \in Instance
  BY TableStep DEF IInv, GoodTable
<1>2. \A r \in Slot :
          \/ tbl'[r] = tbl[r]
          \/ /\ tbl[r].allocated /\ tbl[r].uid = u
             /\ tbl'[r].allocated /\ tbl'[r].uid = u
             /\ tbl'[r].revoking /\ ~tbl'[r].ready
  <2>1. CASE tbl' = MarkRevoking(tbl, u)
    BY <1>1, <2>1 DEF MarkRevoking, Owns, Instance
  <2>2. ASSUME NEW s \in Slot, tbl' = DetachSlot(tbl, s, u)
        PROVE  \A r \in Slot :
                   \/ tbl'[r] = tbl[r]
                   \/ /\ tbl[r].allocated /\ tbl[r].uid = u
                      /\ tbl'[r].allocated /\ tbl'[r].uid = u
                      /\ tbl'[r].revoking /\ ~tbl'[r].ready
    BY <1>1, <2>2, DetachEffect
  <2> QED
    BY <2>1, <2>2
<1>3. \/ ContractPhase' = ContractPhase
      \/ /\ ContractPhase[u] = "active"
         /\ ContractPhase' = [ContractPhase EXCEPT ![u] = "closing"]
  BY <1>1, <1>2, PhaseClosing
<1>4. ContractMembers' = ContractMembers
  BY ContractView DEF Member, Entering, Sandboxed
<1>5. CASE ContractPhase' = ContractPhase
  BY <1>4, <1>5
<1>6. CASE /\ ContractPhase[u] = "active"
           /\ ContractPhase' = [ContractPhase EXCEPT ![u] = "closing"]
  <2>1. Contract!Revoke(u)
    BY <1>4, <1>6, ContractActions
  <2> QED
    BY <2>1
<1> QED
  BY <1>3, <1>5, <1>6

\* A release ends a sandbox without members, or frees nothing.
LEMMA ContractRelease ==
    ASSUME IInv, SerialInv, NEW w \in Work, WorkerRelease(w)
    PROVE  Contract!Next \/ UNCHANGED <<ContractPhase, ContractMembers>>
<1> USE DEF Contract!Next
<1>1. GoodTable(tbl) /\ \A r \in Slot : tbl[r] \in Instance
  BY DEF IInv, GoodTable
<1>2. PICK u \in Uid : u = wk[w].uid
  BY DEF WorkerRelease, IInv, BusyHasUid
<1>3. wk[w].pc = "release" /\ UNCHANGED pc /\ tbl' = ReleaseSlots(tbl, u)
  BY <1>2 DEF WorkerRelease, taskVars
<1>4. \A r \in Slot :
          \/ tbl'[r] = tbl[r]
          \/ tbl[r].allocated /\ tbl[r].uid = u /\ ~tbl[r].ready /\ ~tbl'[r].allocated
  BY <1>1, <1>3 DEF ReleaseSlots, Owns, Instance
<1>5. ContractMembers' = ContractMembers
  BY <1>3, ContractView DEF Member, Entering, Sandboxed
<1>6. CASE \A r \in Slot : tbl'[r] = tbl[r]
  <2>1. SameSlots(tbl, tbl')
    BY <1>6 DEF SameSlots
  <2> QED
    BY <1>5, <2>1, PhaseSame
<1>7. ASSUME NEW s \in Slot, tbl'[s] # tbl[s]
      PROVE  Contract!Next
  <2>1. Owns(tbl[s], u) /\ ~tbl[s].ready /\ ~tbl'[s].allocated
    BY <1>4, <1>7 DEF Owns
  <2>2. \A r \in Slot : Owns(tbl[r], u) => r = s
    BY <1>1, <2>1 DEF GoodTable, Owns
  <2>3. tbl[s].revoking
    BY <1>1, <2>1 DEF GoodTable, Settled, Owns
  <2>4. ~Usable(u) /\ UidRevoking(tbl, u)
    BY <2>1, <2>2, <2>3 DEF Usable, UidRevoking
  <2>5. \A t \in Task : Member(t) => UidOf[t] # u
    BY <1>2, <1>3, <2>4 DEF SerialInv, Quiet
  <2>6. \A r \in Slot : ~Owns(tbl'[r], u)
    BY <1>4, <2>1, <2>2 DEF Owns
  <2>7. PhaseOf(u) = "closing" /\ PhaseOf(u)' = "absent"
    BY <2>4, <2>6 DEF PhaseOf, Usable, UidRevoking
  <2>8. \A v \in Uid \ {u} : PhaseOf(v)' = PhaseOf(v)
    BY <1>4 DEF PhaseOf, Usable, UidRevoking, Owns
  <2>9. /\ ContractPhase[u] = "closing"
        /\ ContractPhase' = [ContractPhase EXCEPT ![u] = "absent"]
    BY <2>7, <2>8, ContractView
  <2>10. {r \in ContractMembers : UidOf[r] = u} = {}
    BY <2>5, ContractView
  <2>11. Contract!Close(u)
    BY <1>5, <2>9, <2>10, ContractActions
  <2> QED
    BY <2>11
<1> QED
  BY <1>6, <1>7

\* Every step of the session is a step of the contract, or none.
LEMMA ContractStep ==
    ASSUME IInv, SerialInv, [Next]_vars
    PROVE  Contract!Next \/ UNCHANGED <<ContractPhase, ContractMembers>>
<1>1. TypeOK /\ GoodTable(tbl)
  BY DEF IInv
<1>2. ASSUME UNCHANGED <<tbl, pc>>
      PROVE  UNCHANGED <<ContractPhase, ContractMembers>>
  <2>1. SameSlots(tbl, tbl')
    BY <1>2 DEF SameSlots
  <2> QED
    BY <1>2, <2>1, PhaseSame, ContractView DEF Member, Entering, Sandboxed
<1>3. ASSUME NEW t \in Task, NEW c \in Task, Fork(t, c)
      PROVE  Contract!Next
  BY <1>3, ContractFork DEF Contract!Next
<1>4. ASSUME NEW u \in Uid, RevokeMark(u)
      PROVE  Contract!Next \/ UNCHANGED <<ContractPhase, ContractMembers>>
  BY <1>4, ContractRevoke DEF RevokeMark, taskVars
<1>5. ASSUME NEW u \in Uid, CallerDetach(u)
      PROVE  Contract!Next \/ UNCHANGED <<ContractPhase, ContractMembers>>
  <2>1. rv[u].scan \in Slot
    BY <1>1 DEF TypeOK, Caller
  <2> QED
    BY <1>5, <2>1, ContractRevoke DEF CallerDetach, taskVars
<1>6. ASSUME NEW w \in Work, WorkerDetach(w)
      PROVE  Contract!Next \/ UNCHANGED <<ContractPhase, ContractMembers>>
  <2>1. wk[w].scan \in Slot /\ wk[w].uid \in Uid
    BY <1>1, <1>6 DEF TypeOK, Request, WorkerDetach, IInv, BusyHasUid
  <2> QED
    BY <1>6, <2>1, ContractRevoke DEF WorkerDetach, taskVars
<1>7. ASSUME NEW u \in Uid,
             \/ ProfileAllow(u) \/ ProfileDeny(u) \/ PruneBegin(u)
             \/ RevokeQueue(u) \/ RevokeNoMemory(u) \/ CallerKill(u)
             \/ PruneRemove(u)
      PROVE  UNCHANGED <<tbl, pc>>
  BY <1>7 DEF ProfileAllow, ProfileDeny, PruneBegin, RevokeQueue,
              RevokeNoMemory, CallerKill, PruneRemove, taskVars
<1>8. ASSUME NEW w \in Work, WorkerEntrants(w) \/ WorkerKill(w)
      PROVE  UNCHANGED <<tbl, pc>>
  BY <1>8 DEF WorkerEntrants, WorkerKill, taskVars
<1>9. UNCHANGED vars => UNCHANGED <<tbl, pc>>
  BY DEF vars
<1> QED
  BY <1>2, <1>3, <1>4, <1>5, <1>6, <1>7, <1>8, <1>9, ContractEntry, ContractRelease
     DEF Next, CallerStep, WorkerStep

\* Entry and revocation implement the contract: nobody is admitted once a
\* revocation has begun, and a sandbox ends, and another of the UID begins,
\* only when no task of it is left; for revocations one after the other.
THEOREM SessionRefinesContract == ~Overlap /\ Spec => ImplementsContract
<1>1. Init => Contract!Init
  BY DEF Init, Contract!Init, EmptyTable, FreeInstance, Owns, UidRevoking, Entering, Sandboxed
<1>2. IInv /\ SerialInv /\ [Next]_vars =>
          [Contract!Next]_<<ContractPhase, ContractMembers>>
  BY ContractStep
<1>3. Spec /\ []SerialInv => Contract!Spec
  BY <1>1, <1>2, IInvHolds, PTL DEF Spec, Contract!Spec, ContractPhase, ContractMembers
<1> QED
  BY <1>3, SerialHolds, PTL DEF ImplementsContract

=============================================================================
