---------------------- MODULE SandboxMediation_proofs ----------------------
(***************************************************************************)
(* Proofs about SandboxMediation, for any tasks, UIDs, SIDs, slots and      *)
(* number of calls in flight: a task in the sandbox keeps its credential,   *)
(* and the hooks answer as if the table were read at one moment although    *)
(* they read it load by load without the mutex.                             *)
(*                                                                         *)
(* The argument has two halves.  The writers: every task in the sandbox or  *)
(* on its way in has a home, a slot that names its sandbox and is not being *)
(* cleared, and the home of a task stays where it is while the task is      *)
(* there (HomesStay).  The hard case is the release of a slot: its worker   *)
(* has seen no entrants and then nobody alive, one task after the other,    *)
(* while others forked, exited and entered.  The readers: a scan for the    *)
(* identity of such a task has not passed its home (Finds), so it can only  *)
(* end there; a scan for anybody else is over before it begins.             *)
(***************************************************************************)
EXTENDS SandboxMediation, FiniteSetTheorems, TLAPS

Member(t) == pc[t] \in {"entered", "committed", "in"}

\* Counted in entrants.
Entering(t) == pc[t] \in {"entered", "committed"}

\* The slot is being cleared.
Leaving(i) == mutex # Unlocked /\ mutex.op = "release" /\ mutex.slot = i

\* Slot i names the sandbox of UID u and SID s, and goes on to.
Home(i, u, s) ==
    slot[i].allocated /\ slot[i].uid = u /\ slot[i].sid = s /\ ~Leaving(i)

HasHome == \A t \in Task : Member(t) => \E i \in Slot : Home(i, UidOf[t], SidOf[t])

OneSlot == \A i, j \in Slot :
    /\ slot[i].allocated /\ slot[j].allocated
    /\ slot[i].uid = slot[j].uid /\ slot[i].uid \in Uids
    => i = j

Counted(i) == {t \in Task : Entering(t) /\ UidOf[t] = slot[i].uid /\ SidOf[t] = slot[i].sid}

CountExact == \A i \in Slot : slot[i].allocated => slot[i].entrants = Cardinality(Counted(i))

\* How far the holder of the mutex has got with the slot it writes, and what
\* the slots it does not write look like meanwhile.
LockState ==
    /\ \A i \in Slot : slot[i].allocated /\ ~(Locked /\ mutex.slot = i) =>
            slot[i].ready = ~slot[i].revoking /\ slot[i].uid \in Uids
    /\ Locked =>
        /\ ~slot[mutex.slot].ready
        /\ mutex.op = "reserve" => ~slot[mutex.slot].allocated
        /\ mutex.op \in {"create", "release"} =>
              slot[mutex.slot].allocated /\ slot[mutex.slot].entrants = 0
        /\ mutex.op = "create" => ~slot[mutex.slot].revoking
        /\ mutex.op \in {"reserve", "create"} =>
              /\ "uid" \notin mutex.todo => slot[mutex.slot].uid = mutex.uid
              /\ "sid" \notin mutex.todo => slot[mutex.slot].sid = mutex.sid
              /\ mutex.op = "create" => mutex.todo = {}
              /\ OfUid(mutex.uid) \subseteq {mutex.slot}
              /\ \A t \in Task : UidOf[t] = mutex.uid => ~Member(t)
              /\ \E t \in Task : /\ UidOf[t] = mutex.uid /\ SidOf[t] = mutex.sid
                                 /\ \A r \in Task : pc[r] = "reserving" <=> r = t
        /\ mutex.op = "release" => mutex.uid = NoUid /\ mutex.sid = NoSid
    /\ (\E t \in Task : pc[t] = "reserving") => Locked /\ mutex.op \in {"reserve", "create"}
    /\ \A i \in Slot : ~slot[i].allocated =>
            slot[i].entrants = 0 /\ ~slot[i].ready /\ ~slot[i].revoking

Usable(u) == \E i \in OfUid(u) : slot[i].ready

\* While the worker looks for tasks of the UID, nobody of it is on the way in
\* and everybody it has passed was seen alive or is gone, unless the slot it
\* revoked has been freed and a new instance made.
ScanQuiet ==
    \A u \in Uids : rev[u].at = "scan" =>
        /\ \A t \in Task : UidOf[t] = u /\ Entering(t) => Usable(u)
        /\ \A t \in Task : UidOf[t] = u /\ Member(t) /\ t \notin rev[u].left =>
                rev[u].alive \/ Usable(u)

Creds ==
    \A t \in Task :
        cred[t] = IF pc[t] \in {"committed", "in"} THEN SandboxCred(t) ELSE AppCred(t)

TableInv == HasHome /\ OneSlot /\ CountExact /\ LockState /\ ScanQuiet

TableType ==
    /\ slot \in [Slot -> Instance]
    /\ mutex \in Lock \cup {Unlocked}
    /\ pc \in [Task -> {"app", "reserving", "entered", "committed", "in"}]
    /\ cred \in [Task -> Credential]
    /\ rev \in [Uids -> Request]

Table == TableType /\ TableInv /\ Creds

\* The home of a task that is in the sandbox, or on its way in, stays.
HomesStay ==
    \A t \in Task, i \in Slot :
        Member(t) /\ Home(i, UidOf[t], SidOf[t]) => Home(i, UidOf[t], SidOf[t])'

\* The scan finds the identity: it has not passed its slot.
Finds(q, u, s) ==
    /\ q.uid = u /\ q.sid = s /\ q.answer # "no"
    /\ q.answer = "none" => \E i \in Slot : Home(i, u, s) /\ q.i <= i

\* The first question of a hook, about the caller itself.
SelfExact(t) ==
    call[t].at \in {"self", "again"} =>
        IF pc[t] = "in" THEN Finds(call[t].q, UidOf[t], SidOf[t])
        ELSE call[t].q.answer = "no" /\ call[t].at = "self"

\* The credential of the target as it was read.
PeerRead(t) ==
    call[t].kind \in {"trace", "grant"} =>
        /\ call[t].peer \in {AppCred(call[t].target), SandboxCred(call[t].target)}
        /\ call[t].peer = SandboxCred(call[t].target) /\ ~call[t].gone =>
              pc[call[t].target] \in {"committed", "in"}

\* The second question, about the target.
PeerExact(t) ==
    call[t].at = "peer" =>
        /\ pc[t] = "in" /\ call[t].target # t
        /\ IF Peers(t) THEN \/ call[t].gone
                            \/ Finds(call[t].q, UidOf[call[t].target], SidOf[call[t].target])
           ELSE call[t].q.answer = "no"

\* The credential set*id and execve are about to commit.
ArgExact(t) ==
    /\ call[t].kind \in {"setid", "creds_for_exec", "check_security", "committing_creds"} =>
            pc[t] = "in" /\ call[t].at \in {"self", "done"}
    /\ call[t].kind = "check_security" /\ call[t].at = "self" => call[t].arg \in Credential
    /\ call[t].kind = "committing_creds" /\ call[t].at = "self" => call[t].arg = SandboxCred(t)
    /\ call[t].kind \in {"setid", "committing_creds"} /\ call[t].at = "done" /\ call[t].verdict =>
            call[t].arg = SandboxCred(t)

\* Which hooks get to which place, and who calls them.
PlaceOf(t) ==
    /\ pc[t] \in {"app", "in"}
    /\ call[t].at = "again" => call[t].kind = "trace" /\ call[t].target # t
    /\ call[t].at = "peer" => call[t].kind \in {"trace", "grant"}
    /\ call[t].kind = "grant" => call[t].target # t

\* What MediationExact says of one call.
DoneExact(t) ==
    call[t].at = "done" =>
        /\ call[t].kind = "socket" =>
                (call[t].verdict <=> (pc[t] = "in" => SocketAllowed(call[t].arg)))
        /\ call[t].kind = "seccomp" => (call[t].verdict <=> pc[t] = "in" /\ call[t].arg # "other")
        /\ call[t].kind = "trace" =>
                \/ call[t].gone
                \/ call[t].verdict <=> (pc[t] = "in" => call[t].target # t /\ Peers(t))
        /\ call[t].kind = "grant" =>
                call[t].gone \/ (call[t].verdict <=> pc[t] = "in" /\ Peers(t))

CallExact(t) ==
    /\ IsCall(call[t]) /\ PlaceOf(t) /\ SelfExact(t) /\ PeerRead(t) /\ PeerExact(t)
    /\ ArgExact(t) /\ DoneExact(t)

CallInv == DOMAIN call = Task /\ \A t \in Task : call[t] # NoCall => CallExact(t)

MedInv == Table /\ CallInv

-----------------------------------------------------------------------------
(* The table and its writers.                                              *)

\* The credentials are what their names say, and differ in shape.
LEMMA CredFacts ==
    ASSUME NEW t \in Task
    PROVE  /\ UidOf[t] \in Uids /\ SidOf[t] \in Sids
           /\ AppCred(t) \in Credential /\ SandboxCred(t) \in Credential
           /\ ~SandboxShape(AppCred(t)) /\ SandboxShape(SandboxCred(t))
           /\ SandboxCred(t) # AppCred(t)
<1>1. UidOf[t] \in Uids /\ SidOf[t] \in Sids
  BY DEF Uids, Sids
<1>2. UidOf[t] # Root
  BY <1>1, MediationConstants
<1>3. AppCred(t).euid = UidOf[t] /\ SandboxCred(t).euid = Root
  BY DEF AppCred, SandboxCred
<1> QED
  BY <1>1, <1>2, <1>3 DEF AppCred, SandboxCred, Credential, Ids, SandboxShape

\* A join adds one entrant to the instance of the UID.
LEMMA JoinTable ==
    ASSUME Table, NEW t \in Task, Join(t)
    PROVE  Table' /\ HomesStay
<1>1. PICK i \in Slot :
        /\ slot[i].allocated /\ slot[i].uid = UidOf[t] /\ slot[i].sid = SidOf[t]
        /\ slot[i].ready /\ ~slot[i].revoking
        /\ slot' = [slot EXCEPT ![i].entrants = @ + 1]
  BY DEF Join, OfUid
<1>2. ~Locked /\ pc[t] = "app" /\ pc' = [pc EXCEPT ![t] = "entered"] /\ UNCHANGED <<mutex, cred, rev, call>>
  BY DEF Join
<1>3. /\ \A j \in Slot : /\ slot'[j].allocated = slot[j].allocated /\ slot'[j].uid = slot[j].uid
                         /\ slot'[j].sid = slot[j].sid /\ slot'[j].ready = slot[j].ready
                         /\ slot'[j].revoking = slot[j].revoking
                         /\ j # i => slot'[j].entrants = slot[j].entrants
      /\ slot'[i].entrants = slot[i].entrants + 1
      /\ slot' \in [Slot -> Instance]
  BY <1>1 DEF Table, TableType, Instance
<1>4. pc'[t] = "entered" /\ \A x \in Task \ {t} : pc'[x] = pc[x]
  BY <1>2 DEF Table, TableType
<1>5. TableType'
  BY <1>2, <1>3 DEF Table, TableType
<1>6. HomesStay
  BY <1>2, <1>3 DEF HomesStay, Home, Leaving
<1>7. HasHome'
  <2>1. Home(i, UidOf[t], SidOf[t])'
    BY <1>1, <1>2, <1>3 DEF Home, Leaving, Locked
  <2>2. \A x \in Task : Member(x)' => x = t \/ Member(x)
    BY <1>4 DEF Member
  <2> QED
    BY <2>1, <2>2, <1>6 DEF Table, TableInv, HasHome, HomesStay
<1>8. OneSlot'
  BY <1>3 DEF Table, TableInv, OneSlot
<1>9. CountExact'
  <2>1. Counted(i)' = Counted(i) \cup {t} /\ t \notin Counted(i) /\ IsFiniteSet(Counted(i))
    <3>1. Counted(i) \subseteq Task
      BY DEF Counted
    <3>2. IsFiniteSet(Counted(i))
      BY <3>1, MediationConstants, FS_Subset
    <3> QED
      BY <3>2, <1>1, <1>2, <1>3, <1>4 DEF Counted, Entering
  <2>2. Cardinality(Counted(i)') = Cardinality(Counted(i)) + 1
    <3> HIDE DEF Counted
    <3> QED
      BY <2>1, FS_AddElement
  <2>3. \A j \in Slot \ {i} : slot[j].allocated => Counted(j)' = Counted(j)
    <3>1. \A j \in Slot \ {i} : slot[j].allocated => slot[j].uid # UidOf[t]
      BY <1>1, CredFacts DEF Table, TableInv, OneSlot
    <3> QED
      BY <3>1, <1>3, <1>4 DEF Counted, Entering
  <2>4. slot'[i].entrants = Cardinality(Counted(i)')
    BY <1>1, <1>3, <2>2 DEF Table, TableInv, CountExact
  <2>5. ASSUME NEW j \in Slot, slot'[j].allocated
        PROVE  slot'[j].entrants = Cardinality(Counted(j)')
    BY <1>3, <2>3, <2>4, <2>5 DEF Table, TableInv, CountExact
  <2> QED
    BY <2>5 DEF CountExact
<1>10. LockState'
  BY <1>1, <1>2, <1>3, <1>4 DEF Table, TableInv, LockState, Locked
<1>11. ScanQuiet'
  <2>1. \A u \in Uids : Usable(u) => Usable(u)'
    BY <1>3 DEF Usable, OfUid
  <2>2. Usable(UidOf[t])'
    BY <1>1, <1>3 DEF Usable, OfUid
  <2> QED
    BY <1>2, <1>4, <2>1, <2>2 DEF Table, TableInv, ScanQuiet, Entering, Member
<1>12. Creds'
  BY <1>2, <1>4 DEF Table, Creds
<1> QED
  BY <1>5, <1>6, <1>7, <1>8, <1>9, <1>10, <1>11, <1>12 DEF Table, TableInv


\* A reservation begins in a free slot, for a UID that has none.
LEMMA ReserveTable ==
    ASSUME Table, NEW t \in Task, Reserve(t)
    PROVE  Table' /\ HomesStay
<1>1. PICK i \in Slot : ~slot[i].allocated /\ mutex' = Writing("reserve", i, UidOf[t], SidOf[t])
  BY DEF Reserve
<1>2. /\ ~Locked /\ pc[t] = "app" /\ pc' = [pc EXCEPT ![t] = "reserving"]
      /\ OfUid(UidOf[t]) = {} /\ UNCHANGED <<slot, cred, rev>>
  BY DEF Reserve
<1>3. /\ mutex'.op = "reserve" /\ mutex'.slot = i /\ mutex'.todo = {"uid", "sid"}
      /\ mutex'.uid = UidOf[t] /\ mutex'.sid = SidOf[t]
      /\ mutex' # Unlocked /\ mutex' \in Lock
  <2>1. mutex'.op = "reserve" /\ Unlocked.op = "none"
    BY <1>1 DEF Writing, Unlocked
  <2> QED
    BY <1>1, <2>1, CredFacts DEF Writing, Lock
<1>4. pc'[t] = "reserving" /\ \A x \in Task \ {t} : pc'[x] = pc[x]
  BY <1>2 DEF Table, TableType
<1>5. /\ \A x \in Task : Member(x)' <=> Member(x)
      /\ \A x \in Task : Entering(x)' <=> Entering(x)
  BY <1>2, <1>4 DEF Member, Entering
<1>6. TableType'
  BY <1>2, <1>3 DEF Table, TableType
<1>7. HomesStay
  BY <1>2, <1>3 DEF HomesStay, Home, Leaving
<1>8. HasHome'
  BY <1>5, <1>7 DEF Table, TableInv, HasHome, HomesStay
<1>9. OneSlot'
  BY <1>2 DEF Table, TableInv, OneSlot
<1>10. CountExact'
  <2>1. \A j \in Slot : Counted(j)' = Counted(j)
    BY <1>2, <1>5 DEF Counted
  <2> QED
    BY <1>2, <2>1 DEF Table, TableInv, CountExact
<1>11. LockState'
  <2>1. \A x \in Task : UidOf[x] = UidOf[t] => ~Member(x)
    BY <1>2 DEF Table, TableInv, HasHome, Home, OfUid
  <2>2. \A x \in Task : pc'[x] = "reserving" <=> x = t
    BY <1>2, <1>4 DEF Table, TableInv, LockState
  <2> QED
    BY <1>1, <1>2, <1>3, <1>5, <2>1, <2>2 DEF Table, TableInv, LockState, Locked, OfUid
<1>12. ScanQuiet'
  <2>1. \A u \in Uids : Usable(u) <=> Usable(u)'
    BY <1>2 DEF Usable, OfUid
  <2> QED
    BY <1>2, <1>5, <2>1 DEF Table, TableInv, ScanQuiet
<1>13. Creds'
  BY <1>2, <1>4 DEF Table, Creds
<1> QED
  BY <1>6, <1>7, <1>8, <1>9, <1>10, <1>11, <1>12, <1>13 DEF Table, TableInv

\* A store is to a slot that is not published yet, or that nobody lives in.
LEMMA StoreTable ==
    ASSUME Table, NEW f \in {"uid", "sid"}, Store(f)
    PROVE  Table' /\ HomesStay
<1>1. /\ Locked /\ mutex \in Lock /\ mutex.op \in {"reserve", "release"} /\ f \in mutex.todo
      /\ mutex.slot \in Slot /\ UNCHANGED <<pc, cred, rev>>
  BY DEF Store, Table, TableType, Locked, Lock
<1>2. /\ \A j \in Slot : /\ slot'[j].allocated = slot[j].allocated /\ slot'[j].ready = slot[j].ready
                         /\ slot'[j].revoking = slot[j].revoking
                         /\ slot'[j].entrants = slot[j].entrants
      /\ \A j \in Slot \ {mutex.slot} :
              slot'[j].uid = slot[j].uid /\ slot'[j].sid = slot[j].sid
      /\ slot'[mutex.slot].uid = IF f = "uid" THEN mutex.uid ELSE slot[mutex.slot].uid
      /\ slot'[mutex.slot].sid = IF f = "uid" THEN slot[mutex.slot].sid ELSE mutex.sid
      /\ slot' \in [Slot -> Instance]
  <2>1. mutex.uid \in Uids \cup {NoUid} /\ mutex.sid \in Sids \cup {NoSid}
    BY <1>1 DEF Lock
  <2> QED
    BY <1>1, <2>1 DEF Store, Table, TableType, Instance
<1>3. /\ mutex' \in Lock /\ mutex'.todo = mutex.todo \ {f}
      /\ mutex'.op = mutex.op /\ mutex'.slot = mutex.slot
      /\ mutex'.uid = mutex.uid /\ mutex'.sid = mutex.sid
  BY <1>1 DEF Store, Lock
<1>4. mutex' # Unlocked
  BY <1>1, <1>3 DEF Unlocked
<1>5. TableType'
  BY <1>1, <1>2, <1>3 DEF Table, TableType
<1>6. mutex.op = "release" => mutex.uid = NoUid /\ mutex.sid = NoSid /\ NoUid \notin Uids
                              /\ slot[mutex.slot].entrants = 0
  BY <1>1, MediationConstants DEF Table, TableInv, LockState
<1>7. mutex.op = "reserve" => ~slot[mutex.slot].allocated
  BY <1>1 DEF Table, TableInv, LockState
<1>8. HomesStay
  BY <1>1, <1>2, <1>3, <1>4, <1>7 DEF HomesStay, Home, Leaving, Locked
<1>9. HasHome'
  BY <1>1, <1>8 DEF Table, TableInv, HasHome, HomesStay, Member
<1>10. OneSlot'
  BY <1>1, <1>2, <1>6, <1>7 DEF Table, TableInv, OneSlot
<1>11. CountExact'
  <2>0. PICK m \in Slot : m = mutex.slot
    BY <1>1
  <2>1. \A j \in Slot \ {m} : Counted(j)' = Counted(j)
    BY <2>0, <1>1, <1>2 DEF Counted, Entering
  <2>2. ASSUME slot[m].allocated PROVE Counted(m)' = {}
    <3>1. mutex.op = "release"
      BY <1>1, <1>7, <2>0, <2>2
    <3>2. CASE f = "uid"
      <4>1. slot'[m].uid \notin Uids
        BY <1>2, <1>6, <2>0, <3>1, <3>2
      <4> QED
        BY <4>1, CredFacts DEF Counted
    <3>3. CASE f = "sid"
      <4>1. slot'[m].sid \notin Sids
        BY <1>2, <1>6, <2>0, <3>1, <3>3, MediationConstants
      <4> QED
        BY <4>1, CredFacts DEF Counted
    <3> QED
      BY <3>2, <3>3
  <2>3. slot[m].allocated => slot'[m].entrants = Cardinality(Counted(m)')
    BY <1>1, <1>2, <1>6, <1>7, <2>0, <2>2, FS_EmptySet
  <2>4. ASSUME NEW j \in Slot, slot'[j].allocated
        PROVE  slot'[j].entrants = Cardinality(Counted(j)')
    BY <1>2, <2>1, <2>3, <2>4 DEF Table, TableInv, CountExact
  <2> QED
    BY <2>4 DEF CountExact
<1>12. LockState'
  BY <1>1, <1>2, <1>3, <1>4, <1>7 DEF Table, TableInv, LockState, Locked, OfUid, Member
<1>13. ScanQuiet'
  <2>1. \A u \in Uids : Usable(u) => Usable(u)'
    BY <1>1, <1>2 DEF Usable, OfUid, Table, TableInv, LockState
  <2> QED
    BY <1>1, <2>1 DEF Table, TableInv, ScanQuiet, Entering, Member
<1>14. Creds'
  BY <1>1 DEF Table, Creds
<1> QED
  BY <1>5, <1>8, <1>9, <1>10, <1>11, <1>12, <1>13, <1>14 DEF Table, TableInv

\* The slot of a UID without one is published.
LEMMA PublishReservedTable ==
    ASSUME Table, PublishReserved
    PROVE  Table' /\ HomesStay
<1>1. /\ Locked /\ mutex \in Lock /\ mutex.op = "reserve" /\ mutex.todo = {}
      /\ mutex.slot \in Slot /\ UNCHANGED <<pc, cred, rev>>
  BY DEF PublishReserved, Table, TableType, Locked, Lock
<1>2. /\ \A j \in Slot : /\ slot'[j].ready = slot[j].ready
                         /\ slot'[j].revoking = slot[j].revoking
                         /\ slot'[j].entrants = slot[j].entrants
                         /\ slot'[j].uid = slot[j].uid /\ slot'[j].sid = slot[j].sid
                         /\ j # mutex.slot => slot'[j].allocated = slot[j].allocated
      /\ slot'[mutex.slot].allocated
      /\ slot' \in [Slot -> Instance]
  BY <1>1 DEF PublishReserved, Table, TableType, Instance
<1>3. /\ mutex' \in Lock /\ mutex'.todo = {}
      /\ mutex'.op = "create" /\ mutex'.slot = mutex.slot
      /\ mutex'.uid = mutex.uid /\ mutex'.sid = mutex.sid
  BY <1>1 DEF PublishReserved, Lock
<1>4. mutex' # Unlocked
  BY <1>3 DEF Unlocked
<1>5. TableType'
  BY <1>1, <1>2, <1>3 DEF Table, TableType
<1>6. /\ slot[mutex.slot].uid = mutex.uid /\ slot[mutex.slot].sid = mutex.sid
      /\ slot[mutex.slot].entrants = 0 /\ ~slot[mutex.slot].allocated
      /\ OfUid(mutex.uid) \subseteq {mutex.slot}
      /\ \A t \in Task : UidOf[t] = mutex.uid => ~Member(t)
  BY <1>1 DEF Table, TableInv, LockState
<1>7. HomesStay
  BY <1>1, <1>2, <1>3, <1>4 DEF HomesStay, Home, Leaving
<1>8. HasHome'
  BY <1>1, <1>7 DEF Table, TableInv, HasHome, HomesStay, Member
<1>9. OneSlot'
  BY <1>1, <1>2, <1>6 DEF Table, TableInv, OneSlot, OfUid
<1>10. CountExact'
  <2>1. \A j \in Slot : Counted(j)' = Counted(j)
    BY <1>1, <1>2 DEF Counted, Entering
  <2>2. Counted(mutex.slot) = {}
    BY <1>6 DEF Counted, Entering, Member
  <2>3. ASSUME NEW j \in Slot, slot'[j].allocated
        PROVE  slot'[j].entrants = Cardinality(Counted(j))
    BY <1>1, <1>2, <1>6, <2>2, <2>3, FS_EmptySet DEF Table, TableInv, CountExact
  <2> QED
    BY <2>1, <2>3 DEF CountExact
<1>11. LockState'
  BY <1>1, <1>2, <1>3, <1>4, <1>6 DEF Table, TableInv, LockState, Locked, OfUid, Member
<1>12. ScanQuiet'
  <2>1. \A u \in Uids : Usable(u) => Usable(u)'
    BY <1>1, <1>2 DEF Usable, OfUid
  <2> QED
    BY <1>1, <2>1 DEF Table, TableInv, ScanQuiet, Entering, Member
<1>13. Creds'
  BY <1>1 DEF Table, Creds
<1> QED
  BY <1>5, <1>7, <1>8, <1>9, <1>10, <1>11, <1>12, <1>13 DEF Table, TableInv


\* The reserved slot becomes the home of the task that asked for it.
LEMMA CreateTable ==
    ASSUME Table, Create
    PROVE  Table' /\ HomesStay
<1>1. Locked /\ mutex.op = "create" /\ UNCHANGED <<cred, rev>> /\ mutex' = Unlocked
  BY DEF Create
<1>2. mutex \in Lock
  BY <1>1 DEF Table, TableType, Locked
<1>3. PICK m \in Slot : m = mutex.slot
  BY <1>2 DEF Lock
<1>4. /\ \A j \in Slot \ {m} : slot'[j] = slot[j]
      /\ slot'[m].allocated = slot[m].allocated /\ slot'[m].uid = slot[m].uid
      /\ slot'[m].sid = slot[m].sid /\ slot'[m].revoking = slot[m].revoking
      /\ slot'[m].ready /\ slot'[m].entrants = 1
      /\ slot' \in [Slot -> Instance]
  BY <1>3 DEF Create, Table, TableType, Instance
<1>5. /\ slot[m].allocated /\ slot[m].uid = mutex.uid /\ slot[m].sid = mutex.sid
      /\ ~slot[m].revoking /\ ~slot[m].ready
      /\ \A x \in Task : UidOf[x] = mutex.uid => ~Member(x)
  BY <1>1, <1>3 DEF Table, TableInv, LockState
<1>6. PICK t \in Task : /\ UidOf[t] = mutex.uid /\ SidOf[t] = mutex.sid
                        /\ \A r \in Task : pc[r] = "reserving" <=> r = t
  BY <1>1 DEF Table, TableInv, LockState
<1>7. pc'[t] = "entered" /\ \A x \in Task \ {t} : pc'[x] = pc[x]
  BY <1>6 DEF Create
<1>8. TableType'
  <2>1. pc' \in [Task -> {"app", "reserving", "entered", "committed", "in"}]
    BY DEF Create, Table, TableType
  <2> QED
    BY <1>1, <1>4, <2>1 DEF Table, TableType
<1>9. HomesStay
  BY <1>1, <1>4 DEF HomesStay, Home, Leaving
<1>10. HasHome'
  <2>1. Home(m, UidOf[t], SidOf[t])'
    BY <1>1, <1>4, <1>5, <1>6 DEF Home, Leaving
  <2>2. \A x \in Task : Member(x)' => x = t \/ Member(x)
    BY <1>7 DEF Member
  <2> QED
    BY <2>1, <2>2, <1>9 DEF Table, TableInv, HasHome, HomesStay
<1>11. OneSlot'
  BY <1>4 DEF Table, TableInv, OneSlot
<1>12. CountExact'
  <2>1. Counted(m)' = {t}
    BY <1>4, <1>5, <1>6, <1>7 DEF Counted, Entering, Member
  <2>2. Cardinality(Counted(m)') = 1
    BY <2>1, FS_Singleton
  <2>3. \A j \in Slot \ {m} : slot[j].allocated => Counted(j)' = Counted(j)
    <3>1. \A j \in Slot \ {m} : slot[j].allocated => slot[j].uid # UidOf[t]
      BY <1>5, <1>6, CredFacts DEF Table, TableInv, OneSlot
    <3> QED
      BY <3>1, <1>4, <1>7 DEF Counted, Entering
  <2>4. ASSUME NEW j \in Slot, slot'[j].allocated
        PROVE  slot'[j].entrants = Cardinality(Counted(j)')
    BY <1>4, <2>2, <2>3, <2>4 DEF Table, TableInv, CountExact
  <2> QED
    BY <2>4 DEF CountExact
<1>13. LockState'
  <2>1. slot[m].uid \in Uids
    BY <1>5, <1>6, CredFacts
  <2>2. \A x \in Task : pc'[x] # "reserving"
    BY <1>6, <1>7
  <2>3. \A i \in Slot : slot'[i].allocated => slot'[i].ready = ~slot'[i].revoking /\ slot'[i].uid \in Uids
    BY <1>3, <1>4, <1>5, <2>1 DEF Table, TableInv, LockState
  <2>4. \A i \in Slot : ~slot'[i].allocated =>
            slot'[i].entrants = 0 /\ ~slot'[i].ready /\ ~slot'[i].revoking
    BY <1>4, <1>5 DEF Table, TableInv, LockState
  <2> QED
    BY <1>1, <2>2, <2>3, <2>4 DEF LockState, Locked
<1>14. ScanQuiet'
  <2>1. \A u \in Uids : Usable(u) => Usable(u)'
    BY <1>4 DEF Usable, OfUid
  <2>2. Usable(UidOf[t])'
    BY <1>4, <1>5, <1>6 DEF Usable, OfUid
  <2> QED
    BY <1>1, <1>7, <2>1, <2>2 DEF Table, TableInv, ScanQuiet, Entering, Member
<1>15. Creds'
  BY <1>1, <1>6, <1>7 DEF Table, Creds
<1> QED
  BY <1>8, <1>9, <1>10, <1>11, <1>12, <1>13, <1>14, <1>15 DEF Table, TableInv

\* The slot whose namespace could not be made has no members.
LEMMA CreateFailsTable ==
    ASSUME Table, CreateFails
    PROVE  Table' /\ HomesStay
<1>1. Locked /\ mutex.op = "create" /\ UNCHANGED <<slot, cred, rev>>
  BY DEF CreateFails
<1>2. mutex \in Lock
  BY <1>1 DEF Table, TableType, Locked
<1>3. PICK m \in Slot : m = mutex.slot
  BY <1>2 DEF Lock
<1>4. /\ mutex'.op = "release" /\ mutex'.slot = m /\ mutex'.todo = {"uid", "sid"}
      /\ mutex'.uid = NoUid /\ mutex'.sid = NoSid /\ mutex' \in Lock
  BY <1>3 DEF CreateFails, Writing, Lock
<1>5. mutex' # Unlocked
  BY <1>4 DEF Unlocked
<1>6. /\ slot[m].allocated /\ slot[m].uid = mutex.uid /\ slot[m].sid = mutex.sid
      /\ slot[m].entrants = 0 /\ ~slot[m].ready
      /\ \A x \in Task : UidOf[x] = mutex.uid => ~Member(x)
  BY <1>1, <1>3 DEF Table, TableInv, LockState
<1>7. /\ pc' \in [Task -> {"app", "reserving", "entered", "committed", "in"}]
      /\ \A x \in Task : pc'[x] = IF pc[x] = "reserving" THEN "app" ELSE pc[x]
  BY DEF CreateFails, Table, TableType
<1>8. /\ \A x \in Task : Member(x)' <=> Member(x)
      /\ \A x \in Task : Entering(x)' <=> Entering(x)
  BY <1>7 DEF Member, Entering
<1>9. TableType'
  BY <1>1, <1>4, <1>7 DEF Table, TableType
<1>10. HomesStay
  BY <1>1, <1>4, <1>6 DEF HomesStay, Home, Leaving
<1>11. HasHome'
  BY <1>8, <1>10 DEF Table, TableInv, HasHome, HomesStay
<1>12. OneSlot'
  BY <1>1 DEF Table, TableInv, OneSlot
<1>13. CountExact'
  <2>1. \A j \in Slot : Counted(j)' = Counted(j)
    BY <1>1, <1>8 DEF Counted
  <2> QED
    BY <1>1, <2>1 DEF Table, TableInv, CountExact
<1>14. LockState'
  <2>1. \A x \in Task : pc'[x] # "reserving"
    BY <1>7
  <2> QED
    BY <1>1, <1>3, <1>4, <1>5, <1>6, <2>1 DEF Table, TableInv, LockState, Locked
<1>15. ScanQuiet'
  <2>1. \A u \in Uids : Usable(u) <=> Usable(u)'
    BY <1>1 DEF Usable, OfUid
  <2> QED
    BY <1>1, <1>8, <2>1 DEF Table, TableInv, ScanQuiet
<1>16. Creds'
  BY <1>1, <1>7 DEF Table, Creds
<1> QED
  BY <1>9, <1>10, <1>11, <1>12, <1>13, <1>14, <1>15, <1>16 DEF Table, TableInv

\* A slot that was being cleared is free.
LEMMA PublishReleasedTable ==
    ASSUME Table, PublishReleased
    PROVE  Table' /\ HomesStay
<1>1. /\ Locked /\ mutex.op = "release" /\ UNCHANGED <<pc, cred, rev>>
      /\ mutex' = Unlocked
  BY DEF PublishReleased
<1>2. mutex \in Lock
  BY <1>1 DEF Table, TableType, Locked
<1>3. PICK m \in Slot : m = mutex.slot
  BY <1>2 DEF Lock
<1>4. /\ \A j \in Slot \ {m} : slot'[j] = slot[j]
      /\ ~slot'[m].allocated /\ ~slot'[m].revoking /\ ~slot'[m].ready /\ slot'[m].entrants = 0
      /\ slot' \in [Slot -> Instance]
  BY <1>3 DEF PublishReleased, FreeSlot, Table, TableType, Instance
<1>5. ~slot[m].ready
  BY <1>1, <1>3 DEF Table, TableInv, LockState
<1>6. TableType'
  BY <1>1, <1>4 DEF Table, TableType
<1>7. HomesStay
  BY <1>1, <1>3, <1>4 DEF HomesStay, Home, Leaving, Locked
<1>8. HasHome'
  BY <1>1, <1>7 DEF Table, TableInv, HasHome, HomesStay, Member
<1>9. OneSlot'
  BY <1>4 DEF Table, TableInv, OneSlot
<1>10. CountExact'
  <2>1. \A j \in Slot \ {m} : Counted(j)' = Counted(j)
    BY <1>1, <1>4 DEF Counted, Entering
  <2> QED
    BY <1>4, <2>1 DEF Table, TableInv, CountExact
<1>11. LockState'
  BY <1>1, <1>3, <1>4 DEF Table, TableInv, LockState, Locked
<1>12. ScanQuiet'
  <2>1. \A u \in Uids : Usable(u) => Usable(u)'
    BY <1>4, <1>5 DEF Usable, OfUid
  <2> QED
    BY <1>1, <2>1 DEF Table, TableInv, ScanQuiet, Entering, Member
<1>13. Creds'
  BY <1>1 DEF Table, Creds
<1> QED
  BY <1>6, <1>7, <1>8, <1>9, <1>10, <1>11, <1>12, <1>13 DEF Table, TableInv


\* An entrant gets its credential and stays an entrant.
LEMMA CommitCredsTable ==
    ASSUME Table, NEW t \in Task, CommitCreds(t)
    PROVE  Table' /\ HomesStay
<1>1. pc[t] = "entered" /\ UNCHANGED <<slot, mutex, rev>>
  BY DEF CommitCreds
<1>2. /\ pc'[t] = "committed" /\ \A x \in Task \ {t} : pc'[x] = pc[x] /\ cred'[x] = cred[x]
      /\ cred'[t] = SandboxCred(t)
  BY DEF CommitCreds, Table, TableType
<1>3. /\ \A x \in Task : Member(x)' <=> Member(x)
      /\ \A x \in Task : Entering(x)' <=> Entering(x)
  BY <1>1, <1>2 DEF Member, Entering
<1>4. TableType'
  BY <1>1, CredFacts DEF CommitCreds, Table, TableType
<1>5. HomesStay
  BY <1>1 DEF HomesStay, Home, Leaving
<1>6. HasHome'
  BY <1>3, <1>5 DEF Table, TableInv, HasHome, HomesStay
<1>7. OneSlot'
  BY <1>1 DEF Table, TableInv, OneSlot
<1>8. CountExact'
  <2>1. \A j \in Slot : Counted(j)' = Counted(j)
    BY <1>1, <1>3 DEF Counted
  <2> QED
    BY <1>1, <2>1 DEF Table, TableInv, CountExact
<1>9. LockState'
  BY <1>1, <1>2, <1>3 DEF Table, TableInv, LockState, Locked, OfUid
<1>10. ScanQuiet'
  <2>1. \A u \in Uids : Usable(u) <=> Usable(u)'
    BY <1>1 DEF Usable, OfUid
  <2> QED
    BY <1>1, <1>3, <2>1 DEF Table, TableInv, ScanQuiet
<1>11. Creds'
  BY <1>2 DEF Table, Creds
<1> QED
  BY <1>4, <1>5, <1>6, <1>7, <1>8, <1>9, <1>10, <1>11 DEF Table, TableInv

\* An entrant ceases to be one and stays a member.
LEMMA EntryCompleteTable ==
    ASSUME Table, NEW t \in Task, EntryComplete(t)
    PROVE  Table' /\ HomesStay
<1>1. ~Locked /\ pc[t] = "committed" /\ UNCHANGED <<mutex, cred, rev>>
  BY DEF EntryComplete
<1>2. pc'[t] = "in" /\ \A x \in Task \ {t} : pc'[x] = pc[x]
  BY DEF EntryComplete, Table, TableType
<1>3. PICK i \in Slot : slot[i].allocated /\ slot[i].uid = UidOf[t] /\ slot[i].sid = SidOf[t]
  BY <1>1 DEF Table, TableInv, HasHome, Home, Member
<1>4. \A j \in Slot : slot[j].allocated /\ slot[j].uid = UidOf[t] => j = i
  BY <1>3, CredFacts DEF Table, TableInv, OneSlot
<1>5. /\ \A j \in Slot \ {i} : slot'[j] = slot[j]
      /\ slot'[i] = [slot[i] EXCEPT !.entrants = @ - 1]
  BY <1>3, <1>4 DEF EntryComplete, OfUid
<1>6. /\ slot'[i].allocated = slot[i].allocated /\ slot'[i].uid = slot[i].uid
      /\ slot'[i].sid = slot[i].sid /\ slot'[i].ready = slot[i].ready
      /\ slot'[i].revoking = slot[i].revoking /\ slot'[i].entrants = slot[i].entrants - 1
  BY <1>5 DEF Table, TableType, Instance
<1>7. /\ slot[i].entrants - 1 = Cardinality(Counted(i)') /\ slot[i].entrants - 1 \in Nat
      /\ \A j \in Slot \ {i} : slot[j].allocated => Counted(j)' = Counted(j)
  <2>1. /\ Counted(i)' = Counted(i) \ {t} /\ t \in Counted(i) /\ Counted(i) \subseteq Task
        /\ \A j \in Slot \ {i} : slot[j].allocated => Counted(j)' = Counted(j)
    BY <1>1, <1>2, <1>3, <1>4, <1>5, <1>6 DEF Counted, Entering
  <2>2. IsFiniteSet(Counted(i))
    BY <2>1, MediationConstants, FS_Subset
  <2>3. slot[i].entrants = Cardinality(Counted(i))
    BY <1>3 DEF Table, TableInv, CountExact
  <2>4. IsFiniteSet(Counted(i)') /\ Cardinality(Counted(i)') = Cardinality(Counted(i)) - 1
    <3> HIDE DEF Counted
    <3> QED
      BY <2>1, <2>2, FS_RemoveElement
  <2>5. Cardinality(Counted(i)') \in Nat
    BY <2>4, FS_CardinalityType
  <2> QED
    BY <2>1, <2>3, <2>4, <2>5
<1>8. TableType'
  <2>1. slot'[i] \in Instance
    BY <1>5, <1>7 DEF Table, TableType, Instance
  <2>2. slot' \in [Slot -> Instance]
    BY <1>5, <2>1 DEF EntryComplete, Table, TableType
  <2> QED
    BY <1>1, <2>2 DEF EntryComplete, Table, TableType
<1>9. HomesStay
  BY <1>1, <1>5, <1>6 DEF HomesStay, Home, Leaving
<1>10. HasHome'
  <2>1. \A x \in Task : Member(x)' <=> Member(x)
    BY <1>1, <1>2 DEF Member
  <2> QED
    BY <2>1, <1>9 DEF Table, TableInv, HasHome, HomesStay
<1>11. OneSlot'
  <2>1. \A j \in Slot : slot'[j].allocated = slot[j].allocated /\ slot'[j].uid = slot[j].uid
    BY <1>5, <1>6
  <2> QED
    BY <2>1 DEF Table, TableInv, OneSlot
<1>12. CountExact'
  <2>1. ASSUME NEW j \in Slot, slot'[j].allocated
        PROVE  slot'[j].entrants = Cardinality(Counted(j)')
    BY <1>5, <1>6, <1>7, <2>1 DEF Table, TableInv, CountExact
  <2> QED
    BY <2>1 DEF CountExact
<1>13. LockState'
  BY <1>1, <1>2, <1>3, <1>5, <1>6 DEF Table, TableInv, LockState, Locked
<1>14. ScanQuiet'
  <2>1. \A u \in Uids : Usable(u) => Usable(u)'
    BY <1>5, <1>6 DEF Usable, OfUid
  <2> QED
    BY <1>1, <1>2, <2>1 DEF Table, TableInv, ScanQuiet, Entering, Member
<1>15. Creds'
  BY <1>1, <1>2 DEF Table, Creds
<1> QED
  BY <1>8, <1>9, <1>10, <1>11, <1>12, <1>13, <1>14, <1>15 DEF Table, TableInv

\* A scan begins only when the slot has no entrants and cannot be joined.
LEMMA RevokedTable ==
    ASSUME Table, NEW u \in Uids, RevokeMark(u) \/ RevokeDetach(u)
    PROVE  Table' /\ HomesStay
<1>1. ~Locked /\ UNCHANGED <<mutex, pc, cred>> /\ slot' = Revoked(u)
  BY DEF RevokeMark, RevokeDetach
<1>2. /\ \A j \in Slot : /\ slot'[j].allocated = slot[j].allocated /\ slot'[j].uid = slot[j].uid
                         /\ slot'[j].sid = slot[j].sid /\ slot'[j].entrants = slot[j].entrants
      /\ \A j \in Slot \ OfUid(u) : slot'[j] = slot[j]
      /\ \A j \in OfUid(u) : slot'[j].revoking /\ ~slot'[j].ready
      /\ slot' \in [Slot -> Instance]
  BY <1>1 DEF Revoked, OfUid, Table, TableType, Instance
<1>3. /\ \A v \in Uids \ {u} : rev'[v] = rev[v]
      /\ rev'[u].at = "scan" =>
            rev'[u].left = OfApp(u) /\ \A i \in OfUid(u) : ~(slot[i].entrants > 0)
      /\ rev' \in [Uids -> Request]
  <2>1. CASE RevokeMark(u)
    BY <2>1 DEF RevokeMark, Table, TableType, Request
  <2>2. CASE RevokeDetach(u)
    <3>1. CASE \E i \in OfUid(u) : slot[i].entrants > 0
      BY <2>2, <3>1 DEF RevokeDetach, Table, TableType
    <3>2. CASE ~\E i \in OfUid(u) : slot[i].entrants > 0
      <4>1. rev' = [rev EXCEPT ![u] = [at |-> "scan", left |-> OfApp(u), alive |-> FALSE]]
        BY <2>2, <3>2 DEF RevokeDetach
      <4>2. [at |-> "scan", left |-> OfApp(u), alive |-> FALSE] \in Request
        BY DEF Request, OfApp
      <4> QED
        BY <3>2, <4>1, <4>2 DEF Table, TableType
    <3> QED
      BY <3>1, <3>2
  <2> QED
    BY <2>1, <2>2
<1>4. TableType'
  BY <1>1, <1>2, <1>3 DEF Table, TableType
<1>5. HomesStay
  BY <1>1, <1>2 DEF HomesStay, Home, Leaving
<1>6. HasHome'
  BY <1>1, <1>5 DEF Table, TableInv, HasHome, HomesStay, Member
<1>7. OneSlot'
  BY <1>2 DEF Table, TableInv, OneSlot
<1>8. CountExact'
  <2>1. \A j \in Slot : Counted(j)' = Counted(j)
    BY <1>1, <1>2 DEF Counted, Entering
  <2> QED
    BY <1>2, <2>1 DEF Table, TableInv, CountExact
<1>9. LockState'
  <2>1. \A i \in Slot : slot'[i].allocated => slot'[i].ready = ~slot'[i].revoking /\ slot'[i].uid \in Uids
    <3>1. SUFFICES ASSUME NEW i \in Slot, slot'[i].allocated
                   PROVE  slot'[i].ready = ~slot'[i].revoking /\ slot'[i].uid \in Uids
      OBVIOUS
    <3>2. slot[i].ready = ~slot[i].revoking /\ slot[i].uid \in Uids
      BY <1>1, <1>2, <3>1 DEF Table, TableInv, LockState
    <3>3. slot'[i].ready \in BOOLEAN /\ slot'[i].revoking \in BOOLEAN
      BY <1>2 DEF Instance
    <3> QED
      BY <1>2, <3>2, <3>3
  <2>2. \A i \in Slot : ~slot'[i].allocated =>
            slot'[i].entrants = 0 /\ ~slot'[i].ready /\ ~slot'[i].revoking
    BY <1>2 DEF Table, TableInv, LockState, OfUid
  <2> QED
    BY <1>1, <2>1, <2>2 DEF Table, TableInv, LockState, Locked
<1>10. ScanQuiet'
  <2>1. \A v \in Uids \ {u} : Usable(v) => Usable(v)'
    BY <1>2 DEF Usable, OfUid
  <2>2. ASSUME rev'[u].at = "scan", NEW t \in Task, UidOf[t] = u
        PROVE  ~Entering(t) /\ t \in rev'[u].left
    <3>1. ASSUME Entering(t) PROVE FALSE
      <4>1. PICK i \in Slot : slot[i].allocated /\ slot[i].uid = u /\ slot[i].sid = SidOf[t]
        BY <2>2, <3>1 DEF Table, TableInv, HasHome, Home, Member, Entering
      <4>2. t \in Counted(i) /\ Counted(i) \subseteq Task
        BY <2>2, <3>1, <4>1 DEF Counted
      <4>3. IsFiniteSet(Counted(i))
        BY <4>2, MediationConstants, FS_Subset
      <4>4. Cardinality(Counted(i)) # 0 /\ Cardinality(Counted(i)) \in Nat
        <5> HIDE DEF Counted
        <5> QED
          BY <4>2, <4>3, FS_EmptySet, FS_CardinalityType
      <4>5. slot[i].entrants = Cardinality(Counted(i))
        BY <4>1 DEF Table, TableInv, CountExact
      <4> QED
        BY <1>3, <2>2, <4>1, <4>4, <4>5 DEF OfUid
    <3> QED
      BY <1>3, <2>2, <3>1 DEF OfApp
  <2> QED
    BY <1>1, <1>3, <2>1, <2>2 DEF Table, TableInv, ScanQuiet, Entering, Member
<1>11. Creds'
  BY <1>1 DEF Table, Creds
<1> QED
  BY <1>4, <1>5, <1>6, <1>7, <1>8, <1>9, <1>10, <1>11 DEF Table, TableInv


\* The worker's turns of the scan, and what it makes of them.
LEMMA WorkerTable ==
    ASSUME Table, NEW u \in Uids, Retry(u) \/ \E t \in Task : KillScan(u, t)
    PROVE  Table' /\ HomesStay
<1>1. rev[u].at = "scan" /\ UNCHANGED <<slot, mutex, pc, cred>>
  BY DEF Retry, KillScan
<1>2. /\ rev' \in [Uids -> Request]
      /\ \A v \in Uids \ {u} : rev'[v] = rev[v]
      /\ rev'[u].at = "scan" => \A t \in Task : UidOf[t] = u /\ Member(t) /\ t \notin rev'[u].left =>
            rev'[u].alive \/ Usable(u)
  <2>1. CASE Retry(u)
    <3>1. PICK r \in {[NoRequest EXCEPT !.at = "queued"], NoRequest} : rev' = [rev EXCEPT ![u] = r]
      BY <2>1 DEF Retry
    <3>2. r \in Request /\ r.at # "scan"
      <4>1. NoRequest \in Request /\ NoRequest.at = "idle"
        BY DEF Request, NoRequest
      <4>2. /\ [NoRequest EXCEPT !.at = "queued"] \in Request
            /\ [NoRequest EXCEPT !.at = "queued"].at = "queued"
        BY <4>1 DEF Request
      <4> QED
        BY <3>1, <4>1, <4>2
    <3> QED
      BY <3>1, <3>2 DEF Table, TableType
  <2>2. ASSUME NEW t \in Task, KillScan(u, t)
        PROVE  /\ rev' \in [Uids -> Request]
               /\ \A v \in Uids \ {u} : rev'[v] = rev[v]
               /\ \A x \in Task : UidOf[x] = u /\ Member(x) /\ x \notin rev'[u].left =>
                    rev'[u].alive \/ Usable(u)
    <3>1. /\ rev' \in [Uids -> Request] /\ \A v \in Uids \ {u} : rev'[v] = rev[v]
          /\ rev'[u].left = rev[u].left \ {t}
          /\ rev'[u].alive <=> \/ rev[u].alive
                               \/ cred[t].fsuid = u /\ cred[t].euid = Root /\ Registered(u, cred[t].sid)
      <4>1. PICK b \in BOOLEAN :
                b <=> cred[t].fsuid = u /\ cred[t].euid = Root /\ Registered(u, cred[t].sid)
        OBVIOUS
      <4>2. rev' = [rev EXCEPT ![u].left = @ \ {t}, ![u].alive = @ \/ b]
        BY <2>2, <4>1 DEF KillScan
      <4>3. rev[u] \in Request
        BY DEF Table, TableType
      <4>4. /\ rev'[u].left = rev[u].left \ {t}
            /\ rev'[u].alive = (rev[u].alive \/ b)
        BY <4>2, <4>3 DEF Table, TableType, Request
      <4>5. rev' \in [Uids -> Request] /\ \A v \in Uids \ {u} : rev'[v] = rev[v]
        BY <4>1, <4>2, <4>3 DEF Table, TableType, Request
      <4> QED
        BY <4>1, <4>4, <4>5
    <3>2. ASSUME UidOf[t] = u, Member(t) PROVE rev'[u].alive \/ Usable(u)
      <4>1. CASE Entering(t)
        BY <1>1, <3>2, <4>1 DEF Table, TableInv, ScanQuiet
      <4>2. CASE pc[t] = "in"
        <5>1. cred[t].fsuid = u /\ cred[t].euid = Root /\ cred[t].sid = SidOf[t]
          <6>1. cred[t] = SandboxCred(t)
            BY <4>2 DEF Table, Creds
          <6> QED
            BY <3>2, <6>1 DEF SandboxCred
        <5>2. Registered(u, SidOf[t])
          BY <3>2 DEF Table, TableInv, HasHome, Home, Registered
        <5> QED
          BY <3>1, <5>1, <5>2
      <4> QED
        BY <3>2, <4>1, <4>2 DEF Member, Entering
    <3>3. ASSUME NEW x \in Task, UidOf[x] = u, Member(x), x \notin rev'[u].left
          PROVE  rev'[u].alive \/ Usable(u)
      <4>1. CASE x = t
        BY <3>2, <3>3, <4>1
      <4>2. CASE x # t
        BY <1>1, <3>1, <3>3, <4>2 DEF Table, TableInv, ScanQuiet
      <4> QED
        BY <4>1, <4>2
    <3> QED
      BY <3>1, <3>3
  <2> QED
    BY <2>1, <2>2
<1>3. TableType'
  BY <1>1, <1>2 DEF Table, TableType
<1>4. HomesStay
  BY <1>1 DEF HomesStay, Home, Leaving
<1>5. HasHome'
  BY <1>1, <1>4 DEF Table, TableInv, HasHome, HomesStay, Member
<1>6. OneSlot' /\ Creds'
  BY <1>1 DEF Table, TableInv, OneSlot, Creds
<1>7. CountExact'
  <2>1. \A j \in Slot : Counted(j)' = Counted(j)
    BY <1>1 DEF Counted, Entering
  <2> QED
    BY <1>1, <2>1 DEF Table, TableInv, CountExact
<1>8. LockState'
  BY <1>1 DEF Table, TableInv, LockState, Locked, OfUid, Member
<1>9. ScanQuiet'
  <2>1. \A v \in Uids : Usable(v) <=> Usable(v)'
    BY <1>1 DEF Usable, OfUid
  <2>2. \A x \in Task : (Member(x)' <=> Member(x)) /\ (Entering(x)' <=> Entering(x))
    BY <1>1 DEF Member, Entering
  <2> QED
    BY <1>1, <1>2, <2>1, <2>2 DEF Table, TableInv, ScanQuiet
<1> QED
  BY <1>3, <1>4, <1>5, <1>6, <1>7, <1>8, <1>9 DEF Table, TableInv

\* A slot is released only when nobody is in its sandbox: the worker has seen
\* every task of the UID since the slot could last be joined.
LEMMA ReleaseTable ==
    ASSUME Table, NEW u \in Uids, Release(u)
    PROVE  Table' /\ HomesStay
<1>1. /\ ~Locked /\ rev[u].at = "scan" /\ rev[u].left = {} /\ ~rev[u].alive
      /\ UNCHANGED <<slot, pc, cred>> /\ rev' = [rev EXCEPT ![u] = NoRequest]
  BY DEF Release, ReleaseSlot
<1>2. NoRequest \in Request /\ NoRequest.at = "idle"
  BY DEF NoRequest, Request
<1>3. /\ rev' \in [Uids -> Request] /\ rev'[u].at = "idle"
      /\ \A v \in Uids \ {u} : rev'[v] = rev[v]
  BY <1>1, <1>2 DEF Table, TableType
<1>4. \/ mutex' = Unlocked
      \/ \E m \in OfUid(u) : /\ ~slot[m].ready /\ slot[m].entrants = 0
                             /\ mutex' = Writing("release", m, NoUid, NoSid)
  <2> DEFINE idle == {i \in OfUid(u) : ~slot[i].ready /\ slot[i].entrants = 0}
  <2>1. mutex' = IF idle = {} THEN Unlocked
                 ELSE Writing("release", CHOOSE i \in idle : TRUE, NoUid, NoSid)
    BY DEF Release, ReleaseSlot
  <2>2. idle # {} => (CHOOSE i \in idle : TRUE) \in idle
    OBVIOUS
  <2> QED
    BY <2>1, <2>2
<1>5. OneSlot' /\ Creds'
  BY <1>1 DEF Table, TableInv, OneSlot, Creds
<1>6. CountExact'
  <2>1. \A j \in Slot : Counted(j)' = Counted(j)
    BY <1>1 DEF Counted, Entering
  <2> QED
    BY <1>1, <2>1 DEF Table, TableInv, CountExact
<1>7. ScanQuiet'
  <2>1. \A v \in Uids : Usable(v) <=> Usable(v)'
    BY <1>1 DEF Usable, OfUid
  <2>2. \A x \in Task : (Member(x)' <=> Member(x)) /\ (Entering(x)' <=> Entering(x))
    BY <1>1 DEF Member, Entering
  <2> QED
    BY <1>3, <2>1, <2>2 DEF Table, TableInv, ScanQuiet
<1>8. CASE mutex' = Unlocked
  <2>1. TableType'
    BY <1>1, <1>3, <1>8 DEF Table, TableType
  <2>2. HomesStay
    BY <1>1, <1>8 DEF HomesStay, Home, Leaving
  <2>3. HasHome'
    BY <1>1, <2>2 DEF Table, TableInv, HasHome, HomesStay, Member
  <2>4. LockState'
    BY <1>1, <1>8 DEF Table, TableInv, LockState, Locked
  <2> QED
    BY <1>5, <1>6, <1>7, <2>1, <2>2, <2>3, <2>4 DEF Table, TableInv
<1>9. ASSUME NEW m \in OfUid(u), ~slot[m].ready, slot[m].entrants = 0,
             mutex' = Writing("release", m, NoUid, NoSid)
      PROVE  Table' /\ HomesStay
  <2>1. m \in Slot /\ slot[m].allocated /\ slot[m].uid = u
    BY DEF OfUid
  <2>2. /\ mutex'.op = "release" /\ mutex'.slot = m /\ mutex'.todo = {"uid", "sid"}
        /\ mutex'.uid = NoUid /\ mutex'.sid = NoSid /\ mutex' \in Lock
    BY <1>9, <2>1 DEF Writing, Lock
  <2>3. mutex' # Unlocked
    BY <2>2 DEF Unlocked
  <2>4. ~Usable(u)
    BY <1>9, <2>1 DEF Usable, OfUid, Table, TableInv, OneSlot
  <2>5. \A t \in Task : UidOf[t] = u => ~Member(t)
    BY <1>1, <2>4 DEF Table, TableInv, ScanQuiet
  <2>6. TableType'
    BY <1>1, <1>3, <2>2 DEF Table, TableType
  <2>7. HomesStay
    BY <1>1, <2>1, <2>2, <2>5 DEF HomesStay, Home, Leaving, Locked
  <2>8. HasHome'
    BY <1>1, <2>7 DEF Table, TableInv, HasHome, HomesStay, Member
  <2>9. LockState'
    BY <1>1, <1>9, <2>1, <2>2, <2>3 DEF Table, TableInv, LockState, Locked
  <2> QED
    BY <1>5, <1>6, <1>7, <2>6, <2>7, <2>8, <2>9 DEF Table, TableInv
<1> QED
  BY <1>4, <1>8, <1>9

\* The child lives where its parent does, and a scan under way will see it.
LEMMA ForkTable ==
    ASSUME Table, NEW t \in Task, NEW c \in Task, Fork(t, c)
    PROVE  Table' /\ HomesStay
<1>1. /\ pc[t] = "in" /\ pc[c] = "app" /\ UidOf[c] = UidOf[t] /\ SidOf[c] = SidOf[t]
      /\ UNCHANGED <<slot, mutex>>
  BY DEF Fork
<1>2. /\ pc'[c] = "in" /\ cred'[c] = cred[t]
      /\ \A x \in Task \ {c} : pc'[x] = pc[x] /\ cred'[x] = cred[x]
  BY DEF Fork, Table, TableType
<1>3. \A v \in Uids : /\ rev'[v].at = rev[v].at /\ rev'[v].alive = rev[v].alive
                      /\ rev'[v].left = IF rev[v].at = "scan" /\ UidOf[c] = v
                                        THEN rev[v].left \cup {c} ELSE rev[v].left
  BY DEF Fork, OfApp, Table, TableType, Request
<1>4. TableType'
  <2>1. rev' \in [Uids -> Request]
    BY DEF Fork, Table, TableType, Request
  <2>2. cred' \in [Task -> Credential]
    BY DEF Fork, Table, TableType
  <2> QED
    BY <1>1, <2>1, <2>2 DEF Fork, Table, TableType
<1>5. HomesStay
  BY <1>1 DEF HomesStay, Home, Leaving
<1>6. HasHome'
  <2>1. \A x \in Task : Member(x)' => IF x = c THEN Member(t) ELSE Member(x)
    BY <1>1, <1>2 DEF Member
  <2> QED
    BY <1>1, <1>5, <2>1 DEF Table, TableInv, HasHome, HomesStay
<1>7. OneSlot'
  BY <1>1 DEF Table, TableInv, OneSlot
<1>8. \A x \in Task : Entering(x)' <=> Entering(x)
  BY <1>1, <1>2 DEF Entering
<1>9. CountExact'
  <2>1. \A j \in Slot : Counted(j)' = Counted(j)
    BY <1>1, <1>8 DEF Counted
  <2> QED
    BY <1>1, <2>1 DEF Table, TableInv, CountExact
<1>10. LockState'
  <2>1. \A x \in Task : pc'[x] = "reserving" <=> pc[x] = "reserving"
    BY <1>1, <1>2
  <2>2. \A v \in Uids : (\A x \in Task : UidOf[x] = v => ~Member(x))
                      => (\A x \in Task : UidOf[x] = v => ~Member(x)')
    BY <1>1, <1>2 DEF Member
  <2>3. Locked => mutex \in Lock
    BY DEF Table, TableType, Locked
  <2>4. Locked /\ mutex.op \in {"reserve", "create"} => mutex.uid \in Uids
    BY CredFacts DEF Table, TableInv, LockState
  <2> QED
    BY <1>1, <2>1, <2>2, <2>4 DEF Table, TableInv, LockState, Locked, OfUid
<1>11. ScanQuiet'
  <2>1. \A v \in Uids : Usable(v) <=> Usable(v)'
    BY <1>1 DEF Usable, OfUid
  <2>2. \A x \in Task \ {c} : Member(x)' <=> Member(x)
    BY <1>2 DEF Member
  <2> QED
    BY <1>1, <1>3, <1>8, <2>1, <2>2 DEF Table, TableInv, ScanQuiet
<1>12. Creds'
  <2>1. cred[t] = SandboxCred(c)
    BY <1>1 DEF Table, Creds, SandboxCred
  <2> QED
    BY <1>2, <2>1 DEF Table, Creds
<1> QED
  BY <1>4, <1>5, <1>6, <1>7, <1>9, <1>10, <1>11, <1>12 DEF Table, TableInv

\* Who leaves needs no home.
LEMMA ExitTable ==
    ASSUME Table, NEW t \in Task, Exit(t)
    PROVE  Table' /\ HomesStay
<1>1. pc[t] = "in" /\ UNCHANGED <<slot, mutex, rev>>
  BY DEF Exit
<1>2. /\ pc'[t] = "app" /\ cred'[t] = AppCred(t)
      /\ \A x \in Task \ {t} : pc'[x] = pc[x] /\ cred'[x] = cred[x]
  BY DEF Exit, Table, TableType
<1>3. /\ \A x \in Task : Member(x)' => Member(x)
      /\ \A x \in Task : Entering(x)' <=> Entering(x)
  BY <1>1, <1>2 DEF Member, Entering
<1>4. TableType'
  BY <1>1, CredFacts DEF Exit, Table, TableType
<1>5. HomesStay
  BY <1>1 DEF HomesStay, Home, Leaving
<1>6. HasHome'
  BY <1>3, <1>5 DEF Table, TableInv, HasHome, HomesStay
<1>7. OneSlot'
  BY <1>1 DEF Table, TableInv, OneSlot
<1>8. CountExact'
  <2>1. \A j \in Slot : Counted(j)' = Counted(j)
    BY <1>1, <1>3 DEF Counted
  <2> QED
    BY <1>1, <2>1 DEF Table, TableInv, CountExact
<1>9. LockState'
  <2>1. \A x \in Task : pc'[x] = "reserving" <=> pc[x] = "reserving"
    BY <1>1, <1>2
  <2> QED
    BY <1>1, <1>3, <2>1 DEF Table, TableInv, LockState, Locked, OfUid
<1>10. ScanQuiet'
  <2>1. \A u \in Uids : Usable(u) <=> Usable(u)'
    BY <1>1 DEF Usable, OfUid
  <2> QED
    BY <1>1, <1>3, <2>1 DEF Table, TableInv, ScanQuiet
<1>11. Creds'
  BY <1>2 DEF Table, Creds
<1> QED
  BY <1>4, <1>5, <1>6, <1>7, <1>8, <1>9, <1>10, <1>11 DEF Table, TableInv


\* Steps of the hooks leave the table alone.
LEMMA QuietTable ==
    ASSUME Table, UNCHANGED <<slot, mutex, pc, cred, rev>>
    PROVE  Table' /\ HomesStay
<1>1. TableType' /\ Creds'
  BY DEF Table, TableType, Creds
<1>2. HasHome' /\ OneSlot' /\ HomesStay
  BY DEF Table, TableInv, HasHome, OneSlot, HomesStay, Home, Leaving, Member
<1>3. CountExact'
  <2>1. \A j \in Slot : Counted(j)' = Counted(j)
    BY DEF Counted, Entering
  <2> QED
    BY <2>1 DEF Table, TableInv, CountExact
<1>4. LockState'
  BY DEF Table, TableInv, LockState, Locked, OfUid, Member
<1>5. ScanQuiet'
  BY DEF Table, TableInv, ScanQuiet, Usable, OfUid, Entering, Member
<1> QED
  BY <1>1, <1>2, <1>3, <1>4, <1>5 DEF Table, TableInv

-----------------------------------------------------------------------------
(* The readers.                                                            *)

\* A call is no NoCall.
LEMMA CallFacts ==
    /\ \A c : IsCall(c) => c # NoCall
    /\ \A c : c.kind # "none" => c # NoCall
BY DEF IsCall, NoCall

\* While a task is in a hook, nothing the others do makes its answers wrong.
LEMMA CallStays ==
    ASSUME Table, HomesStay, NEW t \in Task, CallExact(t), call'[t] = call[t],
           pc'[t] = pc[t],
           pc[call[t].target] \in {"committed", "in"} => pc'[call[t].target] \in {"committed", "in"}
    PROVE  CallExact(t)'
<1>1. IsCall(call[t]) /\ IsCall(call[t])'
  BY DEF CallExact, IsCall
<1>2. PlaceOf(t)' /\ PeerRead(t)' /\ ArgExact(t)' /\ DoneExact(t)'
  BY DEF CallExact, PlaceOf, PeerRead, ArgExact, DoneExact, Peers
<1>3. \A x \in Task : pc[x] = "in" \/ pc[x] = "committed" =>
            (Finds(call[t].q, UidOf[x], SidOf[x]) => Finds(call[t].q, UidOf[x], SidOf[x])')
  BY DEF Finds, HomesStay, Member
<1>4. SelfExact(t)'
  BY <1>3 DEF CallExact, SelfExact
<1>5. PeerExact(t)'
  <2>1. SUFFICES ASSUME call[t].at = "peer" PROVE PeerExact(t)'
    BY DEF PeerExact
  <2>2. Peers(t)' <=> Peers(t)
    BY DEF Peers
  <2>3. call[t].target \in Task /\ call[t].kind \in {"trace", "grant"}
    BY <1>1, <2>1 DEF IsCall, CallExact, PlaceOf
  <2>4. Peers(t) /\ ~call[t].gone => pc[call[t].target] \in {"committed", "in"}
    BY <2>3 DEF CallExact, PeerRead, Peers
  <2>5. /\ pc[t] = "in" /\ call[t].target # t
        /\ IF Peers(t) THEN \/ call[t].gone
                            \/ Finds(call[t].q, UidOf[call[t].target], SidOf[call[t].target])
           ELSE call[t].q.answer = "no"
    BY <2>1 DEF CallExact, PeerExact
  <2> QED
    BY <1>3, <2>2, <2>3, <2>4, <2>5 DEF PeerExact
<1> QED
  BY <1>1, <1>2, <1>4, <1>5 DEF CallExact


\* No writer disturbs a call.
LEMMA WriterCalls ==
    ASSUME Table, CallInv, HomesStay, UNCHANGED call,
           \A x \in Task : call[x] # NoCall /\ pc[x] \in {"app", "in"} => pc'[x] = pc[x],
           \A x \in Task : pc[x] \in {"committed", "in"} => pc'[x] \in {"committed", "in"}
    PROVE  CallInv'
<1>1. ASSUME NEW t \in Task, call[t] # NoCall
      PROVE  CallExact(t)'
  <2>1. CallExact(t)
    BY <1>1 DEF CallInv
  <2>2. call[t].target \in Task /\ pc[t] \in {"app", "in"}
    BY <2>1 DEF CallExact, IsCall, PlaceOf
  <2> QED
    BY <1>1, <2>1, <2>2, CallStays
<1> QED
  BY <1>1 DEF CallInv

\* A step of one call disturbs no other.
LEMMA ReaderCalls ==
    ASSUME Table, CallInv, NEW t \in Task, UNCHANGED <<slot, mutex, pc, cred, rev>>,
           DOMAIN call' = Task, \A x \in Task \ {t} : call'[x] = call[x],
           call'[t] = NoCall \/ CallExact(t)'
    PROVE  CallInv'
<1>1. HomesStay
  BY QuietTable
<1>2. ASSUME NEW x \in Task \ {t}, call'[x] # NoCall
      PROVE  CallExact(x)'
  <2>1. CallExact(x)
    BY <1>2 DEF CallInv
  <2> QED
    BY <1>1, <1>2, <2>1, CallStays
<1> QED
  BY <1>2 DEF CallInv

\* The task that exits is the target of calls in flight.
LEMMA ExitCalls ==
    ASSUME Table, CallInv, NEW t \in Task, Exit(t)
    PROVE  CallInv'
<1>1. HomesStay
  BY ExitTable
<1>2. call[t] = NoCall /\ pc' = [pc EXCEPT ![t] = "app"]
  BY DEF Exit, InUserMode
<1>3. \A x \in Task \ {t} : pc'[x] = pc[x]
  BY <1>2 DEF Table, TableType
<1>4. DOMAIN call' = Task
  BY DEF Exit
<1>5. ASSUME NEW x \in Task, call'[x] # NoCall
      PROVE  CallExact(x)'
  <2>1. call'[x] = IF call[x] # NoCall /\ call[x].target = t
                   THEN [call[x] EXCEPT !.gone = TRUE] ELSE call[x]
    BY DEF Exit
  <2>2. call[x] # NoCall /\ x # t
    BY <1>2, <1>5, <2>1
  <2>3. CallExact(x) /\ IsCall(call[x])
    BY <2>2 DEF CallInv, CallExact
  <2>4. CASE call[x].target # t
    <3>1. call[x].target \in Task
      BY <2>3 DEF IsCall
    <3> QED
      BY <1>1, <1>3, <2>1, <2>2, <2>3, <2>4, <3>1, CallStays
  <2>5. CASE call[x].target = t
    <3>1. call'[x] = [call[x] EXCEPT !.gone = TRUE]
      BY <2>1, <2>2, <2>5
    <3>2. /\ call'[x].kind = call[x].kind /\ call'[x].at = call[x].at /\ call'[x].q = call[x].q
          /\ call'[x].arg = call[x].arg /\ call'[x].target = call[x].target
          /\ call'[x].peer = call[x].peer /\ call'[x].verdict = call[x].verdict
          /\ call'[x].gone = TRUE /\ DOMAIN call'[x] = DOMAIN call[x]
      BY <2>3, <3>1 DEF IsCall
    <3>3. pc'[x] = pc[x]
      BY <1>3, <2>2
    <3>4. IsCall(call'[x])
      BY <2>3, <3>2 DEF IsCall
    <3>5. PlaceOf(x)' /\ PeerRead(x)' /\ ArgExact(x)'
      BY <2>3, <3>2, <3>3 DEF CallExact, PlaceOf, PeerRead, ArgExact
    <3>6. Peers(x)' <=> Peers(x)
      BY <3>2 DEF Peers
    <3>7. DoneExact(x)' /\ PeerExact(x)'
      BY <2>3, <3>2, <3>3, <3>6 DEF CallExact, DoneExact, PeerExact
    <3>8. SelfExact(x)'
      <4>1. pc[x] = "in" => (Finds(call[x].q, UidOf[x], SidOf[x]) => Finds(call[x].q, UidOf[x], SidOf[x])')
        BY <1>1, <3>2 DEF Finds, HomesStay, Member
      <4> QED
        BY <2>3, <3>2, <3>3, <4>1 DEF CallExact, SelfExact
    <3> QED
      BY <3>4, <3>5, <3>7, <3>8 DEF CallExact
  <2> QED
    BY <2>4, <2>5
<1> QED
  BY <1>4, <1>5 DEF CallInv

-----------------------------------------------------------------------------
(* The lock-free scan.                                                     *)

\* The scan of a registered identity stops at its slot.
LEMMA LoadFinds ==
    ASSUME NEW q \in Question, q.answer = "none", NEW u, NEW s, Finds(q, u, s), NEW r,
           \/ /\ r = NextSlot(q)
              /\ ~slot[q.i].allocated \/ slot[q.i].uid # q.uid \/ slot[q.i].sid # q.sid
           \/ \E f \in {"uid", "sid"} : r = [q EXCEPT !.field = f]
           \/ r = [q EXCEPT !.answer = "yes"]
    PROVE  Finds(r, u, s)
<1>1. PICK i \in Slot : Home(i, u, s) /\ q.i <= i
  BY DEF Finds
<1>2. q.i \in Nat /\ i \in Nat /\ i <= MaxInstances /\ MaxInstances \in Nat
  BY MediationConstants DEF Question, Slot
<1>3. q.uid = u /\ q.sid = s
  BY DEF Finds
<1>4. CASE /\ r = NextSlot(q)
           /\ ~slot[q.i].allocated \/ slot[q.i].uid # q.uid \/ slot[q.i].sid # q.sid
  <2>1. q.i # i
    BY <1>1, <1>3, <1>4 DEF Home
  <2>2. q.i < MaxInstances /\ q.i + 1 <= i
    BY <1>1, <1>2, <2>1
  <2>3. r = [q EXCEPT !.i = @ + 1, !.field = "allocated"]
    BY <1>4, <2>2 DEF NextSlot
  <2>4. r.uid = q.uid /\ r.sid = q.sid /\ r.answer = q.answer /\ r.i = q.i + 1
    BY <2>3 DEF Question
  <2> QED
    BY <1>1, <1>3, <2>2, <2>4 DEF Finds
<1>5. CASE \E f \in {"uid", "sid"} : r = [q EXCEPT !.field = f]
  <2>1. r.uid = q.uid /\ r.sid = q.sid /\ r.answer = q.answer /\ r.i = q.i
    BY <1>5 DEF Question
  <2> QED
    BY <1>1, <1>3, <2>1 DEF Finds
<1>6. CASE r = [q EXCEPT !.answer = "yes"]
  <2>1. r.uid = q.uid /\ r.sid = q.sid /\ r.answer = "yes"
    BY <1>6 DEF Question
  <2> QED
    BY <1>3, <2>1 DEF Finds
<1> QED
  BY <1>4, <1>5, <1>6

\* The scan stays within the table.
LEMMA LoadType ==
    ASSUME NEW q \in Question, NEW r,
           \/ r = NextSlot(q)
           \/ \E f \in {"uid", "sid"} : r = [q EXCEPT !.field = f]
           \/ r = [q EXCEPT !.answer = "yes"]
    PROVE  r \in Question
<1>1. CASE r = NextSlot(q)
  <2>1. q.i \in Slot /\ (q.i < MaxInstances => q.i + 1 \in Slot)
    BY MediationConstants DEF Question, Slot
  <2> QED
    BY <1>1, <2>1 DEF NextSlot, Question
<1> QED
  BY <1>1 DEF Question

\* What changes in a call when its question does.
LEMMA NewQuestion ==
    ASSUME NEW c, IsCall(c), NEW r \in Question, NEW d, d = [c EXCEPT !.q = r]
    PROVE  /\ IsCall(d) /\ d.q = r /\ d.kind = c.kind /\ d.at = c.at /\ d.arg = c.arg
           /\ d.target = c.target /\ d.peer = c.peer /\ d.gone = c.gone /\ d.verdict = c.verdict
<1>1. /\ d.q = r /\ d.kind = c.kind /\ d.at = c.at /\ d.arg = c.arg
      /\ d.target = c.target /\ d.peer = c.peer /\ d.gone = c.gone /\ d.verdict = c.verdict
      /\ DOMAIN d = DOMAIN c
  BY DEF IsCall
<1> QED
  BY <1>1 DEF IsCall

\* A load keeps a scan on its way to the home it looks for.
LEMMA LoadCalls ==
    ASSUME Table, CallInv, NEW t \in Task, LoadAllocated(t) \/ LoadUid(t) \/ LoadSid(t)
    PROVE  CallInv' /\ UNCHANGED <<slot, mutex, pc, cred, rev>>
<1>1. /\ call[t].kind # "none" /\ call[t].at # "done" /\ call[t].q.answer = "none"
      /\ UNCHANGED <<slot, mutex, pc, cred, rev>>
  BY DEF LoadAllocated, LoadUid, LoadSid, Load, Scanning
<1>2. PICK q : q = call[t].q
  OBVIOUS
<1>3. CallExact(t) /\ IsCall(call[t]) /\ q \in Question
  BY <1>1, <1>2, CallFacts DEF CallInv, CallExact, IsCall
<1>4. PICK r : /\ \/ /\ r = NextSlot(q)
                     /\ ~slot[q.i].allocated \/ slot[q.i].uid # q.uid \/ slot[q.i].sid # q.sid
                  \/ \E f \in {"uid", "sid"} : r = [q EXCEPT !.field = f]
                  \/ r = [q EXCEPT !.answer = "yes"]
               /\ call' = [call EXCEPT ![t].q = r]
  BY <1>2 DEF LoadAllocated, LoadUid, LoadSid, Load
<1>5. r \in Question
  BY <1>3, <1>4, LoadType
<1>6. /\ DOMAIN call' = Task /\ \A x \in Task \ {t} : call'[x] = call[x]
      /\ call'[t] = [call[t] EXCEPT !.q = r]
  BY <1>4 DEF CallInv
<1>7. /\ IsCall(call'[t]) /\ call'[t].q = r /\ call'[t].kind = call[t].kind
      /\ call'[t].at = call[t].at /\ call'[t].arg = call[t].arg
      /\ call'[t].target = call[t].target /\ call'[t].peer = call[t].peer
      /\ call'[t].gone = call[t].gone /\ call'[t].verdict = call[t].verdict
  BY <1>3, <1>5, <1>6, NewQuestion
<1>8. \A x \in Task : Finds(q, UidOf[x], SidOf[x]) => Finds(r, UidOf[x], SidOf[x])
  BY <1>1, <1>2, <1>3, <1>4, LoadFinds
<1>9. \A x \in Task : Finds(r, UidOf[x], SidOf[x]) => Finds(call[t].q, UidOf[x], SidOf[x])'
  BY <1>1, <1>7 DEF Finds, Home, Leaving
<1>10. PlaceOf(t)' /\ PeerRead(t)' /\ ArgExact(t)' /\ DoneExact(t)'
  BY <1>1, <1>3, <1>7 DEF CallExact, PlaceOf, PeerRead, ArgExact, DoneExact
<1>11. SelfExact(t)'
  BY <1>1, <1>2, <1>3, <1>7, <1>8, <1>9 DEF CallExact, SelfExact
<1>12. PeerExact(t)'
  <2>1. Peers(t)' <=> Peers(t)
    BY <1>7 DEF Peers
  <2>2. call[t].target \in Task
    BY <1>3 DEF IsCall
  <2>3. call[t].at = "peer" => (Finds(call[t].q, UidOf[call[t].target], SidOf[call[t].target])
              => Finds(call[t].q, UidOf[call[t].target], SidOf[call[t].target])')
    BY <1>2, <1>7, <1>8, <1>9, <2>2
  <2> QED
    BY <1>1, <1>3, <1>7, <2>1, <2>3 DEF CallExact, PeerExact
<1>13. CallExact(t)'
  BY <1>7, <1>10, <1>11, <1>12 DEF CallExact
<1> QED
  BY <1>1, <1>6, <1>13, ReaderCalls


-----------------------------------------------------------------------------
(* Questions and answers.                                                  *)

\* A question is one.
LEMMA QueryType ==
    ASSUME NEW u \in Ids \cup {NoUid}, NEW s \in Sids \cup {AppSid, NoSid}
    PROVE  /\ Query(u, s) \in Question /\ [Query(u, s) EXCEPT !.answer = "no"] \in Question
           /\ [Query(u, s) EXCEPT !.answer = "no"].answer = "no"
<1>1. 1 \in Slot
  BY MediationConstants DEF Slot
<1>2. Query(u, s) \in Question
  BY <1>1 DEF Query, Question
<1> QED
  BY <1>2 DEF Question

\* The question about a member of a sandbox is bound to be answered with yes.
LEMMA MemberFound ==
    ASSUME Table, NEW t \in Task, Member(t)
    PROVE  Finds(Query(UidOf[t], SidOf[t]), UidOf[t], SidOf[t])
<1>1. PICK i \in Slot : Home(i, UidOf[t], SidOf[t])
  BY DEF Table, TableInv, HasHome
<1>2. 1 <= i
  BY <1>1, MediationConstants DEF Slot
<1>3. LET q == Query(UidOf[t], SidOf[t])
      IN  q.uid = UidOf[t] /\ q.sid = SidOf[t] /\ q.i = 1 /\ q.answer = "none"
  BY DEF Query
<1> QED
  BY <1>1, <1>2, <1>3 DEF Finds

\* abk_sandbox_current begins a scan for a task in the sandbox and refuses any
\* other at once.
LEMMA AskSelf ==
    ASSUME Table, NEW t \in Task, pc[t] \in {"app", "in"}
    PROVE  /\ AskCurrent(t) \in Question
           /\ pc[t] = "in" => Finds(AskCurrent(t), UidOf[t], SidOf[t])
           /\ pc[t] # "in" => AskCurrent(t).answer = "no"
<1>1. CASE pc[t] = "in"
  <2>1. cred[t] = SandboxCred(t)
    BY <1>1 DEF Table, Creds
  <2>2. cred[t].fsuid = UidOf[t] /\ cred[t].sid = SidOf[t]
    BY <2>1 DEF SandboxCred
  <2>3. AskCurrent(t) = Query(UidOf[t], SidOf[t])
    BY <2>1, <2>2, CredFacts DEF AskCurrent
  <2>4. Query(UidOf[t], SidOf[t]) \in Question
    BY CredFacts, QueryType DEF Ids
  <2> QED
    BY <1>1, <2>3, <2>4, MemberFound DEF Member
<1>2. CASE pc[t] # "in"
  <2>1. cred[t] = AppCred(t)
    BY <1>2 DEF Table, Creds
  <2>2. cred[t].fsuid = UidOf[t] /\ cred[t].sid = AppSid
    BY <2>1 DEF AppCred
  <2>3. AskCurrent(t) = [Query(UidOf[t], AppSid) EXCEPT !.answer = "no"]
    BY <2>1, <2>2, CredFacts DEF AskCurrent
  <2> QED
    BY <1>2, <2>3, CredFacts, QueryType DEF Ids
<1> QED
  BY <1>1, <1>2

\* abk_cred_is_sandbox_peer begins a scan for a peer, and only for a peer.
LEMMA AskOther ==
    ASSUME Table, NEW t \in Task, CallExact(t), pc[t] = "in", call[t].kind \in {"trace", "grant"}
    PROVE  /\ AskPeer(t, call[t].peer) \in Question
           /\ IF Peers(t)
              THEN \/ call[t].gone
                   \/ Finds(AskPeer(t, call[t].peer), UidOf[call[t].target], SidOf[call[t].target])
              ELSE AskPeer(t, call[t].peer).answer = "no"
<1>1. PICK x \in Task : x = call[t].target
  BY DEF CallExact, IsCall
<1>2. call[t].peer \in {AppCred(x), SandboxCred(x)}
  BY <1>1 DEF CallExact, PeerRead
<1>3. cred[t].fsuid = UidOf[t]
  <2>1. cred[t] = SandboxCred(t)
    BY DEF Table, Creds
  <2> QED
    BY <2>1 DEF SandboxCred
<1>4. CASE call[t].peer = AppCred(x)
  <2>1. ~Peers(t)
    BY <1>1, <1>4, CredFacts DEF Peers
  <2>2. call[t].peer.fsuid = UidOf[x] /\ call[t].peer.sid = AppSid
    BY <1>4 DEF AppCred
  <2>3. AskPeer(t, call[t].peer) = [Query(UidOf[x], AppSid) EXCEPT !.answer = "no"]
    BY <1>4, <2>2, CredFacts DEF AskPeer
  <2> QED
    BY <2>1, <2>3, CredFacts, QueryType DEF Ids
<1>5. CASE call[t].peer = SandboxCred(x)
  <2>1. call[t].peer.fsuid = UidOf[x] /\ call[t].peer.sid = SidOf[x]
    BY <1>5 DEF SandboxCred
  <2>2. CASE UidOf[x] = UidOf[t]
    <3>1. AskPeer(t, call[t].peer) = Query(UidOf[x], SidOf[x])
      BY <1>3, <1>5, <2>1, <2>2, CredFacts DEF AskPeer
    <3>2. call[t].gone \/ Member(x)
      BY <1>1, <1>5 DEF CallExact, PeerRead, Member
    <3>3. Peers(t)
      BY <1>1, <1>5, <2>2 DEF Peers
    <3>4. Query(UidOf[x], SidOf[x]) \in Question
      BY CredFacts, QueryType DEF Ids
    <3> QED
      BY <1>1, <3>1, <3>2, <3>3, <3>4, MemberFound
  <2>3. CASE UidOf[x] # UidOf[t]
    <3>1. AskPeer(t, call[t].peer) = [Query(UidOf[x], SidOf[x]) EXCEPT !.answer = "no"]
      BY <1>3, <2>1, <2>3 DEF AskPeer
    <3>2. ~Peers(t)
      BY <1>1, <2>3 DEF Peers
    <3> QED
      BY <3>1, <3>2, CredFacts, QueryType DEF Ids
  <2> QED
    BY <2>2, <2>3
<1> QED
  BY <1>2, <1>4, <1>5

\* abk_sandbox_current is exact: it finds a task in the sandbox and no other.
LEMMA SelfAnswer ==
    ASSUME CallInv, NEW t \in Task, NEW kinds, NEW at \in {"self", "again"},
           Answered(t, kinds, at), "none" \notin kinds
    PROVE  CallExact(t) /\ call[t] # NoCall /\ (Yes(t) <=> pc[t] = "in")
<1>1. call[t].kind # "none" /\ call[t].at = at /\ call[t].q.answer # "none"
  BY DEF Answered
<1>2. CallExact(t) /\ call[t] # NoCall
  BY <1>1, CallFacts DEF CallInv
<1>3. call[t].q.answer \in {"no", "yes"}
  BY <1>1, <1>2 DEF CallExact, IsCall, Question
<1> QED
  BY <1>1, <1>2, <1>3 DEF CallExact, SelfExact, Finds, Yes

\* The hook returns what it must.
LEMMA VerdictCalls ==
    ASSUME Table, CallInv, NEW t \in Task, CallExact(t), call[t] # NoCall,
           NEW arg, NEW b \in BOOLEAN, Verdict(t, arg, b),
           call[t].kind = "socket" => (b <=> (pc[t] = "in" => SocketAllowed(arg))),
           call[t].kind = "seccomp" => (b <=> pc[t] = "in" /\ arg # "other"),
           call[t].kind = "trace" =>
                call[t].gone \/ (b <=> (pc[t] = "in" => call[t].target # t /\ Peers(t))),
           call[t].kind = "grant" => call[t].gone \/ (b <=> pc[t] = "in" /\ Peers(t)),
           call[t].kind \in {"setid", "committing_creds"} /\ b => arg = SandboxCred(t)
    PROVE  CallInv' /\ UNCHANGED <<slot, mutex, pc, cred, rev>>
<1>1. PICK r \in Question : r = Query(NoUid, NoSid)
  BY QueryType
<1>2. /\ UNCHANGED <<slot, mutex, pc, cred, rev>>
      /\ call' = [call EXCEPT ![t].at = "done", ![t].q = r, ![t].arg = arg, ![t].verdict = b]
  BY <1>1 DEF Verdict
<1>3. IsCall(call[t]) /\ DOMAIN call = Task
  BY DEF CallExact, CallInv
<1>4. /\ DOMAIN call' = Task /\ \A x \in Task \ {t} : call'[x] = call[x]
      /\ call'[t] = [call[t] EXCEPT !.at = "done", !.q = r, !.arg = arg, !.verdict = b]
  BY <1>2, <1>3
<1>5. /\ call'[t].at = "done" /\ call'[t].q = r /\ call'[t].arg = arg /\ call'[t].verdict = b
      /\ call'[t].kind = call[t].kind /\ call'[t].target = call[t].target
      /\ call'[t].peer = call[t].peer /\ call'[t].gone = call[t].gone
      /\ DOMAIN call'[t] = DOMAIN call[t]
  BY <1>3, <1>4 DEF IsCall
<1>6. IsCall(call'[t])
  BY <1>3, <1>5 DEF IsCall
<1>7. Peers(t)' <=> Peers(t)
  BY <1>5 DEF Peers
<1>8. PlaceOf(t)' /\ SelfExact(t)' /\ PeerRead(t)' /\ PeerExact(t)' /\ ArgExact(t)'
  BY <1>2, <1>5 DEF CallExact, PlaceOf, SelfExact, PeerRead, PeerExact, ArgExact
<1>9. DoneExact(t)'
  BY <1>2, <1>5, <1>7 DEF DoneExact
<1>10. CallExact(t)'
  BY <1>6, <1>8, <1>9 DEF CallExact
<1> QED
  BY <1>2, <1>4, <1>10, ReaderCalls


\* The socket and the seccomp hook.
LEMMA SocketCalls ==
    ASSUME Table, CallInv, NEW t \in Task, SocketDecide(t) \/ SeccompDecide(t)
    PROVE  CallInv' /\ UNCHANGED <<slot, mutex, pc, cred, rev>>
<1>1. CASE SocketDecide(t)
  <2>1. Answered(t, {"socket"}, "self") /\ call[t].kind = "socket"
    BY <1>1 DEF SocketDecide, Answered
  <2>2. CallExact(t) /\ call[t] # NoCall /\ (Yes(t) <=> pc[t] = "in")
    BY <2>1, SelfAnswer
  <2>3. PICK s \in Socket : Verdict(t, s, Yes(t) => SocketAllowed(s))
    BY <1>1 DEF SocketDecide
  <2>4. PICK b \in BOOLEAN : b = (Yes(t) => SocketAllowed(s))
    OBVIOUS
  <2>5. Verdict(t, s, b)
    BY <2>3, <2>4
  <2> QED
    BY <2>1, <2>2, <2>4, <2>5, VerdictCalls
<1>2. CASE SeccompDecide(t)
  <2>1. Answered(t, {"seccomp"}, "self") /\ call[t].kind = "seccomp"
    BY <1>2 DEF SeccompDecide, Answered
  <2>2. CallExact(t) /\ call[t] # NoCall /\ (Yes(t) <=> pc[t] = "in")
    BY <2>1, SelfAnswer
  <2>3. PICK nr \in {"mount", "umount2", "other"} : Verdict(t, nr, Yes(t) /\ nr \in {"mount", "umount2"})
    BY <1>2 DEF SeccompDecide
  <2>4. PICK b \in BOOLEAN : b = (Yes(t) /\ nr \in {"mount", "umount2"})
    OBVIOUS
  <2>5. Verdict(t, nr, b)
    BY <2>3, <2>4
  <2>6. b <=> pc[t] = "in" /\ nr # "other"
    BY <2>2, <2>3, <2>4
  <2> QED
    BY <2>1, <2>2, <2>5, <2>6, VerdictCalls
<1> QED
  BY <1>1, <1>2

\* A system call reaches a hook.
LEMMA EnterCalls ==
    ASSUME Table, CallInv, NEW t \in Task, NEW x \in Task, NEW kind, Enter(t, kind, x),
           kind \in {"socket", "seccomp", "trace", "grant", "setid", "creds_for_exec"},
           kind \in {"setid", "creds_for_exec"} => pc[t] = "in",
           kind = "grant" => x # t
    PROVE  CallInv' /\ UNCHANGED <<slot, mutex, pc, cred, rev>>
<1>1. /\ call[t] = NoCall /\ pc[t] \in {"app", "in"} /\ UNCHANGED <<slot, mutex, pc, cred, rev>>
      /\ call' = [call EXCEPT ![t] =
                    [kind |-> kind, at |-> "self", q |-> AskCurrent(t), arg |-> "none",
                     target |-> x, peer |-> cred[x], gone |-> FALSE, verdict |-> FALSE]]
  BY DEF Enter, InUserMode
<1>2. PICK r : r = AskCurrent(t)
  OBVIOUS
<1>3. /\ r \in Question
      /\ pc[t] = "in" => Finds(r, UidOf[t], SidOf[t])
      /\ pc[t] # "in" => r.answer = "no"
  BY <1>1, <1>2, AskSelf
<1>4. /\ DOMAIN call' = Task /\ \A y \in Task \ {t} : call'[y] = call[y]
      /\ call'[t] = [kind |-> kind, at |-> "self", q |-> r, arg |-> "none",
                     target |-> x, peer |-> cred[x], gone |-> FALSE, verdict |-> FALSE]
  BY <1>1, <1>2 DEF CallInv
<1>5. /\ call'[t].kind = kind /\ call'[t].at = "self" /\ call'[t].q = r /\ call'[t].target = x
      /\ call'[t].peer = cred[x] /\ call'[t].gone = FALSE /\ call'[t].verdict = FALSE
      /\ DOMAIN call'[t] = {"kind", "at", "q", "arg", "target", "peer", "gone", "verdict"}
  BY <1>4
<1>6. cred[x] \in Credential
  BY DEF Table, TableType
<1>7. IsCall(call'[t])
  BY <1>3, <1>5, <1>6 DEF IsCall
<1>8. PlaceOf(t)' /\ PeerExact(t)' /\ ArgExact(t)' /\ DoneExact(t)'
  BY <1>1, <1>5 DEF PlaceOf, PeerExact, ArgExact, DoneExact
<1>9. PeerRead(t)'
  BY <1>1, <1>5, CredFacts DEF PeerRead, Table, Creds
<1>10. SelfExact(t)'
  <2>1. Finds(r, UidOf[t], SidOf[t]) => Finds(call[t].q, UidOf[t], SidOf[t])'
    BY <1>1, <1>5 DEF Finds, Home, Leaving
  <2> QED
    BY <1>1, <1>3, <1>5, <2>1 DEF SelfExact
<1>11. CallExact(t)'
  BY <1>7, <1>8, <1>9, <1>10 DEF CallExact
<1> QED
  BY <1>1, <1>4, <1>11, ReaderCalls

\* The first test of abk_ptrace_access_check and abk_task_kill.
LEMMA TraceAgainCalls ==
    ASSUME Table, CallInv, NEW t \in Task, TraceAgain(t)
    PROVE  CallInv' /\ UNCHANGED <<slot, mutex, pc, cred, rev>>
<1>1. Answered(t, {"trace"}, "self") /\ call[t].kind = "trace" /\ call[t].at = "self"
  BY DEF TraceAgain, Answered
<1>2. CallExact(t) /\ IsCall(call[t]) /\ call[t] # NoCall /\ (Yes(t) <=> pc[t] = "in")
  BY <1>1, SelfAnswer DEF CallExact
<1>3. CASE ~Yes(t)
  <2>1. Verdict(t, "none", TRUE)
    BY <1>3 DEF TraceAgain
  <2> QED
    BY <1>1, <1>2, <1>3, <2>1, VerdictCalls
<1>4. CASE Yes(t)
  <2>1. UNCHANGED <<slot, mutex, pc, cred, rev>> /\ pc[t] = "in"
    BY <1>2, <1>4 DEF TraceAgain
  <2>2. PICK r : r = AskCurrent(t)
    OBVIOUS
  <2>3. r \in Question /\ Finds(r, UidOf[t], SidOf[t])
    BY <2>1, <2>2, AskSelf
  <2>4. PICK x \in Task \ {t} :
            call' = [call EXCEPT ![t].at = "again", ![t].q = r, ![t].target = x, ![t].peer = cred[x]]
    BY <1>4, <2>2 DEF TraceAgain
  <2>5. /\ DOMAIN call' = Task /\ \A y \in Task \ {t} : call'[y] = call[y]
        /\ call'[t] = [call[t] EXCEPT !.at = "again", !.q = r, !.target = x, !.peer = cred[x]]
    BY <2>4 DEF CallInv
  <2>6. /\ call'[t].kind = call[t].kind /\ call'[t].at = "again" /\ call'[t].q = r
        /\ call'[t].target = x /\ call'[t].peer = cred[x] /\ call'[t].gone = call[t].gone
        /\ call'[t].verdict = call[t].verdict /\ DOMAIN call'[t] = DOMAIN call[t]
    BY <1>2, <2>5 DEF IsCall
  <2>7. cred[x] \in Credential
    BY DEF Table, TableType
  <2>8. IsCall(call'[t])
    BY <1>2, <2>3, <2>6, <2>7 DEF IsCall
  <2>9. PlaceOf(t)' /\ PeerExact(t)' /\ ArgExact(t)' /\ DoneExact(t)'
    BY <1>1, <2>1, <2>4, <2>6 DEF PlaceOf, PeerExact, ArgExact, DoneExact
  <2>10. PeerRead(t)'
    BY <2>1, <2>6, CredFacts DEF PeerRead, Table, Creds
  <2>11. SelfExact(t)'
    <3>1. Finds(r, UidOf[t], SidOf[t]) => Finds(call[t].q, UidOf[t], SidOf[t])'
      BY <2>1, <2>6 DEF Finds, Home, Leaving
    <3> QED
      BY <2>1, <2>3, <2>6, <3>1 DEF SelfExact
  <2>12. CallExact(t)'
    BY <2>8, <2>9, <2>10, <2>11 DEF CallExact
  <2> QED
    BY <2>1, <2>5, <2>12, ReaderCalls
<1> QED
  BY <1>3, <1>4

\* The second test, of abk_ksu_sandbox_may_ptrace.
LEMMA MayPtraceCalls ==
    ASSUME Table, CallInv, NEW t \in Task, MayPtrace(t)
    PROVE  CallInv' /\ UNCHANGED <<slot, mutex, pc, cred, rev>>
<1>1. \/ Answered(t, {"trace"}, "again") /\ call[t].kind = "trace" /\ call[t].at = "again"
      \/ Answered(t, {"grant"}, "self") /\ call[t].kind = "grant" /\ call[t].at = "self"
  BY DEF MayPtrace, Answered
<1>2. CallExact(t) /\ IsCall(call[t]) /\ call[t] # NoCall /\ (Yes(t) <=> pc[t] = "in")
  BY <1>1, SelfAnswer DEF CallExact
<1>3. call[t].target # t
  BY <1>1, <1>2 DEF CallExact, PlaceOf
<1>4. CASE ~Yes(t)
  <2>1. Verdict(t, "none", FALSE)
    BY <1>4 DEF MayPtrace
  <2>2. call[t].kind = "grant"
    BY <1>1, <1>2, <1>4 DEF CallExact, SelfExact
  <2> QED
    BY <1>2, <1>4, <2>1, <2>2, VerdictCalls
<1>5. CASE Yes(t)
  <2>1. UNCHANGED <<slot, mutex, pc, cred, rev>> /\ pc[t] = "in"
    BY <1>2, <1>5 DEF MayPtrace, Ask
  <2>2. PICK r : r = AskPeer(t, call[t].peer)
    OBVIOUS
  <2>3. /\ r \in Question
        /\ IF Peers(t) THEN call[t].gone \/ Finds(r, UidOf[call[t].target], SidOf[call[t].target])
           ELSE r.answer = "no"
    BY <1>1, <1>2, <2>1, <2>2, AskOther
  <2>4. call' = [call EXCEPT ![t].at = "peer", ![t].q = r]
    BY <1>5, <2>2 DEF MayPtrace, Ask
  <2>5. /\ DOMAIN call' = Task /\ \A y \in Task \ {t} : call'[y] = call[y]
        /\ call'[t] = [call[t] EXCEPT !.at = "peer", !.q = r]
    BY <2>4 DEF CallInv
  <2>6. /\ call'[t].kind = call[t].kind /\ call'[t].at = "peer" /\ call'[t].q = r
        /\ call'[t].target = call[t].target /\ call'[t].peer = call[t].peer
        /\ call'[t].gone = call[t].gone /\ call'[t].verdict = call[t].verdict
        /\ DOMAIN call'[t] = DOMAIN call[t]
    BY <1>2, <2>5 DEF IsCall
  <2>7. IsCall(call'[t])
    BY <1>2, <2>3, <2>6 DEF IsCall
  <2>8. PlaceOf(t)' /\ SelfExact(t)' /\ PeerRead(t)' /\ ArgExact(t)' /\ DoneExact(t)'
    BY <1>1, <1>2, <1>3, <2>1, <2>6 DEF CallExact, PlaceOf, SelfExact, PeerRead, ArgExact, DoneExact
  <2>9. PeerExact(t)'
    <3>1. PICK x : x = call[t].target
      OBVIOUS
    <3>2. Finds(r, UidOf[x], SidOf[x]) => Finds(call[t].q, UidOf[x], SidOf[x])'
      BY <2>1, <2>6 DEF Finds, Home, Leaving
    <3>3. Peers(t)' <=> Peers(t)
      BY <2>6 DEF Peers
    <3> QED
      BY <1>3, <2>1, <2>3, <2>6, <3>1, <3>2, <3>3 DEF PeerExact
  <2>10. CallExact(t)'
    BY <2>7, <2>8, <2>9 DEF CallExact
  <2> QED
    BY <2>1, <2>5, <2>10, ReaderCalls
<1> QED
  BY <1>4, <1>5

\* The answer about the target.
LEMMA PeerDecideCalls ==
    ASSUME Table, CallInv, NEW t \in Task, PeerDecide(t)
    PROVE  CallInv' /\ UNCHANGED <<slot, mutex, pc, cred, rev>>
<1>1. call[t].kind \in {"trace", "grant"} /\ call[t].at = "peer" /\ call[t].q.answer # "none"
  BY DEF PeerDecide, Answered
<1>2. CallExact(t) /\ IsCall(call[t]) /\ call[t] # NoCall
  BY <1>1, CallFacts DEF CallInv, CallExact
<1>3. pc[t] = "in" /\ call[t].target # t
  BY <1>1, <1>2 DEF CallExact, PeerExact
<1>4. call[t].q.answer \in {"no", "yes"}
  BY <1>1, <1>2 DEF IsCall, Question
<1>5. call[t].gone \/ (Yes(t) <=> Peers(t))
  BY <1>1, <1>2, <1>4 DEF CallExact, PeerExact, Finds, Yes
<1>6. PICK b \in BOOLEAN : b = Yes(t)
  BY DEF Yes
<1>7. Verdict(t, "none", b)
  BY <1>6 DEF PeerDecide
<1> QED
  BY <1>1, <1>2, <1>3, <1>5, <1>6, <1>7, VerdictCalls


-----------------------------------------------------------------------------
(* set*id and execve.                                                      *)

\* Two credentials with the same fields are the same.
LEMMA SameCred ==
    ASSUME NEW n \in Credential, NEW o \in Credential, SameIds(n, o),
           n.groups = o.groups, n.caps = o.caps, n.locked = o.locked, n.sid = o.sid
    PROVE  n = o
BY DEF Credential, SameIds

\* Of what set*id proposes, the only one that changes no ID changes nothing.
LEMMA ProposalSame ==
    ASSUME NEW o \in Credential, NEW n \in Proposals(o), SameIds(n, o)
    PROVE  n = o
<1>1. o.uid \in Ids /\ o.euid \in Ids /\ o.suid \in Ids
  BY DEF Credential
<1>2. CASE \E a, b, d \in {o.uid, o.euid, o.suid} :
              n = [o EXCEPT !.uid = a, !.euid = b, !.suid = d, !.fsuid = b]
  <2>1. PICK a, b, d \in {o.uid, o.euid, o.suid} :
              n = [o EXCEPT !.uid = a, !.euid = b, !.suid = d, !.fsuid = b]
    BY <1>2
  <2>2. a \in Ids /\ b \in Ids /\ d \in Ids
    BY <1>1, <2>1
  <2>3. /\ n \in Credential /\ n.groups = o.groups /\ n.caps = o.caps
        /\ n.locked = o.locked /\ n.sid = o.sid
    BY <2>1, <2>2 DEF Credential
  <2> QED
    BY <2>3, SameCred
<1>3. CASE \E a \in {o.uid, o.euid, o.suid} : n = [o EXCEPT !.fsuid = a]
  <2>1. PICK a \in {o.uid, o.euid, o.suid} : n = [o EXCEPT !.fsuid = a]
    BY <1>3
  <2>2. a \in Ids
    BY <1>1, <2>1
  <2>3. /\ n \in Credential /\ n.groups = o.groups /\ n.caps = o.caps
        /\ n.locked = o.locked /\ n.sid = o.sid
    BY <2>1, <2>2 DEF Credential
  <2> QED
    BY <2>3, SameCred
<1>4. CASE n = [o EXCEPT !.gids = "moved"]
  <2>1. /\ n \in Credential /\ n.groups = o.groups /\ n.caps = o.caps
        /\ n.locked = o.locked /\ n.sid = o.sid
    BY <1>4 DEF Credential
  <2> QED
    BY <2>1, SameCred
<1> QED
  BY <1>2, <1>3, <1>4 DEF Proposals

\* set*id of a sandboxed task may only change nothing.
LEMMA SetIdsCalls ==
    ASSUME Table, CallInv, NEW t \in Task, SetIdsDecide(t)
    PROVE  CallInv' /\ UNCHANGED <<slot, mutex, pc, cred, rev>>
<1>1. Answered(t, {"setid"}, "self") /\ call[t].kind = "setid"
  BY DEF SetIdsDecide, Answered
<1>2. CallExact(t) /\ call[t] # NoCall /\ (Yes(t) <=> pc[t] = "in")
  BY <1>1, SelfAnswer
<1>3. pc[t] = "in" /\ cred[t] = SandboxCred(t)
  BY <1>1, <1>2 DEF CallExact, ArgExact, Table, Creds
<1>4. PICK n \in Proposals(cred[t]) :
        IF Yes(t) /\ ~SameIds(n, cred[t]) THEN Verdict(t, "none", FALSE) ELSE Verdict(t, n, TRUE)
  BY DEF SetIdsDecide
<1>5. CASE ~SameIds(n, cred[t])
  <2>1. Verdict(t, "none", FALSE)
    BY <1>2, <1>3, <1>4, <1>5
  <2> QED
    BY <1>1, <1>2, <2>1, VerdictCalls
<1>6. CASE SameIds(n, cred[t])
  <2>1. Verdict(t, n, TRUE)
    BY <1>4, <1>6
  <2>2. n = SandboxCred(t)
    BY <1>3, <1>6, CredFacts, ProposalSame
  <2> QED
    BY <1>1, <1>2, <2>1, <2>2, VerdictCalls
<1> QED
  BY <1>5, <1>6

\* The kernel goes on from one hook of an execve to the next.
LEMMA NextHook ==
    ASSUME Table, CallInv, NEW t \in Task, CallExact(t), pc[t] = "in", call[t].at = "self",
           UNCHANGED <<slot, mutex, pc, cred, rev>>, NEW kind, NEW arg,
           \/ kind = "check_security" /\ arg \in Credential
           \/ kind = "committing_creds" /\ arg = SandboxCred(t),
           DOMAIN call' = Task, \A y \in Task \ {t} : call'[y] = call[y],
           call'[t] = [call[t] EXCEPT !.kind = kind, !.q = AskCurrent(t), !.arg = arg]
    PROVE  CallInv'
<1>1. PICK r : r = AskCurrent(t)
  OBVIOUS
<1>2. r \in Question /\ Finds(r, UidOf[t], SidOf[t])
  BY <1>1, AskSelf
<1>3. IsCall(call[t])
  BY DEF CallExact
<1>4. /\ call'[t].kind = kind /\ call'[t].at = "self" /\ call'[t].q = r /\ call'[t].arg = arg
      /\ call'[t].target = call[t].target /\ call'[t].peer = call[t].peer
      /\ call'[t].gone = call[t].gone /\ call'[t].verdict = call[t].verdict
      /\ DOMAIN call'[t] = DOMAIN call[t]
  BY <1>1, <1>3 DEF IsCall
<1>5. IsCall(call'[t])
  BY <1>2, <1>3, <1>4 DEF IsCall
<1>6. PlaceOf(t)' /\ PeerRead(t)' /\ PeerExact(t)' /\ ArgExact(t)' /\ DoneExact(t)'
  BY <1>4 DEF PlaceOf, PeerRead, PeerExact, ArgExact, DoneExact
<1>7. SelfExact(t)'
  <2>1. Finds(call[t].q, UidOf[t], SidOf[t])'
    BY <1>2, <1>4 DEF Finds, Home, Leaving
  <2> QED
    BY <2>1 DEF SelfExact
<1>8. CallExact(t)'
  BY <1>5, <1>6, <1>7 DEF CallExact
<1> QED
  BY <1>8, ReaderCalls

\* bprm_creds_for_exec
LEMMA CredsForExecCalls ==
    ASSUME Table, CallInv, NEW t \in Task, CredsForExec(t)
    PROVE  CallInv' /\ UNCHANGED <<slot, mutex, pc, cred, rev>>
<1>1. /\ Answered(t, {"creds_for_exec"}, "self") /\ call[t].kind = "creds_for_exec"
      /\ call[t].at = "self" /\ UNCHANGED <<slot, mutex, pc, cred, rev>>
  BY DEF CredsForExec, Answered
<1>2. CallExact(t) /\ IsCall(call[t]) /\ (Yes(t) <=> pc[t] = "in")
  BY <1>1, SelfAnswer DEF CallExact
<1>3. pc[t] = "in" /\ cred[t] \in Credential /\ DOMAIN call = Task
  BY <1>1, <1>2 DEF CallExact, ArgExact, Table, TableType, CallInv
<1>4. PICK n \in Prepared(cred[t]) :
        call' = [call EXCEPT
                    ![t].kind = "check_security", ![t].q = AskCurrent(t),
                    ![t].arg = IF Yes(t) THEN [n EXCEPT !.fsuid = cred[t].fsuid, !.caps = FALSE]
                                         ELSE n]
  BY DEF CredsForExec
<1>5. n \in Credential
  BY <1>3 DEF Prepared, Credential, Ids
<1>6. PICK arg : arg = [n EXCEPT !.fsuid = cred[t].fsuid, !.caps = FALSE]
  OBVIOUS
<1>7. arg \in Credential
  BY <1>3, <1>5, <1>6 DEF Credential
<1>8. call' = [call EXCEPT ![t].kind = "check_security", ![t].q = AskCurrent(t), ![t].arg = arg]
  BY <1>2, <1>3, <1>4, <1>6
<1>9. /\ DOMAIN call' = Task /\ \A y \in Task \ {t} : call'[y] = call[y]
      /\ call'[t] = [call[t] EXCEPT !.kind = "check_security", !.q = AskCurrent(t), !.arg = arg]
  BY <1>3, <1>8
<1> QED
  BY <1>1, <1>2, <1>3, <1>7, <1>9, NextHook

\* bprm_check_security lets only the sandbox credential pass.
LEMMA CheckSecurityCalls ==
    ASSUME Table, CallInv, NEW t \in Task, CheckSecurity(t)
    PROVE  CallInv' /\ UNCHANGED <<slot, mutex, pc, cred, rev>>
<1>1. /\ Answered(t, {"check_security"}, "self") /\ call[t].kind = "check_security"
      /\ call[t].at = "self"
  BY DEF CheckSecurity, Answered
<1>2. CallExact(t) /\ IsCall(call[t]) /\ call[t] # NoCall /\ (Yes(t) <=> pc[t] = "in")
  BY <1>1, SelfAnswer DEF CallExact
<1>3. /\ pc[t] = "in" /\ cred[t] = SandboxCred(t) /\ DOMAIN call = Task
      /\ call[t].arg \in Credential
  BY <1>1, <1>2 DEF CallExact, ArgExact, Table, Creds, CallInv
<1>4. CASE ~ExecCredOk(call[t].arg, cred[t])
  <2>1. Verdict(t, "none", FALSE)
    BY <1>2, <1>3, <1>4 DEF CheckSecurity
  <2> QED
    BY <1>1, <1>2, <2>1, VerdictCalls
<1>5. CASE ExecCredOk(call[t].arg, cred[t])
  <2>1. /\ call' = [call EXCEPT ![t].kind = "committing_creds", ![t].q = AskCurrent(t)]
        /\ UNCHANGED <<slot, mutex, pc, cred, rev>>
    BY <1>5 DEF CheckSecurity
  <2>2. /\ DOMAIN call' = Task /\ \A y \in Task \ {t} : call'[y] = call[y]
        /\ call'[t] = [call[t] EXCEPT !.kind = "committing_creds", !.q = AskCurrent(t)]
    BY <1>3, <2>1
  <2>3. call[t].arg = SandboxCred(t)
    <3>1. /\ SandboxCred(t).groups = FALSE /\ SandboxCred(t).caps = FALSE
          /\ SandboxCred(t) \in Credential
      BY CredFacts DEF SandboxCred
    <3>2. PICK n \in Credential : n = call[t].arg
      BY <1>3
    <3>3. n.groups \in BOOLEAN /\ n.caps \in BOOLEAN
      BY DEF Credential
    <3>4. /\ SameIds(n, SandboxCred(t)) /\ n.groups = FALSE /\ n.caps = FALSE
          /\ n.locked = SandboxCred(t).locked /\ n.sid = SandboxCred(t).sid
      BY <1>3, <1>5, <3>2, <3>3 DEF ExecCredOk
    <3> QED
      BY <3>1, <3>2, <3>4, SameCred
  <2>4. call'[t] = [call[t] EXCEPT !.kind = "committing_creds", !.q = AskCurrent(t), !.arg = call[t].arg]
    BY <1>2, <2>2 DEF IsCall
  <2> QED
    BY <1>1, <1>2, <1>3, <2>1, <2>2, <2>3, <2>4, NextHook
<1> QED
  BY <1>4, <1>5

\* bprm_committing_creds restores it after bprm_creds_from_file.
LEMMA CommittingCalls ==
    ASSUME Table, CallInv, NEW t \in Task, CommittingCreds(t)
    PROVE  CallInv' /\ UNCHANGED <<slot, mutex, pc, cred, rev>>
<1>1. /\ Answered(t, {"committing_creds"}, "self") /\ call[t].kind = "committing_creds"
      /\ call[t].at = "self"
  BY DEF CommittingCreds, Answered
<1>2. CallExact(t) /\ call[t] # NoCall /\ (Yes(t) <=> pc[t] = "in")
  BY <1>1, SelfAnswer
<1>3. pc[t] = "in" /\ cred[t] = SandboxCred(t) /\ call[t].arg = SandboxCred(t)
  BY <1>1, <1>2 DEF CallExact, ArgExact, Table, Creds
<1>4. PICK n \in FromFile(SandboxCred(t)) : Verdict(t, Canonical(n, SandboxCred(t)), TRUE)
  BY <1>2, <1>3 DEF CommittingCreds
<1>5. Canonical(n, SandboxCred(t)) = SandboxCred(t)
  <2>1. PICK o \in Credential : o = SandboxCred(t)
    BY CredFacts
  <2>2. /\ o.uid = UidOf[t] /\ o.euid = Root /\ o.suid = UidOf[t] /\ o.fsuid = UidOf[t]
        /\ o.gids = "sandbox" /\ o.caps = FALSE /\ o.locked = TRUE
    BY <2>1 DEF SandboxCred
  <2>3. n \in Credential /\ n.groups = o.groups /\ n.sid = o.sid
    BY <1>4, <2>1 DEF FromFile, Credential, Ids
  <2>4. PICK r : r = Canonical(n, o)
    OBVIOUS
  <2>5. /\ r \in Credential /\ r.uid = UidOf[t] /\ r.euid = Root /\ r.suid = UidOf[t]
        /\ r.fsuid = UidOf[t] /\ r.gids = "sandbox" /\ r.caps = FALSE /\ r.locked = TRUE
        /\ r.groups = n.groups /\ r.sid = n.sid
    BY <2>2, <2>3, <2>4, CredFacts DEF Canonical, Credential, Ids
  <2>6. r = o
    BY <2>2, <2>3, <2>5, SameCred DEF SameIds
  <2> QED
    BY <2>1, <2>4, <2>6
<1> QED
  BY <1>1, <1>2, <1>4, <1>5, VerdictCalls

\* The credential a system call commits is the one the task has.
LEMMA ReturnCalls ==
    ASSUME Table, CallInv, NEW t \in Task, Return(t)
    PROVE  CallInv' /\ UNCHANGED <<slot, mutex, pc, cred, rev>>
<1>1. CallExact(t) /\ call[t].at = "done" /\ UNCHANGED <<slot, mutex, pc, rev>>
  BY DEF Return, CallInv
<1>2. UNCHANGED cred
  <2>1. CASE call[t].verdict /\ call[t].kind \in {"setid", "committing_creds"}
    <3>1. call[t].arg = cred[t]
      BY <1>1, <2>1 DEF CallExact, ArgExact, Table, Creds
    <3> QED
      BY <2>1, <3>1 DEF Return, Table, TableType
  <2> QED
    BY <2>1 DEF Return
<1>3. DOMAIN call' = Task /\ call'[t] = NoCall /\ \A x \in Task \ {t} : call'[x] = call[x]
  BY DEF Return, CallInv
<1> QED
  BY <1>1, <1>2, <1>3, ReaderCalls


-----------------------------------------------------------------------------
(* The theorems.                                                           *)

\* At boot the table is empty and every task an app.
LEMMA MedInit ==
    ASSUME Init
    PROVE  MedInv
<1>1. /\ \A i \in Slot : slot[i] = FreeSlot
      /\ \A t \in Task : pc[t] = "app" /\ cred[t] = AppCred(t) /\ call[t] = NoCall
      /\ \A u \in Uids : rev[u] = NoRequest
      /\ mutex = Unlocked /\ DOMAIN call = Task
  BY DEF Init
<1>2. /\ FreeSlot \in Instance /\ FreeSlot.allocated = FALSE /\ FreeSlot.entrants = 0
      /\ FreeSlot.ready = FALSE /\ FreeSlot.revoking = FALSE
  BY DEF FreeSlot, Instance
<1>3. NoRequest \in Request /\ NoRequest.at = "idle"
  BY DEF NoRequest, Request
<1>4. TableType
  <2>1. cred \in [Task -> Credential]
    BY CredFacts DEF Init
  <2>2. slot \in [Slot -> Instance] /\ rev \in [Uids -> Request]
    BY <1>2, <1>3 DEF Init
  <2> QED
    BY <2>1, <2>2 DEF Init, TableType
<1>5. Creds
  BY <1>1 DEF Creds
<1>6. HasHome /\ OneSlot /\ CountExact
  BY <1>1, <1>2 DEF HasHome, OneSlot, CountExact, Member
<1>7. LockState
  BY <1>1, <1>2 DEF LockState, Locked
<1>8. ScanQuiet
  BY <1>1, <1>3 DEF ScanQuiet
<1> QED
  BY <1>1, <1>4, <1>5, <1>6, <1>7, <1>8 DEF MedInv, Table, TableInv, CallInv

\* The writers of the table and the credentials.
LEMMA MedWriters ==
    ASSUME MedInv,
           \/ \E f \in {"uid", "sid"} : Store(f)
           \/ PublishReserved \/ Create \/ CreateFails \/ PublishReleased
           \/ \E u \in Uids : \/ RevokeMark(u) \/ RevokeDetach(u) \/ Retry(u) \/ Release(u)
                              \/ \E t \in Task : KillScan(u, t)
           \/ \E t \in Task : \/ Join(t) \/ Reserve(t) \/ CommitCreds(t) \/ EntryComplete(t)
                              \/ \E c \in Task : Fork(t, c)
    PROVE  MedInv'
<1>1. Table /\ CallInv
  BY DEF MedInv
<1>2. Table' /\ HomesStay
  BY <1>1, StoreTable, PublishReservedTable, CreateTable, CreateFailsTable, PublishReleasedTable,
     RevokedTable, WorkerTable, ReleaseTable, JoinTable, ReserveTable, CommitCredsTable,
     EntryCompleteTable, ForkTable
<1>3. UNCHANGED call
  BY DEF Store, PublishReserved, Create, CreateFails, PublishReleased, RevokeMark, RevokeDetach,
         Retry, Release, ReleaseSlot, KillScan, Join, Reserve, CommitCreds, EntryComplete, Fork
<1>4. /\ \A x \in Task : call[x] # NoCall /\ pc[x] \in {"app", "in"} => pc'[x] = pc[x]
      /\ \A x \in Task : pc[x] \in {"committed", "in"} => pc'[x] \in {"committed", "in"}
  <2>1. pc \in [Task -> {"app", "reserving", "entered", "committed", "in"}]
    BY <1>1 DEF Table, TableType
  <2>2. CASE UNCHANGED pc
    BY <2>2
  <2>3. CASE Create \/ CreateFails
    BY <2>1, <2>3 DEF Create, CreateFails
  <2>4. CASE \E t \in Task : Join(t) \/ Reserve(t) \/ \E c \in Task : Fork(t, c)
    BY <2>1, <2>4 DEF Join, Reserve, Fork, InUserMode
  <2>5. CASE \E t \in Task : CommitCreds(t) \/ EntryComplete(t)
    BY <2>1, <2>5 DEF CommitCreds, EntryComplete
  <2> QED
    BY <2>2, <2>3, <2>4, <2>5 DEF Store, PublishReserved, PublishReleased, RevokeMark,
       RevokeDetach, Retry, Release, ReleaseSlot, KillScan
<1> QED
  BY <1>1, <1>2, <1>3, <1>4, WriterCalls DEF MedInv

\* The hooks and the system calls that end in them.
LEMMA MedReaders ==
    ASSUME MedInv, NEW t \in Task,
           \/ LoadAllocated(t) \/ LoadUid(t) \/ LoadSid(t)
           \/ SocketCreate(t) \/ SocketDecide(t) \/ SeccompAllow(t) \/ SeccompDecide(t)
           \/ Trace(t) \/ Grant(t) \/ TraceAgain(t) \/ MayPtrace(t) \/ PeerDecide(t)
           \/ SetIds(t) \/ SetIdsDecide(t)
           \/ ExecBegin(t) \/ CredsForExec(t) \/ CheckSecurity(t) \/ CommittingCreds(t)
           \/ Return(t)
    PROVE  MedInv'
<1>1. Table /\ CallInv
  BY DEF MedInv
<1>2. CASE SocketCreate(t) \/ SeccompAllow(t) \/ Trace(t)
  BY <1>1, <1>2, EnterCalls, QuietTable DEF SocketCreate, SeccompAllow, Trace, MedInv
<1>3. CASE Grant(t)
  BY <1>1, <1>3, EnterCalls, QuietTable DEF Grant, MedInv
<1>4. CASE SetIds(t) \/ ExecBegin(t)
  BY <1>1, <1>4, EnterCalls, QuietTable DEF SetIds, ExecBegin, MedInv
<1>5. CASE LoadAllocated(t) \/ LoadUid(t) \/ LoadSid(t)
  BY <1>1, <1>5, LoadCalls, QuietTable DEF MedInv
<1>6. CASE \/ SocketDecide(t) \/ SeccompDecide(t) \/ TraceAgain(t) \/ MayPtrace(t) \/ PeerDecide(t)
           \/ SetIdsDecide(t) \/ CredsForExec(t) \/ CheckSecurity(t) \/ CommittingCreds(t) \/ Return(t)
  <2>1. CallInv' /\ UNCHANGED <<slot, mutex, pc, cred, rev>>
    BY <1>1, <1>6, SocketCalls, TraceAgainCalls, MayPtraceCalls, PeerDecideCalls, SetIdsCalls,
       CredsForExecCalls, CheckSecurityCalls, CommittingCalls, ReturnCalls
  <2> QED
    BY <1>1, <2>1, QuietTable DEF MedInv
<1> QED
  BY <1>2, <1>3, <1>4, <1>5, <1>6

\* Every step keeps the invariant.
LEMMA MedStep ==
    ASSUME MedInv, [Next]_vars
    PROVE  MedInv'
<1>1. CASE UNCHANGED vars
  <2>1. UNCHANGED <<slot, mutex, pc, cred, rev>> /\ UNCHANGED call
    BY <1>1 DEF vars
  <2>2. Table' /\ HomesStay
    BY <2>1, QuietTable DEF MedInv
  <2> QED
    BY <2>1, <2>2, WriterCalls DEF MedInv
<1>2. CASE \E t \in Task : Exit(t)
  BY <1>2, ExitTable, ExitCalls DEF MedInv
<1>3. CASE Next /\ ~\E t \in Task : Exit(t)
  BY <1>3, MedWriters, MedReaders DEF Next
<1> QED
  BY <1>1, <1>2, <1>3

\* The invariant behind both theorems: the table names the sandbox of every
\* task in it, and every scan is bound to find it.
THEOREM TableNamesMembers == Spec => []MedInv
<1>1. Init => MedInv
  BY MedInit
<1>2. MedInv /\ [Next]_vars => MedInv'
  BY MedStep
<1> QED
  BY <1>1, <1>2, PTL DEF Spec

\* Every variable keeps its type.
THEOREM MediationTypes == Spec => []TypeOK
<1>1. MedInv => TypeOK
  BY DEF MedInv, Table, TableType, CallInv, CallExact, TypeOK
<1> QED
  BY <1>1, TableNamesMembers, PTL

\* A task in the sandbox keeps the sandbox credential of its UID, whatever it
\* execs or sets its IDs to, wherever a revocation falls between the hooks.
THEOREM CredentialKept == Spec => []SandboxKept
<1>1. MedInv => SandboxKept
  BY DEF MedInv, Table, Creds, SandboxKept
<1> QED
  BY <1>1, TableNamesMembers, PTL

\* Every hook answers a sandboxed task, and any other, as it must, although it
\* reads the table without the mutex.
THEOREM HooksExact == Spec => []MediationExact
<1>1. MedInv => MediationExact
  <2>1. SUFFICES ASSUME MedInv, NEW t \in Task, call[t] # NoCall, call[t].at = "done"
                 PROVE  LET in == pc[t] = "in"
                            c == call[t]
                        IN CASE c.kind = "socket" -> c.verdict = (in => SocketAllowed(c.arg))
                             [] c.kind = "seccomp" -> c.verdict = (in /\ c.arg # "other")
                             [] c.kind = "trace" -> c.gone \/ c.verdict = (in => c.target # t /\ Peers(t))
                             [] c.kind = "grant" -> c.gone \/ c.verdict = (in /\ Peers(t))
                             [] OTHER -> TRUE
    BY DEF MediationExact
  <2>2. CallExact(t)
    BY <2>1 DEF MedInv, CallInv
  <2>3. call[t].verdict \in BOOLEAN
    BY <2>2 DEF CallExact, IsCall
  <2> QED
    BY <2>1, <2>2, <2>3 DEF CallExact, DoneExact
<1> QED
  BY <1>1, TableNamesMembers, PTL
=============================================================================
