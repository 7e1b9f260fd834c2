------------------------ MODULE SandboxPolicy_proofs ------------------------
(***************************************************************************)
(* The policy writers for any number of apps, threads, readers and policy  *)
(* objects: no reader is left in a destroyed policy, no writer loses the   *)
(* types of another, and the mark of the module's own types is exact.      *)
(*                                                                         *)
(* The argument: what a writer has read and copied under policy_mutex is   *)
(* not changed by anyone until it unlocks (OneHolder, Snapshot); the       *)
(* readers of the old policy are the ones synchronize_rcu waits for        *)
(* (Grace); and a copy differs from the policy by what its writer adds     *)
(* (Contents).                                                             *)
(***************************************************************************)
EXTENDS SandboxPolicy, FiniteSetTheorems, TLAPS

Busy(c) == w[c].at \in {"check", "edit", "sync", "destroy"}

\* A writer is past mutex_lock exactly while it holds the mutex.
OneHolder == \A c \in Writer : Busy(c) <=> mutex = c

\* The policy is the one the holder has read until it publishes its copy,
\* which is nobody else's until then.
Snapshot(c) ==
    /\ w[c].at \in {"check", "edit"} => w[c].old = policy
    /\ w[c].at = "edit" =>
            w[c].new \in Policy \ freed /\ w[c].new # policy
            /\ \A r \in Reader : reading[r] # w[c].new
    /\ w[c].at \in {"sync", "destroy"} =>
            policy \in Policy /\ policy = w[c].new /\ w[c].old # policy

\* Whoever reads the replaced policy is waited for.
Grace(c) ==
    \A r \in Reader : reading[r] = w[c].old /\ reading[r] # NoPolicy =>
        /\ w[c].at = "sync" => r \in w[c].wait
        /\ w[c].at # "destroy"

\* What the copy contains before it is published.
Contents(c) ==
    /\ Foreign \subseteq types[w[c].new]
    /\ types[w[c].new] \subseteq owned \cup Foreign \cup {w[c].app}
    /\ IF c \in Ensurer THEN w[c].app \in types[w[c].new]
       ELSE types[w[c].new] \subseteq owned \cup Foreign
    /\ c = Applier \/ (c \in Ensurer /\ ~stale) => owned \subseteq types[w[c].new]

\* A type that is being made is the module's to make.
Claim(c) ==
    /\ w[c].at # "idle" => w[c].app \in AppId
    /\ w[c].at \in {"edit", "sync", "destroy"} =>
            w[c].app \notin Foreign /\ Cardinality(owned) < MaxTypes
    /\ w[c].at \in {"sync", "destroy"} => w[c].app \in types[policy]

\* What the kernel's policy contains; the type of an ensurer that has
\* published its copy is not marked yet.
Present ==
    policy # NoPolicy =>
        /\ Foreign \subseteq types[policy]
        /\ ~stale => owned \subseteq types[policy]
        /\ \A a \in types[policy] :
              \/ a \in owned \cup Foreign
              \/ \E c \in Ensurer : w[c].at \in {"sync", "destroy"} /\ w[c].app = a

MemoryInv ==
    /\ policy \notin freed
    /\ NoReadOfFreedPolicy
    /\ \A c \in Writer : Snapshot(c) /\ Grace(c)

TypesInv ==
    /\ owned \cap Foreign = {}
    /\ OwnedWithinLimit
    /\ Present
    /\ \A c \in Ensurer : Claim(c)
    /\ \A c \in Writer : w[c].at = "edit" => Contents(c)

PolicyInv == TypeOK /\ OneHolder /\ MemoryInv /\ TypesInv

-----------------------------------------------------------------------------
(* Steps of a writer.                                                      *)

LEMMA WriterFields ==
    ASSUME TypeOK, NEW c \in Writer
    PROVE  /\ w[c] \in WriterState
           /\ w[c].app \in AppId \cup {NoApp} /\ w[c].old \in Policy \cup {NoPolicy}
           /\ w[c].new \in Policy \cup {NoPolicy} /\ w[c].wait \subseteq Reader
           /\ w[c].at \in {"idle", "lock", "check", "edit", "sync", "destroy"}
<1>1. w[c] \in WriterState
  BY DEF TypeOK
<1> QED
  BY <1>1 DEF WriterState

LEMMA ResultTyped ==
    ASSUME NEW res \in {"none", "ok", "EEXIST", "ENOSPC", "error"}
    PROVE  /\ [IdleWriter EXCEPT !.result = res] \in WriterState
           /\ [IdleWriter EXCEPT !.result = res].at = "idle"
BY DEF IdleWriter, WriterState

\* A writer that is not past the lock claims nothing about the policy.
LEMMA QuietWriter ==
    ASSUME NEW c, ~Busy(c)'
    PROVE  Snapshot(c)' /\ Grace(c)' /\ (w[c].at = "edit" => Contents(c))'
BY DEF Busy, Snapshot, Grace

\* An exit from the critical section that leaves the policy alone; what it
\* destroys is neither the policy nor read by anyone.
LEMMA UnlockKeeps ==
    ASSUME PolicyInv, NEW c \in Writer, Busy(c),
           NEW res \in {"none", "ok", "EEXIST", "ENOSPC", "error"}, Unlock(c, res),
           w[c].at \notin {"sync", "destroy"},
           NEW F \in SUBSET Policy, freed' = freed \cup F,
           policy \notin F, \A r \in Reader : reading[r] \notin F,
           UNCHANGED <<policy, types, owned, stale, reading>>
    PROVE  PolicyInv'
<1>1. TypeOK /\ OneHolder /\ MemoryInv /\ TypesInv /\ mutex = c
  BY DEF PolicyInv, OneHolder
<1>2. /\ mutex' = NoOne
      /\ w' \in [Writer -> WriterState]
      /\ w'[c].at = "idle"
      /\ \A d \in Writer \ {c} : w'[d] = w[d]
  <2>1. w \in [Writer -> WriterState]
    BY <1>1 DEF TypeOK
  <2>2. [IdleWriter EXCEPT !.result = res] \in WriterState
    BY ResultTyped
  <2>3. [IdleWriter EXCEPT !.result = res].at = "idle"
    BY ResultTyped
  <2> QED
    BY <2>1, <2>2, <2>3 DEF Unlock
<1>3. \A d \in Writer : ~Busy(d)'
  BY <1>1, <1>2 DEF Busy, OneHolder
<1>4. TypeOK'
  BY <1>1, <1>2 DEF TypeOK
<1>5. OneHolder'
  BY <1>2, <1>3, PolicyConstants DEF OneHolder
<1>6. MemoryInv'
  BY <1>1, <1>3, QuietWriter DEF MemoryInv, NoReadOfFreedPolicy
<1>7. TypesInv'
  <2>1. \A d \in Ensurer : Claim(d)'
    BY <1>1, <1>2 DEF TypesInv, Claim, Writer
  <2>2. Present'
    <3>1. \A d \in Writer : w[d].at \notin {"sync", "destroy"}
      BY <1>1 DEF OneHolder, Busy
    <3> QED
      BY <1>1, <3>1 DEF TypesInv, Present, Writer
  <2>3. OwnedWithinLimit' /\ (owned \cap Foreign = {})'
    BY <1>1 DEF TypesInv, OwnedWithinLimit
  <2> QED
    BY <1>3, <2>1, <2>2, <2>3, QuietWriter DEF TypesInv
<1> QED
  BY <1>4, <1>5, <1>6, <1>7 DEF PolicyInv

\* The call and the lock.
LEMMA CallKeeps ==
    ASSUME PolicyInv,
           (\E c \in Ensurer, a \in AppId : EnsureCall(c, a)) \/ (\E c \in Writer : OtherCall(c))
    PROVE  PolicyInv'
<1>1. TypeOK /\ OneHolder /\ MemoryInv /\ TypesInv
  BY DEF PolicyInv
<1>2. PICK c \in Writer, x \in WriterState :
        /\ w[c].at = "idle" /\ x.at = "lock"
        /\ c \in Ensurer => x.app \in AppId
        /\ w' = [w EXCEPT ![c] = x]
        /\ UNCHANGED <<policy, types, freed, mutex, owned, stale, reading>>
  <2>1. ASSUME NEW c \in Ensurer, NEW a \in AppId, EnsureCall(c, a)
        PROVE  /\ [IdleWriter EXCEPT !.at = "lock", !.app = a] \in WriterState
               /\ [IdleWriter EXCEPT !.at = "lock", !.app = a].at = "lock"
               /\ [IdleWriter EXCEPT !.at = "lock", !.app = a].app \in AppId
    BY DEF IdleWriter, WriterState
  <2>2. /\ [IdleWriter EXCEPT !.at = "lock"] \in WriterState
        /\ [IdleWriter EXCEPT !.at = "lock"].at = "lock"
    BY DEF IdleWriter, WriterState
  <2> QED
    BY <2>1, <2>2, PolicyConstants DEF EnsureCall, OtherCall, Writer
<1>3. /\ w' \in [Writer -> WriterState]
      /\ w'[c] = x
      /\ \A d \in Writer \ {c} : w'[d] = w[d]
  BY <1>1, <1>2 DEF TypeOK
<1>4. ~Busy(c) /\ ~Busy(c)' /\ \A d \in Writer \ {c} : Busy(d)' <=> Busy(d)
  BY <1>2, <1>3 DEF Busy
<1>5. TypeOK'
  BY <1>1, <1>2, <1>3 DEF TypeOK
<1>6. OneHolder'
  BY <1>1, <1>2, <1>4 DEF OneHolder
<1>7. \A d \in Writer \ {c} : Snapshot(d)' /\ Grace(d)'
  BY <1>1, <1>2, <1>3 DEF MemoryInv, Snapshot, Grace
<1>8. MemoryInv'
  BY <1>1, <1>2, <1>4, <1>7, QuietWriter DEF MemoryInv, NoReadOfFreedPolicy
<1>9. TypesInv'
  <2>1. \A d \in Ensurer : Claim(d)'
    BY <1>1, <1>2, <1>3 DEF TypesInv, Claim, Writer
  <2>2. Present'
    BY <1>1, <1>2, <1>3 DEF TypesInv, Present, Writer
  <2>3. OwnedWithinLimit' /\ (owned \cap Foreign = {})'
    BY <1>1, <1>2 DEF TypesInv, OwnedWithinLimit
  <2>4. \A d \in Writer \ {c} : (w[d].at = "edit" => Contents(d))'
    BY <1>1, <1>2, <1>3 DEF TypesInv, Contents
  <2> QED
    BY <1>4, <2>1, <2>2, <2>3, <2>4, QuietWriter DEF TypesInv
<1> QED
  BY <1>5, <1>6, <1>8, <1>9 DEF PolicyInv

LEMMA LockKeeps ==
    ASSUME PolicyInv, NEW c \in Writer, Lock(c)
    PROVE  PolicyInv'
<1>1. TypeOK /\ OneHolder /\ MemoryInv /\ TypesInv
  BY DEF PolicyInv
<1>2. /\ w[c].at = "lock" /\ mutex = NoOne /\ mutex' = c
      /\ UNCHANGED <<policy, types, freed, owned, stale, reading>>
  BY DEF Lock
<1>3. /\ w' \in [Writer -> WriterState]
      /\ w'[c].at = "check" /\ w'[c].old = policy /\ w'[c].app = w[c].app
      /\ \A d \in Writer \ {c} : w'[d] = w[d]
  <2> DEFINE x == [w[c] EXCEPT !.at = "check", !.old = policy]
  <2>1. x \in WriterState /\ x.at = "check" /\ x.old = policy /\ x.app = w[c].app
    BY <1>1, WriterFields DEF WriterState, TypeOK
  <2> HIDE DEF x
  <2>2. w' = [w EXCEPT ![c] = x]
    BY DEF Lock, x
  <2> QED
    BY <1>1, <2>1, <2>2 DEF TypeOK
<1>4. \A d \in Writer : ~Busy(d) /\ (d # c => ~Busy(d)')
  BY <1>1, <1>2, <1>3, PolicyConstants DEF OneHolder, Busy
<1>5. Busy(c)'
  BY <1>3 DEF Busy
<1>6. TypeOK' /\ OneHolder'
  BY <1>1, <1>2, <1>3, <1>4, <1>5 DEF TypeOK, OneHolder
<1>7. MemoryInv'
  <2>1. Snapshot(c)' /\ Grace(c)'
    BY <1>2, <1>3 DEF Snapshot, Grace
  <2> QED
    BY <1>1, <1>2, <1>4, <2>1, QuietWriter DEF MemoryInv, NoReadOfFreedPolicy
<1>8. TypesInv'
  <2>1. \A d \in Ensurer : Claim(d)'
    BY <1>1, <1>2, <1>3 DEF TypesInv, Claim, Writer
  <2>2. Present'
    BY <1>1, <1>2, <1>3, <1>4 DEF TypesInv, Present, Writer, Busy
  <2>3. OwnedWithinLimit' /\ (owned \cap Foreign = {})'
    BY <1>1, <1>2 DEF TypesInv, OwnedWithinLimit
  <2>4. \A d \in Writer : (w[d].at # "edit")'
    BY <1>3, <1>4 DEF Busy
  <2> QED
    BY <2>1, <2>2, <2>3, <2>4 DEF TypesInv
<1> QED
  BY <1>6, <1>7, <1>8 DEF PolicyInv

\* The copy is made in an object nobody uses, of the policy that was read
\* under the lock; it has what the writer adds and nothing else.
LEMMA CopyKeeps ==
    ASSUME PolicyInv, NEW c \in Writer, EnsureCopy(c) \/ ApplyCopy(c) \/ LoadCopy(c)
    PROVE  PolicyInv'
<1>1. TypeOK /\ OneHolder /\ MemoryInv /\ TypesInv
  BY DEF PolicyInv
<1>2. PICK p \in Policy :
        /\ Unused(p)
        /\ \E S : types' = [types EXCEPT ![p] = S]
        /\ freed' = freed \ {p}
        /\ w' = [w EXCEPT ![c].at = "edit", ![c].new = p]
        /\ c \in Ensurer => types' = [types EXCEPT ![p] = types[w[c].old] \cup {w[c].app}]
        /\ c = Applier => types' = [types EXCEPT ![p] = types[w[c].old] \cup owned]
        /\ c = Loader => types' = [types EXCEPT ![p] = Foreign]
  BY PolicyConstants DEF EnsureCopy, ApplyCopy, LoadCopy
<1>3. /\ w[c].at = "check" /\ mutex = c
      /\ UNCHANGED <<policy, mutex, owned, stale, reading>>
      /\ c # Loader => w[c].old # NoPolicy
      /\ c \in Ensurer => ~Exists(c) /\ Cardinality(owned) < MaxTypes
  BY <1>1, PolicyConstants DEF EnsureCopy, ApplyCopy, LoadCopy, OneHolder, Busy
<1>4. w[c].old = policy /\ p # policy /\ p \in freed
  BY <1>1, <1>2, <1>3 DEF MemoryInv, Snapshot, Unused
<1>5. /\ w' \in [Writer -> WriterState]
      /\ w'[c].at = "edit" /\ w'[c].old = w[c].old /\ w'[c].app = w[c].app /\ w'[c].new = p
      /\ \A d \in Writer \ {c} : w'[d] = w[d]
  <2> DEFINE x == [w[c] EXCEPT !.at = "edit", !.new = p]
  <2>1. x \in WriterState /\ x.at = "edit" /\ x.old = w[c].old /\ x.app = w[c].app /\ x.new = p
    BY <1>1, WriterFields DEF WriterState
  <2> HIDE DEF x
  <2>2. w' = [w EXCEPT ![c] = x]
    BY <1>2 DEF x
  <2> QED
    BY <1>1, <2>1, <2>2 DEF TypeOK
<1>6. \A d \in Writer \ {c} : ~Busy(d) /\ ~Busy(d)'
  BY <1>1, <1>3, <1>5 DEF OneHolder, Busy
<1>7. c \in Ensurer \/ c = Applier \/ c = Loader
  BY DEF Writer
<1>8. /\ \A q \in Policy \ {p} : types'[q] = types[q]
      /\ c \in Ensurer => types'[p] = types[policy] \cup {w[c].app}
      /\ c = Applier => types'[p] = types[policy] \cup owned
      /\ c = Loader => types'[p] = Foreign
  BY <1>1, <1>2, <1>4 DEF TypeOK
<1>9. TypeOK'
  <2>1. c \in Ensurer => w[c].app \in AppId
    BY <1>1, <1>3 DEF TypesInv, Claim
  <2>2. c # Loader => policy \in Policy
    BY <1>1, <1>3, <1>4 DEF TypeOK
  <2>3. types'[p] \subseteq AppId
    BY <1>1, <1>7, <1>8, <2>1, <2>2, PolicyConstants DEF TypeOK
  <2>4. types' \in [Policy -> SUBSET AppId]
    <3>1. PICK S : types' = [types EXCEPT ![p] = S]
      BY <1>2
    <3>2. types \in [Policy -> SUBSET AppId]
      BY <1>1 DEF TypeOK
    <3>3. S \in SUBSET AppId
      BY <2>3, <3>1, <3>2
    <3> QED
      BY <3>1, <3>2, <3>3
  <2> QED
    BY <1>1, <1>2, <1>3, <1>5, <2>4 DEF TypeOK
<1>10. OneHolder'
  BY <1>1, <1>3, <1>5, <1>6 DEF OneHolder, Busy
<1>11. MemoryInv'
  <2>1. Snapshot(c)'
    BY <1>2, <1>3, <1>4, <1>5 DEF Snapshot, Unused
  <2>2. Grace(c)'
    BY <1>5 DEF Grace
  <2> QED
    BY <1>1, <1>2, <1>3, <1>6, <2>1, <2>2, QuietWriter DEF MemoryInv, NoReadOfFreedPolicy
<1>12. policy # NoPolicy =>
          /\ Foreign \subseteq types[policy]
          /\ types[policy] \subseteq owned \cup Foreign
          /\ ~stale => owned \subseteq types[policy]
  BY <1>1, <1>3, <1>6 DEF TypesInv, Present, Busy, Writer
<1>13. TypesInv'
  <2>1. Contents(c)'
    <3>1. CASE c = Loader
      BY <1>3, <1>5, <1>8, <3>1, PolicyConstants DEF Contents
    <3>2. CASE c = Applier
      BY <1>3, <1>4, <1>5, <1>8, <1>12, <3>2, PolicyConstants DEF Contents
    <3>3. CASE c \in Ensurer
      BY <1>3, <1>4, <1>5, <1>8, <1>12, <3>3, PolicyConstants DEF Contents
    <3> QED
      BY <1>7, <3>1, <3>2, <3>3
  <2>2. ASSUME NEW d \in Ensurer
        PROVE  Claim(d)'
    <3>1. CASE d = c
      <4>1. policy # NoPolicy /\ w[c].app \notin types[policy]
        BY <1>3, <1>4, <3>1, PolicyConstants DEF Exists
      <4> QED
        BY <1>1, <1>3, <1>4, <1>5, <1>12, <3>1, <4>1 DEF TypesInv, Claim
    <3>2. CASE d # c
      BY <1>1, <1>3, <1>5, <1>6, <3>2 DEF TypesInv, Claim, Writer, Busy
    <3> QED
      BY <3>1, <3>2
  <2>3. Present'
    <3>1. policy \in Policy => types'[policy] = types[policy]
      BY <1>4, <1>8
    <3> QED
      BY <1>1, <1>3, <1>12, <3>1 DEF Present, TypeOK
  <2>4. OwnedWithinLimit' /\ (owned \cap Foreign = {})'
    BY <1>1, <1>3 DEF TypesInv, OwnedWithinLimit
  <2> QED
    BY <1>6, <2>1, <2>2, <2>3, <2>4, QuietWriter DEF TypesInv
<1> QED
  BY <1>9, <1>10, <1>11, <1>13 DEF PolicyInv

\* rcu_assign_pointer: from here on the readers of the old policy can only
\* become fewer, and they are the ones that are waited for.
LEMMA PublishKeeps ==
    ASSUME PolicyInv, NEW c \in Writer, Publish(c)
    PROVE  PolicyInv'
<1>1. TypeOK /\ OneHolder /\ MemoryInv /\ TypesInv
  BY DEF PolicyInv
<1>2. /\ w[c].at = "edit" /\ mutex = c /\ policy' = w[c].new
      /\ UNCHANGED <<types, freed, mutex, owned, reading>>
      /\ stale' = IF c = Applier THEN FALSE ELSE stale \/ (c = Loader /\ owned # {})
  BY <1>1 DEF Publish, OneHolder, Busy
<1>3. /\ w[c].old = policy /\ w[c].new \in Policy \ freed /\ w[c].new # policy
      /\ Contents(c)
  BY <1>1, <1>2 DEF MemoryInv, Snapshot, TypesInv
<1>4. /\ w' \in [Writer -> WriterState]
      /\ w'[c].at = "sync" /\ w'[c].old = w[c].old /\ w'[c].app = w[c].app /\ w'[c].new = w[c].new
      /\ w'[c].wait = {r \in Reader : reading[r] # NoPolicy}
      /\ \A d \in Writer \ {c} : w'[d] = w[d]
  <2> DEFINE R == {r \in Reader : reading[r] # NoPolicy}
             x == [w[c] EXCEPT !.at = "sync", !.wait = R]
  <2>1. R \in SUBSET Reader
    OBVIOUS
  <2> HIDE DEF R
  <2>2. x \in WriterState /\ x.at = "sync" /\ x.old = w[c].old /\ x.app = w[c].app
        /\ x.new = w[c].new /\ x.wait = R
    BY <1>1, <2>1, WriterFields DEF WriterState
  <2> HIDE DEF x
  <2>3. w' = [w EXCEPT ![c] = x]
    BY DEF Publish, x, R
  <2>4. w'[c] = x /\ w' \in [Writer -> WriterState] /\ \A d \in Writer \ {c} : w'[d] = w[d]
    BY <1>1, <2>2, <2>3 DEF TypeOK
  <2> QED
    BY <2>2, <2>4 DEF R
<1>5. \A d \in Writer \ {c} : ~Busy(d) /\ ~Busy(d)'
  BY <1>1, <1>2, <1>4 DEF OneHolder, Busy
<1>6. TypeOK'
  BY <1>1, <1>2, <1>3, <1>4 DEF TypeOK
<1>7. OneHolder'
  BY <1>1, <1>2, <1>4, <1>5 DEF OneHolder, Busy
<1>8. MemoryInv'
  <2>1. Snapshot(c)' /\ Grace(c)'
    BY <1>2, <1>3, <1>4 DEF Snapshot, Grace
  <2> QED
    BY <1>1, <1>2, <1>3, <1>5, <2>1, QuietWriter DEF MemoryInv, NoReadOfFreedPolicy
<1>9. Present'
  <2>1. types'[policy'] = types[w[c].new]
    BY <1>2
  <2>2. ~stale' => owned \subseteq types[w[c].new]
    <3>1. CASE c = Loader
      BY <1>2, <3>1, PolicyConstants
    <3>2. CASE c = Applier
      BY <1>3, <3>2 DEF Contents
    <3>3. CASE c \in Ensurer
      BY <1>2, <1>3, <3>3, PolicyConstants DEF Contents
    <3> QED
      BY <3>1, <3>2, <3>3 DEF Writer
  <2>3. ASSUME NEW a \in types[w[c].new], a \notin owned \cup Foreign
        PROVE  \E d \in Ensurer : w'[d].at \in {"sync", "destroy"} /\ w'[d].app = a
    BY <1>3, <1>4, <2>3 DEF Contents
  <2> QED
    BY <1>2, <1>3, <2>1, <2>2, <2>3 DEF Present, Contents
<1>10. TypesInv'
  <2>1. \A d \in Ensurer : Claim(d)'
    <3>1. \A d \in Ensurer \ {c} : w'[d] = w[d] /\ ~Busy(d)
      BY <1>4, <1>5 DEF Writer
    <3>2. c \in Ensurer => w[c].app \in types[w[c].new]
      BY <1>3 DEF Contents
    <3> QED
      BY <1>1, <1>2, <1>4, <3>1, <3>2 DEF TypesInv, Claim, Busy
  <2>2. OwnedWithinLimit' /\ (owned \cap Foreign = {})'
    BY <1>1, <1>2 DEF TypesInv, OwnedWithinLimit
  <2>3. (w[c].at # "edit")'
    BY <1>4
  <2> QED
    BY <1>5, <1>9, <2>1, <2>2, <2>3, QuietWriter DEF TypesInv
<1> QED
  BY <1>6, <1>7, <1>8, <1>10 DEF PolicyInv

\* synchronize_rcu returns when nobody is left in the old policy.
LEMMA SynchronizeKeeps ==
    ASSUME PolicyInv, NEW c \in Writer, Synchronize(c)
    PROVE  PolicyInv'
<1>1. TypeOK /\ OneHolder /\ MemoryInv /\ TypesInv
  BY DEF PolicyInv
<1>2. /\ w[c].at = "sync" /\ w[c].wait = {} /\ mutex = c
      /\ UNCHANGED <<policy, types, freed, mutex, owned, stale, reading>>
  BY <1>1 DEF Synchronize, OneHolder, Busy
<1>3. /\ w' \in [Writer -> WriterState]
      /\ w'[c].at = "destroy" /\ w'[c].old = w[c].old /\ w'[c].app = w[c].app /\ w'[c].new = w[c].new
      /\ \A d \in Writer \ {c} : w'[d] = w[d]
  <2> DEFINE x == [w[c] EXCEPT !.at = "destroy"]
  <2>1. x \in WriterState /\ x.at = "destroy" /\ x.old = w[c].old /\ x.app = w[c].app
        /\ x.new = w[c].new
    BY <1>1, WriterFields DEF WriterState
  <2> HIDE DEF x
  <2>2. w' = [w EXCEPT ![c] = x]
    BY DEF Synchronize, x
  <2> QED
    BY <1>1, <2>1, <2>2 DEF TypeOK
<1>4. \A d \in Writer \ {c} : ~Busy(d) /\ ~Busy(d)'
  BY <1>1, <1>2, <1>3 DEF OneHolder, Busy
<1>5. TypeOK' /\ OneHolder'
  BY <1>1, <1>2, <1>3, <1>4 DEF TypeOK, OneHolder, Busy
<1>6. MemoryInv'
  <2>1. Snapshot(c)' /\ Grace(c)'
    BY <1>1, <1>2, <1>3 DEF MemoryInv, Snapshot, Grace
  <2> QED
    BY <1>1, <1>2, <1>4, <2>1, QuietWriter DEF MemoryInv, NoReadOfFreedPolicy
<1>7. TypesInv'
  <2>1. \A d \in Ensurer : Claim(d)'
    BY <1>1, <1>2, <1>3 DEF TypesInv, Claim, Writer
  <2>2. Present'
    <3>1. \A d \in Ensurer : w[d].at \in {"sync", "destroy"} =>
                w'[d].at \in {"sync", "destroy"} /\ w'[d].app = w[d].app
      BY <1>2, <1>3 DEF Writer
    <3> QED
      BY <1>1, <1>2, <3>1 DEF TypesInv, Present
  <2>3. OwnedWithinLimit' /\ (owned \cap Foreign = {})'
    BY <1>1, <1>2 DEF TypesInv, OwnedWithinLimit
  <2>4. (w[c].at # "edit")'
    BY <1>3
  <2> QED
    BY <1>4, <2>1, <2>2, <2>3, <2>4, QuietWriter DEF TypesInv
<1> QED
  BY <1>5, <1>6, <1>7 DEF PolicyInv

\* The old policy goes, the type that was made is marked.
LEMMA FinishKeeps ==
    ASSUME PolicyInv, NEW c \in Writer, Finish(c)
    PROVE  PolicyInv'
<1>1. TypeOK /\ OneHolder /\ MemoryInv /\ TypesInv
  BY DEF PolicyInv
<1>2. /\ w[c].at = "destroy" /\ mutex = c /\ mutex' = NoOne
      /\ freed' = freed \cup ({w[c].old} \ {NoPolicy})
      /\ owned' = IF c \in Ensurer THEN owned \cup {w[c].app} ELSE owned
      /\ UNCHANGED <<policy, types, stale, reading>>
  BY <1>1 DEF Finish, Unlock, OneHolder, Busy
<1>3. /\ w' \in [Writer -> WriterState]
      /\ w'[c].at = "idle"
      /\ \A d \in Writer \ {c} : w'[d] = w[d]
  <2>1. [IdleWriter EXCEPT !.result = "ok"] \in WriterState
    BY ResultTyped
  <2>2. [IdleWriter EXCEPT !.result = "ok"].at = "idle"
    BY ResultTyped
  <2> QED
    BY <1>1, <2>1, <2>2 DEF Finish, Unlock, TypeOK
<1>4. \A d \in Writer : ~Busy(d)' /\ (d # c => ~Busy(d))
  BY <1>1, <1>2, <1>3 DEF OneHolder, Busy
<1>5. /\ w[c].old \in Policy \cup {NoPolicy} /\ w[c].old # policy /\ policy \in Policy
      /\ \A r \in Reader : reading[r] # w[c].old \/ reading[r] = NoPolicy
  BY <1>1, <1>2, WriterFields DEF MemoryInv, Snapshot, Grace
<1>6. c \in Ensurer => w[c].app \in AppId \ Foreign /\ Cardinality(owned) < MaxTypes
  BY <1>1, <1>2 DEF TypesInv, Claim
<1>7. TypeOK'
  BY <1>1, <1>2, <1>3, <1>5, <1>6 DEF TypeOK
<1>8. OneHolder'
  BY <1>2, <1>4, PolicyConstants DEF OneHolder
<1>9. MemoryInv'
  BY <1>1, <1>2, <1>4, <1>5, QuietWriter DEF MemoryInv, NoReadOfFreedPolicy
<1>10. OwnedWithinLimit'
  <2>1. IsFiniteSet(owned)
    BY <1>1, PolicyConstants, FS_Subset DEF TypeOK
  <2>2. Cardinality(owned) \in Nat /\ Cardinality(owned) <= MaxTypes
    BY <1>1, <2>1, FS_CardinalityType DEF TypesInv, OwnedWithinLimit
  <2>3. CASE c \in Ensurer
    <3>1. \/ Cardinality(owned \cup {w[c].app}) = Cardinality(owned)
          \/ Cardinality(owned \cup {w[c].app}) = Cardinality(owned) + 1
      BY <2>1, FS_AddElement
    <3>2. Cardinality(owned) + 1 <= MaxTypes
      BY <1>6, <2>2, <2>3, PolicyConstants
    <3> QED
      BY <1>2, <2>2, <2>3, <3>1, <3>2, PolicyConstants DEF OwnedWithinLimit
  <2>4. CASE c \notin Ensurer
    BY <1>2, <2>2, <2>4 DEF OwnedWithinLimit
  <2> QED
    BY <2>3, <2>4
<1>11. Present'
  <2>1. \A d \in Ensurer : w[d].at \in {"sync", "destroy"} => d = c
    BY <1>4 DEF Busy, Writer
  <2>2. /\ Foreign \subseteq types[policy]
        /\ ~stale => owned \subseteq types[policy]
        /\ types[policy] \subseteq owned' \cup Foreign
    BY <1>1, <1>2, <1>5, <2>1, PolicyConstants DEF TypesInv, Present
  <2>3. ~stale => owned' \subseteq types[policy]
    <3>1. c \in Ensurer => w[c].app \in types[policy]
      BY <1>1, <1>2 DEF TypesInv, Claim
    <3> QED
      BY <1>2, <2>2, <3>1
  <2> QED
    BY <1>2, <2>2, <2>3 DEF Present
<1>12. TypesInv'
  <2>1. \A d \in Ensurer : Claim(d)'
    BY <1>1, <1>3, <1>4 DEF TypesInv, Claim, Writer, Busy
  <2>2. (owned \cap Foreign = {})'
    BY <1>1, <1>2, <1>6 DEF TypesInv
  <2> QED
    BY <1>4, <1>10, <1>11, <2>1, <2>2, QuietWriter DEF TypesInv
<1> QED
  BY <1>7, <1>8, <1>9, <1>12 DEF PolicyInv

\* Readers take the current policy and let go of it.
LEMMA ReaderKeeps ==
    ASSUME PolicyInv, NEW r \in Reader, ReadLock(r) \/ ReadUnlock(r)
    PROVE  PolicyInv'
<1>1. TypeOK /\ OneHolder /\ MemoryInv /\ TypesInv
  BY DEF PolicyInv
<1>2. /\ UNCHANGED <<policy, types, freed, mutex, owned, stale>>
      /\ reading' \in [Reader -> Policy \cup {NoPolicy}]
      /\ reading'[r] \in {policy, NoPolicy}
      /\ \A s \in Reader \ {r} : reading'[s] = reading[s]
  BY <1>1 DEF ReadLock, ReadUnlock, TypeOK
<1>3. /\ w' \in [Writer -> WriterState]
      /\ \A c \in Writer : /\ w'[c].at = w[c].at /\ w'[c].app = w[c].app
                           /\ w'[c].old = w[c].old /\ w'[c].new = w[c].new
                           /\ \A s \in Reader : s \in w[c].wait /\ s # r => s \in w'[c].wait
  <2>1. CASE ReadLock(r)
    BY <1>1, <2>1 DEF ReadLock, TypeOK
  <2>2. CASE ReadUnlock(r)
    <3>1. w' = [c \in Writer |-> [w[c] EXCEPT !.wait = @ \ {r}]]
      BY <2>2 DEF ReadUnlock
    <3>2. ASSUME NEW c \in Writer
          PROVE  /\ w'[c] = [w[c] EXCEPT !.wait = w[c].wait \ {r}]
                 /\ w'[c] \in WriterState
      BY <1>1, <3>1, WriterFields DEF WriterState
    <3>3. ASSUME NEW c \in Writer
          PROVE  /\ w'[c].at = w[c].at /\ w'[c].app = w[c].app
                 /\ w'[c].old = w[c].old /\ w'[c].new = w[c].new
                 /\ w'[c].wait = w[c].wait \ {r}
      BY <1>1, <3>2, WriterFields DEF WriterState
    <3> QED
      BY <3>1, <3>2, <3>3
  <2> QED
    BY <2>1, <2>2
<1>4. TypeOK'
  BY <1>1, <1>2, <1>3 DEF TypeOK
<1>5. OneHolder'
  BY <1>1, <1>2, <1>3 DEF OneHolder, Busy
<1>6. MemoryInv'
  <2>1. NoReadOfFreedPolicy'
    BY <1>1, <1>2, PolicyConstants DEF MemoryInv, NoReadOfFreedPolicy, TypeOK
  <2>2. ASSUME NEW c \in Writer
        PROVE  Snapshot(c)' /\ Grace(c)'
    <3>1. Snapshot(c) /\ Grace(c)
      BY <1>1 DEF MemoryInv
    <3>2. Snapshot(c)'
      BY <1>2, <1>3, <3>1, PolicyConstants DEF Snapshot
    <3>3. Grace(c)'
      BY <1>2, <1>3, <3>1 DEF Snapshot, Grace
    <3> QED
      BY <3>2, <3>3
  <2> QED
    BY <1>1, <1>2, <2>1, <2>2 DEF MemoryInv
<1>7. TypesInv'
  <2>1. \A d \in Ensurer : Claim(d)'
    BY <1>1, <1>2, <1>3 DEF TypesInv, Claim, Writer
  <2>2. Present'
    BY <1>1, <1>2, <1>3 DEF TypesInv, Present, Writer
  <2>3. OwnedWithinLimit' /\ (owned \cap Foreign = {})'
    BY <1>1, <1>2 DEF TypesInv, OwnedWithinLimit
  <2>4. \A d \in Writer : (w[d].at = "edit" => Contents(d))'
    BY <1>1, <1>2, <1>3 DEF TypesInv, Contents
  <2> QED
    BY <2>1, <2>2, <2>3, <2>4 DEF TypesInv
<1> QED
  BY <1>4, <1>5, <1>6, <1>7 DEF PolicyInv

-----------------------------------------------------------------------------
(* The invariant.                                                          *)

LEMMA InitPolicyInv == Init => PolicyInv
<1> SUFFICES ASSUME Init PROVE PolicyInv
  OBVIOUS
<1>1. /\ IdleWriter \in WriterState /\ IdleWriter.at = "idle"
      /\ policy = NoPolicy /\ NoPolicy \notin Policy /\ freed = Policy /\ owned = {}
      /\ \A c \in Writer : w[c] = IdleWriter
      /\ \A r \in Reader : reading[r] = NoPolicy
  BY PolicyConstants DEF Init, IdleWriter, WriterState
<1>2. TypeOK
  BY <1>1 DEF Init, TypeOK
<1>3. OneHolder
  BY <1>1, PolicyConstants DEF Init, OneHolder, Busy
<1>4. MemoryInv
  BY <1>1 DEF MemoryInv, NoReadOfFreedPolicy, Snapshot, Grace
<1>5. TypesInv
  <2>1. OwnedWithinLimit
    BY <1>1, FS_EmptySet, PolicyConstants DEF OwnedWithinLimit
  <2> QED
    BY <1>1, <2>1 DEF TypesInv, Present, Claim, Writer
<1> QED
  BY <1>2, <1>3, <1>4, <1>5 DEF PolicyInv

LEMMA NextPolicyInv == PolicyInv /\ [Next]_vars => PolicyInv'
<1> SUFFICES ASSUME PolicyInv, [Next]_vars PROVE PolicyInv'
  OBVIOUS
<1>1. CASE (\E c \in Ensurer, a \in AppId : EnsureCall(c, a)) \/ (\E c \in Writer : OtherCall(c))
  BY <1>1, CallKeeps
<1>2. ASSUME NEW c \in Writer, WriterStep(c)
      PROVE  PolicyInv'
  <2>1. CASE Lock(c)
    BY <2>1, LockKeeps
  <2>2. CASE WriterError(c) \/ EnsureExisting(c) \/ EnsureFull(c)
    <3>1. PICK res \in {"none", "ok", "EEXIST", "ENOSPC", "error"} : Unlock(c, res)
      BY <2>2 DEF WriterError, EnsureExisting, EnsureFull
    <3> DEFINE F == {}
    <3>2. /\ w[c].at = "check" /\ freed' = freed \cup F /\ policy \notin F /\ F \in SUBSET Policy
          /\ \A r \in Reader : reading[r] \notin F
          /\ UNCHANGED <<policy, types, owned, stale, reading>>
      BY <2>2 DEF WriterError, EnsureExisting, EnsureFull
    <3> HIDE DEF F
    <3> QED
      BY <3>1, <3>2, UnlockKeeps DEF Busy
  <2>3. CASE EditFails(c)
    <3> DEFINE F == {w[c].new}
    <3>1. /\ w[c].at = "edit" /\ freed' = freed \cup F /\ Unlock(c, "error")
          /\ UNCHANGED <<policy, types, owned, stale, reading>>
      BY <2>3 DEF EditFails
    <3>2. F \in SUBSET Policy /\ policy \notin F /\ \A r \in Reader : reading[r] \notin F
      BY <3>1 DEF PolicyInv, MemoryInv, Snapshot
    <3> HIDE DEF F
    <3> QED
      BY <3>1, <3>2, UnlockKeeps DEF Busy
  <2>4. CASE EnsureCopy(c) \/ ApplyCopy(c) \/ LoadCopy(c)
    BY <2>4, CopyKeeps
  <2>5. CASE Publish(c) \/ Synchronize(c) \/ Finish(c)
    BY <2>5, PublishKeeps, SynchronizeKeeps, FinishKeeps
  <2> QED
    BY <1>2, <2>1, <2>2, <2>3, <2>4, <2>5 DEF WriterStep
<1>3. CASE \E r \in Reader : ReadLock(r) \/ ReadUnlock(r)
  BY <1>3, ReaderKeeps
<1>4. CASE UNCHANGED vars
  BY <1>4 DEF vars, PolicyInv, TypeOK, OneHolder, Busy, MemoryInv, NoReadOfFreedPolicy, Snapshot,
              Grace, TypesInv, OwnedWithinLimit, Present, Claim, Contents
<1> QED
  BY <1>1, <1>2, <1>3, <1>4 DEF Next

\* The policy writers keep their types.
THEOREM PolicyTypeCorrect == Spec => []TypeOK
<1>1. PolicyInv => TypeOK
  BY DEF PolicyInv
<1> QED
  BY <1>1, InitPolicyInv, NextPolicyInv, PTL DEF Spec

\* No reader is inside a policy that ensure, apply or a load has destroyed.
THEOREM ReadersSafe == Spec => []NoReadOfFreedPolicy
<1>1. PolicyInv => NoReadOfFreedPolicy
  BY DEF PolicyInv, MemoryInv
<1> QED
  BY <1>1, InitPolicyInv, NextPolicyInv, PTL DEF Spec

\* Whenever the mutex is free, the types the module owns are in the policy
\* unless a load has dropped them and apply_kernelsu_rules has not run since.
THEOREM TypesNotLost == Spec => []OwnedTypesPresent
<1>1. PolicyInv => OwnedTypesPresent
  BY DEF PolicyInv, TypesInv, Present, OwnedTypesPresent
<1> QED
  BY <1>1, InitPolicyInv, NextPolicyInv, PTL DEF Spec

\* abk_owned_types marks the types this module has made and no other.
THEOREM MarkIsExact == Spec => []MarkExact
<1>1. PolicyInv => MarkExact
  <2> SUFFICES ASSUME PolicyInv PROVE MarkExact
    OBVIOUS
  <2>1. mutex = NoOne => \A c \in Ensurer : w[c].at \notin {"sync", "destroy"}
    BY PolicyConstants DEF PolicyInv, OneHolder, Busy, Writer
  <2> QED
    BY <2>1 DEF PolicyInv, TypesInv, Present, MarkExact
<1> QED
  BY <1>1, InitPolicyInv, NextPolicyInv, PTL DEF Spec

\* At most ABK_SANDBOX_MAX_INSTANCES types are made in a boot.
THEOREM TypesLimited == Spec => []OwnedWithinLimit
<1>1. PolicyInv => OwnedWithinLimit
  BY DEF PolicyInv, TypesInv
<1> QED
  BY <1>1, InitPolicyInv, NextPolicyInv, PTL DEF Spec
=============================================================================
