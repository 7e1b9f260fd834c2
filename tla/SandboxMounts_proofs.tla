------------------------ MODULE SandboxMounts_proofs ------------------------
(***************************************************************************)
(* The mount accounting for any number of threads, targets, mounts and     *)
(* records: the namespace of an active instance never holds more sandbox   *)
(* mounts than records, and what was mounted before the sandbox stays.     *)
(*                                                                         *)
(* A record may name another mount than the one its call has made, so      *)
(* neither follows mount by mount.  What is kept is a balance, for every   *)
(* set of targets: the mounts on them and the unmounts not yet accounted   *)
(* for are as many as the records of mounts made there and the mounts not  *)
(* yet accounted for.  It needs to know where a mount was made even after  *)
(* it is gone: home, which exists in every state.                          *)
(*                                                                         *)
(* With one call at a time on a target every record is that of its mount   *)
(* (OwnInv).  The bytes of the records are then those of the mounts: a sum *)
(* is the number of its units, counted by the theorems on finite sets.     *)
(***************************************************************************)
EXTENDS SandboxMounts, FiniteSetTheorems, WellFoundedInduction, TLAPS

\* The call has made a mount and not yet looked for its record.
HasMade(o) == o.at \in {"peek", "result"} /\ ~o.error

\* The call has reserved a record.
Holds(o) == o.at = "attach" \/ HasMade(o) \/ (o.at = "priv" /\ o.kind # "bind")

\* The call may still have one.
MayHold(o) == Holds(o) \/ o.at = "result"

Reserved == phase = "active" => \A t \in Thread : Holds(op[t]) => Pending(t) # {}

\* Without failing lookups a thread has one reservation at most, and only in a
\* call that will come to its result.
PendingOne ==
    ~regime.nsPathFails /\ phase = "active" =>
        \A t \in Thread : \A i \in Pending(t) : MayHold(op[t]) /\ Pending(t) = {i}

AllGone == phase = "absent" => \A t \in Thread : op[t].at = "gone"

\* On every target: the inherited mounts, then mounts of the sandbox.
InheritedBelow ==
    \A g \in Target :
        /\ Len(stack[g]) >= Len(Inherited[g])
        /\ \A i \in 1..Len(stack[g]) :
                IF i <= Len(Inherited[g]) THEN stack[g][i] = Inherited[g][i]
                ELSE stack[g][i] \in Mnt

\* A sandbox mount is in one place.
OnePlace ==
    \A g, h \in Target : \A i \in DOMAIN stack[g], j \in DOMAIN stack[h] :
        stack[g][i] \in Mnt /\ stack[g][i] = stack[h][j] => g = h /\ i = j

-----------------------------------------------------------------------------
(* The balance.                                                            *)

LiveIn(G) == {m \in Mnt : \E g \in G : \E i \in DOMAIN stack[g] : stack[g][i] = m}
UnmountedIn(G) == {t \in Thread : op[t].at = "uresult" /\ op[t].target \in G}
MadeIn(G) == {t \in Thread : HasMade(op[t]) /\ op[t].target \in G}
TrackedIn(home, G) == {i \in Rec : rec[i].state = "TRACKED" /\ home[rec[i].mnt] \in G}

Balanced(home) ==
    \A G \in SUBSET Target :
        Cardinality(LiveIn(G)) + Cardinality(UnmountedIn(G)) =
            Cardinality(TrackedIn(home, G)) + Cardinality(MadeIn(G))

\* home says where the mounts of the stacks, the records and the calls are.
StackHome(home) ==
    \A g \in Target : \A i \in DOMAIN stack[g] : stack[g][i] \in Mnt => home[stack[g][i]] = g
TrackedOurs == \A i \in Rec : rec[i].state = "TRACKED" => rec[i].mnt \in Mnt
FoundHome(home) ==
    \A t \in Thread : op[t].at = "result" /\ ~op[t].error =>
        op[t].mnt \in Mnt /\ home[op[t].mnt] = op[t].target

\* A mount just unmounted is nowhere, its record is there, and no other call
\* is about it.
UnmountedHome(home) ==
    \A t \in Thread : op[t].at = "uresult" =>
        /\ op[t].path \in Mnt \ Live
        /\ home[op[t].path] = op[t].target
        /\ Tracked(op[t].path) # {}
        /\ \A r \in Thread \ {t} : op[r].path # op[t].path

Accounted(home) ==
    /\ StackHome(home) /\ TrackedOurs /\ FoundHome(home) /\ UnmountedHome(home)
    /\ Balanced(home)

MountInv ==
    /\ TypeOK
    /\ AccountsExact
    /\ Reserved /\ PendingOne
    /\ AllGone
    /\ InheritedBelow
    /\ OnePlace
    /\ phase = "active" => \E home \in [Mnt -> Target] : Accounted(home)

-----------------------------------------------------------------------------
(* Sums.  SumOver is a fold, a recursive function over the subsets.  What  *)
(* it computes is the number of units: as many pairs for every x as f[x].  *)

\* g adds up the values of f over every subset of S.
Adds(f, S, g) ==
    g = [s \in SUBSET S |-> IF s = {} THEN 0
                            ELSE f[CHOOSE x \in s : TRUE] + g[s \ {CHOOSE x \in s : TRUE}]]

UnitsOf(f, x) == {x} \X (1..f[x])
Units(f, S) == UNION {UnitsOf(f, x) : x \in S}

\* Every non-empty set of naturals has a least element.
LEMMA LeastNatural ==
    ASSUME NEW T, T \subseteq Nat, T # {}
    PROVE  \E x \in T : \A y \in T : x <= y
<1>1. PICK x \in T : \A y \in T : ~(<<y, x>> \in OpToRel(<, Nat))
  BY WFMin, NatLessThanWellFounded, Zenon
<1>2. \A y \in T : ~(y < x)
  BY <1>1 DEF OpToRel
<1>3. \A y \in T : x <= y
  BY <1>2
<1> QED
  BY <1>3

LEMMA UnitsOfCount ==
    ASSUME NEW f, NEW x, f[x] \in Nat
    PROVE  IsFiniteSet(UnitsOf(f, x)) /\ Cardinality(UnitsOf(f, x)) = f[x]
<1>1. IsFiniteSet(1..f[x]) /\ Cardinality(1..f[x]) = f[x]
  <2>1. PICK n : n = f[x]
    OBVIOUS
  <2>2. IsFiniteSet(1..n) /\ Cardinality(1..n) = IF 1 > n THEN 0 ELSE n - 1 + 1
    BY <2>1, FS_Interval
  <2> QED
    BY <2>1, <2>2
<1>2. IsFiniteSet({x}) /\ Cardinality({x}) = 1
  BY FS_Singleton
<1>3. /\ IsFiniteSet({x} \X (1..f[x]))
      /\ Cardinality({x} \X (1..f[x])) = Cardinality({x}) * Cardinality(1..f[x])
  BY <1>1, <1>2, FS_Product
<1> QED
  BY <1>1, <1>2, <1>3 DEF UnitsOf

LEMMA UnitsFinite ==
    ASSUME NEW f, NEW S, IsFiniteSet(S), \A x \in S : f[x] \in Nat
    PROVE  IsFiniteSet(Units(f, S)) /\ Cardinality(Units(f, S)) \in Nat
<1> DEFINE all == {UnitsOf(f, x) : x \in S}
           u == [x \in S |-> UnitsOf(f, x)]
<1>1. u \in Surjection(S, all)
  BY DEF Surjection
<1>2. IsFiniteSet(all)
  <2> HIDE DEF all, u
  <2> QED
    BY <1>1, FS_Surjection
<1>3. \A T \in all : IsFiniteSet(T)
  BY UnitsOfCount
<1>4. IsFiniteSet(UNION all)
  <2> HIDE DEF all
  <2> QED
    BY <1>2, <1>3, FS_UNION
<1> QED
  BY <1>4, FS_CardinalityType DEF Units

LEMMA UnitsSplit ==
    ASSUME NEW f, NEW S, IsFiniteSet(S), \A y \in S : f[y] \in Nat, NEW x \in S
    PROVE  Cardinality(Units(f, S)) = f[x] + Cardinality(Units(f, S \ {x}))
<1> DEFINE A == UnitsOf(f, x)
           B == Units(f, S \ {x})
<1>1. IsFiniteSet(S \ {x})
  BY FS_RemoveElement
<1>2. IsFiniteSet(A) /\ Cardinality(A) = f[x] /\ IsFiniteSet(B) /\ Cardinality(B) \in Nat
  BY <1>1, UnitsOfCount, UnitsFinite
<1>3. Units(f, S) = A \cup B
  BY DEF Units
<1>4. A \cap B = {}
  BY DEF Units, UnitsOf
<1>5. Cardinality(A \cup B) = Cardinality(A) + Cardinality(B) - Cardinality(A \cap B)
  <2> HIDE DEF A, B
  <2> QED
    BY <1>2, FS_Union
<1>6. Cardinality(A \cap B) = 0
  BY <1>4, FS_EmptySet
<1> QED
  BY <1>2, <1>3, <1>5, <1>6

LEMMA SumOverIs ==
    ASSUME NEW f, NEW S
    PROVE  SumOver(f, S) = (CHOOSE g : Adds(f, S, g))[S]
BY Zenon DEF SumOver, MapThenSumSet, MapThenFoldSet, Adds

LEMMA UnitsNone == ASSUME NEW f PROVE Cardinality(Units(f, {})) = 0
<1>1. Units(f, {}) = {}
  BY DEF Units
<1> QED
  BY <1>1, FS_EmptySet

\* A sum is the number of its units.
LEMMA SumCounts ==
    ASSUME NEW f, NEW S, IsFiniteSet(S), \A x \in S : f[x] \in Nat
    PROVE  SumOver(f, S) = Cardinality(Units(f, S))
<1>1. ASSUME NEW s \in SUBSET S, s # {}
      PROVE  LET x == CHOOSE y \in s : TRUE IN
             /\ x \in s /\ s \ {x} \in SUBSET S
             /\ IsFiniteSet(s) /\ Cardinality(s) \in Nat /\ Cardinality(s \ {x}) = Cardinality(s) - 1
             /\ Cardinality(Units(f, s)) = f[x] + Cardinality(Units(f, s \ {x}))
  <2> DEFINE x == CHOOSE y \in s : TRUE
  <2>1. x \in s /\ s \ {x} \in SUBSET S
    BY <1>1
  <2> HIDE DEF x
  <2>2. IsFiniteSet(s) /\ Cardinality(s) \in Nat
    BY FS_Subset, FS_CardinalityType
  <2>3. Cardinality(s \ {x}) = Cardinality(s) - 1
    BY <2>1, <2>2, FS_RemoveElement
  <2>4. Cardinality(Units(f, s)) = f[x] + Cardinality(Units(f, s \ {x}))
    BY <2>1, <2>2, UnitsSplit
  <2> QED
    BY <2>1, <2>2, <2>3, <2>4 DEF x
<1>2. \E g : Adds(f, S, g)
  <2> DEFINE c == [s \in SUBSET S |-> Cardinality(Units(f, s))]
             d == [s \in SUBSET S |-> IF s = {} THEN 0
                            ELSE f[CHOOSE x \in s : TRUE] + c[s \ {CHOOSE x \in s : TRUE}]]
  <2>1. ASSUME NEW s \in SUBSET S
        PROVE  c[s] = d[s]
    <3>1. CASE s = {}
      BY <3>1, UnitsNone
    <3>2. CASE s # {}
      BY <3>2, <1>1
    <3> QED
      BY <3>1, <3>2
  <2>2. c = d
    BY <2>1
  <2> QED
    BY <2>2 DEF Adds
<1>3. PICK g : g = (CHOOSE h : Adds(f, S, h))
  OBVIOUS
<1>4. Adds(f, S, g)
  BY <1>2, <1>3
<1>5. ASSUME NEW s \in SUBSET S
      PROVE  g[s] = IF s = {} THEN 0
                    ELSE f[CHOOSE x \in s : TRUE] + g[s \ {CHOOSE x \in s : TRUE}]
  BY <1>4 DEF Adds
<1> DEFINE wrong == {s \in SUBSET S : g[s] # Cardinality(Units(f, s))}
           sizes == {Cardinality(s) : s \in wrong}
<1>6. wrong = {}
  <2> SUFFICES ASSUME wrong # {} PROVE FALSE
    OBVIOUS
  <2>1. \A s \in SUBSET S : Cardinality(s) \in Nat
    BY FS_Subset, FS_CardinalityType
  <2>2. sizes \subseteq Nat /\ sizes # {}
    BY <2>1
  <2>3. PICK n \in sizes : \A k \in sizes : n <= k
    <3> HIDE DEF sizes
    <3> QED
      BY <2>2, LeastNatural
  <2>4. PICK s \in wrong : n = Cardinality(s)
    BY <2>3
  <2>5. s # {}
    BY <2>4, <1>5, UnitsNone
  <2>6. PICK x : x = CHOOSE y \in s : TRUE
    OBVIOUS
  <2>7. /\ x \in s /\ s \ {x} \in SUBSET S /\ Cardinality(s \ {x}) = Cardinality(s) - 1
        /\ Cardinality(Units(f, s)) = f[x] + Cardinality(Units(f, s \ {x}))
    BY <1>1, <2>4, <2>5, <2>6
  <2>8. g[s] = f[x] + g[s \ {x}]
    BY <1>5, <2>4, <2>5, <2>6
  <2>9. s \ {x} \in wrong
    BY <2>4, <2>7, <2>8
  <2>10. Cardinality(s \ {x}) \in sizes
    BY <2>9
  <2>11. n \in Nat /\ n <= n - 1
    <3> HIDE DEF sizes, wrong
    <3> QED
      BY <2>2, <2>3, <2>4, <2>7, <2>10
  <2> QED
    BY <2>11
<1>7. g[S] = Cardinality(Units(f, S))
  BY <1>6
<1> QED
  BY <1>3, <1>7, SumOverIs

LEMMA SumNone == ASSUME NEW f PROVE SumOver(f, {}) = 0
BY SumCounts, UnitsNone, FS_EmptySet

LEMMA SumTyped ==
    ASSUME NEW f, NEW S, IsFiniteSet(S), \A x \in S : f[x] \in Nat
    PROVE  SumOver(f, S) \in Nat
BY SumCounts, UnitsFinite

LEMMA SumSplits ==
    ASSUME NEW f, NEW S, IsFiniteSet(S), \A y \in S : f[y] \in Nat, NEW x \in S
    PROVE  SumOver(f, S) = f[x] + SumOver(f, S \ {x}) /\ SumOver(f, S \ {x}) \in Nat
<1>1. IsFiniteSet(S \ {x})
  BY FS_RemoveElement
<1>2. SumOver(f, S \ {x}) = Cardinality(Units(f, S \ {x}))
  BY <1>1, SumCounts
<1>3. SumOver(f, S) = Cardinality(Units(f, S))
  BY SumCounts
<1> QED
  BY <1>1, <1>2, <1>3, UnitsSplit, SumTyped

\* A sum depends on the values over its set only.
LEMMA SumSame ==
    ASSUME NEW f, NEW h, NEW S, IsFiniteSet(S),
           \A x \in S : f[x] \in Nat /\ h[x] = f[x]
    PROVE  SumOver(h, S) = SumOver(f, S)
<1>1. Units(f, S) = Units(h, S)
  BY DEF Units, UnitsOf
<1> QED
  BY <1>1, SumCounts

LEMMA SumGrows ==
    ASSUME NEW f, NEW h, NEW S, IsFiniteSet(S), NEW x, x \notin S, h[x] \in Nat,
           \A y \in S : f[y] \in Nat /\ h[y] = f[y]
    PROVE  SumOver(h, S \cup {x}) = h[x] + SumOver(f, S)
<1>1. IsFiniteSet(S \cup {x})
  BY FS_AddElement
<1>2. (S \cup {x}) \ {x} = S
  OBVIOUS
<1>3. SumOver(h, S \cup {x}) = h[x] + SumOver(h, (S \cup {x}) \ {x})
  BY <1>1, SumSplits
<1> QED
  BY <1>2, <1>3, SumSame

LEMMA SumShrinks ==
    ASSUME NEW f, NEW h, NEW S, IsFiniteSet(S), NEW x \in S,
           \A y \in S : f[y] \in Nat /\ (y # x => h[y] = f[y])
    PROVE  SumOver(f, S) = f[x] + SumOver(h, S \ {x}) /\ SumOver(h, S \ {x}) \in Nat
<1>1. IsFiniteSet(S \ {x})
  BY FS_RemoveElement
<1>2. SumOver(h, S \ {x}) = SumOver(f, S \ {x})
  BY <1>1, SumSame
<1> QED
  BY <1>2, SumSplits

\* Terms that are matched with different terms of their size add up to no more.
LEMMA SumMatched ==
    ASSUME NEW f, NEW S, IsFiniteSet(S), \A x \in S : f[x] \in Nat,
           NEW h, NEW T, IsFiniteSet(T), \A y \in T : h[y] \in Nat,
           NEW m \in [S -> T], \A x, y \in S : m[x] = m[y] => x = y,
           \A x \in S : f[x] <= h[m[x]]
    PROVE  SumOver(f, S) <= SumOver(h, T)
<1> DEFINE A == Units(f, S)
           B == Units(h, T)
           w == [u \in A |-> <<m[u[1]], u[2]>>]
<1>1. \A u \in A : u[1] \in S /\ u[2] \in 1..f[u[1]] /\ u = <<u[1], u[2]>>
  BY DEF Units, UnitsOf
<1>2. \A x \in S : \A k \in 1..f[x] : <<m[x], k>> \in B
  <2> SUFFICES ASSUME NEW x \in S, NEW k \in 1..f[x] PROVE <<m[x], k>> \in B
    OBVIOUS
  <2>1. m[x] \in T /\ k \in 1..h[m[x]]
    OBVIOUS
  <2> QED
    BY <2>1 DEF Units, UnitsOf
<1>3. w \in [A -> B]
  BY <1>1, <1>2
<1>4. \A u, v \in A : w[u] = w[v] => u = v
  <2> SUFFICES ASSUME NEW u \in A, NEW v \in A, w[u] = w[v] PROVE u = v
    OBVIOUS
  <2>1. m[u[1]] = m[v[1]] /\ u[2] = v[2]
    OBVIOUS
  <2> QED
    BY <1>1, <2>1
<1>5. w \in Injection(A, B)
  <2> HIDE DEF w, A, B
  <2> QED
    BY <1>3, <1>4 DEF Injection, IsInjective
<1>6. IsFiniteSet(B)
  BY UnitsFinite
<1>7. Cardinality(A) <= Cardinality(B)
  <2> HIDE DEF w, A, B
  <2> QED
    BY <1>5, <1>6, FS_Injection
<1> QED
  BY <1>7, SumCounts

-----------------------------------------------------------------------------
(* The calls.                                                              *)

Where == {"gone", "user", "sb", "priv", "bind", "attach", "peek", "result",
          "uvalidate", "udo", "uresult"}

\* Only the call of t changes.
Moved(t) == op' \in [Thread -> Call] /\ \A r \in Thread \ {t} : op'[r] = op[r]

SameCall(t) ==
    op'[t].kind = op[t].kind /\ op'[t].target = op[t].target /\ op'[t].size = op[t].size
    /\ op'[t].path = op[t].path

InCall(o) == o.at \notin {"gone", "user"}

\* A call stays the one it is until it returns, and a new one begins on a target
\* of its own unless targets are shared.
Orderly(t) ==
    \/ ~InCall(op'[t]) /\ op'[t].kind = "none"
    \/ InCall(op[t]) /\ SameCall(t) /\ (op'[t].at = "bind" => op[t].kind = "bind")
    \/ /\ op[t].at = "user" /\ op'[t].at \in {"sb", "uvalidate"}
       /\ op'[t].kind = "bind" => op'[t].size = 0
       /\ regime.shared \/ \A r \in Thread : ~InCall(op[r]) \/ op[r].target # op'[t].target

LEMMA CallTyped ==
    ASSUME TypeOK, NEW t \in Thread
    PROVE  /\ op[t] \in Call /\ op[t].at \in Where /\ op[t].target \in Target
           /\ op[t].size \in Size \cup {0} /\ op[t].error \in BOOLEAN
           /\ op[t].path \in AnyMnt /\ op[t].mnt \in AnyMnt
           /\ op[t].kind \in {"none", "tmpfs", "bind", "umount"}
<1>1. op[t] \in Call
  BY DEF TypeOK
<1> QED
  BY <1>1 DEF Call, Where

LEMMA IdleTyped ==
    /\ Idle \in Call /\ Idle.at = "user" /\ Idle.mnt = NoMnt /\ Idle.path = NoMnt
    /\ Idle.error = FALSE /\ Idle.kind = "none" /\ Gone.kind = "none"
    /\ Gone \in Call /\ Gone.at = "gone" /\ Gone.mnt = NoMnt /\ Gone.path = NoMnt
<1>1. (CHOOSE g \in Target : TRUE) \in Target
  BY MountConstants
<1>2. Idle \in Call
  BY <1>1 DEF Idle, Call, AnyMnt
<1>3. /\ Idle.at = "user" /\ Idle.mnt = NoMnt /\ Idle.path = NoMnt /\ Idle.error = FALSE
      /\ Idle.target \in Target /\ Idle.kind = "none"
  BY <1>1 DEF Idle
<1> QED
  BY <1>2, <1>3 DEF Gone, Call

LEMMA CallAt ==
    ASSUME TypeOK, NEW t \in Thread, NEW w \in Where, At(t, w)
    PROVE  /\ Moved(t) /\ SameCall(t) /\ op'[t].at = w
           /\ op'[t].error = op[t].error /\ op'[t].mnt = op[t].mnt
<1>1. op \in [Thread -> Call] /\ op[t] \in Call
  BY DEF TypeOK
<1>2. op' = [op EXCEPT ![t] = [op[t] EXCEPT !.at = w]]
  BY DEF At
<1>3. [op[t] EXCEPT !.at = w] \in Call
  BY <1>1 DEF Call, Where
<1>4. op'[t] = [op[t] EXCEPT !.at = w] /\ Moved(t)
  BY <1>1, <1>2, <1>3 DEF Moved
<1> QED
  BY <1>1, <1>4 DEF SameCall, Call

LEMMA CallBack ==
    ASSUME TypeOK, NEW t \in Thread, Back(t)
    PROVE  Moved(t) /\ op'[t] = Idle /\ op'[t].at = "user"
BY IdleTyped DEF Moved, TypeOK, Back

LEMMA CallResult ==
    ASSUME TypeOK, NEW t \in Thread, NEW b \in BOOLEAN, Result(t, b)
    PROVE  /\ Moved(t) /\ SameCall(t) /\ op'[t].at = (IF b THEN "result" ELSE "peek")
           /\ op'[t].error = b /\ op'[t].mnt = op[t].mnt
<1> DEFINE w == IF b THEN "result" ELSE "peek"
<1>1. op \in [Thread -> Call] /\ op[t] \in Call /\ w \in Where
  BY DEF TypeOK, Where
<1>2. op' = [op EXCEPT ![t] = [op[t] EXCEPT !.at = w, !.error = b]]
  BY DEF Result
<1> HIDE DEF w
<1>3. [op[t] EXCEPT !.at = w, !.error = b] \in Call
  BY <1>1 DEF Call, Where
<1>4. op'[t] = [op[t] EXCEPT !.at = w, !.error = b] /\ Moved(t)
  BY <1>1, <1>2, <1>3 DEF Moved
<1>5. SameCall(t) /\ op'[t].at = w /\ op'[t].error = b /\ op'[t].mnt = op[t].mnt
  BY <1>1, <1>4 DEF SameCall, Call
<1> QED
  BY <1>4, <1>5 DEF w

LEMMA TopTyped ==
    ASSUME TypeOK, NEW g \in Target
    PROVE  /\ Top(g) \in AnyMnt
           /\ Len(stack[g]) \in Nat /\ DOMAIN stack[g] = 1..Len(stack[g])
           /\ Top(g) # NoMnt => \E i \in DOMAIN stack[g] : stack[g][i] = Top(g)
<1>1. stack[g] \in Seq(Mnt \cup InheritedMnt)
  BY DEF TypeOK
<1>2. Len(stack[g]) \in Nat /\ DOMAIN stack[g] = 1..Len(stack[g])
  BY <1>1
<1>3. stack[g] # <<>> => Len(stack[g]) \in DOMAIN stack[g]
  BY <1>1
<1>4. \A i \in DOMAIN stack[g] : stack[g][i] \in Mnt \cup InheritedMnt
  BY <1>1
<1> QED
  BY <1>2, <1>3, <1>4 DEF Top, AnyMnt

LEMMA CallFollows ==
    ASSUME TypeOK, NEW t \in Thread, FollowDown(t)
    PROVE  /\ Moved(t) /\ SameCall(t) /\ op'[t].at = "result"
           /\ op'[t].error = op[t].error /\ op'[t].mnt = Top(op[t].target)
<1> DEFINE m == Top(op[t].target)
<1>1. op \in [Thread -> Call] /\ op[t] \in Call /\ m \in AnyMnt
  BY CallTyped, TopTyped DEF TypeOK
<1>2. op' = [op EXCEPT ![t] = [op[t] EXCEPT !.at = "result", !.mnt = m]]
  BY DEF FollowDown
<1> HIDE DEF m
<1>3. [op[t] EXCEPT !.at = "result", !.mnt = m] \in Call
  BY <1>1 DEF Call
<1>4. op'[t] = [op[t] EXCEPT !.at = "result", !.mnt = m] /\ Moved(t)
  BY <1>1, <1>2, <1>3 DEF Moved
<1>5. SameCall(t) /\ op'[t].at = "result" /\ op'[t].error = op[t].error /\ op'[t].mnt = m
  BY <1>1, <1>4 DEF SameCall, Call
<1> QED
  BY <1>4, <1>5 DEF m

LEMMA CallBegins ==
    ASSUME TypeOK, NEW t \in Thread, NEW g \in Target, NEW n \in Size \cup {0}
    PROVE  /\ \A k \in {"tmpfs", "bind"} : MountCall(t, k, g, n) =>
                Moved(t) /\ op'[t].at = "sb" /\ op'[t].path = Top(g) /\ Orderly(t)
           /\ UmountCall(t, g) =>
                Moved(t) /\ op'[t].at = "uvalidate" /\ op'[t].path = Top(g) /\ Orderly(t)
<1>1. op \in [Thread -> Call] /\ Top(g) \in AnyMnt /\ Idle \in Call
  BY TopTyped, IdleTyped DEF TypeOK
<1>2. ASSUME NEW k \in {"tmpfs", "bind"}, MountCall(t, k, g, n)
      PROVE  Moved(t) /\ op'[t].at = "sb" /\ op'[t].path = Top(g) /\ Orderly(t)
  <2> DEFINE c == [Idle EXCEPT !.at = "sb", !.kind = k, !.target = g, !.size = n, !.path = Top(g)]
  <2>1. /\ c \in Call /\ c.at = "sb" /\ c.path = Top(g)
        /\ c.target = g /\ c.kind = k /\ c.size = n
    BY <1>1 DEF Call
  <2>2. /\ op' = [op EXCEPT ![t] = c] /\ op[t].at = "user" /\ (k = "bind" => n = 0)
        /\ regime.shared \/ \A r \in Thread : ~InCall(op[r]) \/ op[r].target # g
    BY <1>2 DEF MountCall, InCall
  <2>3. Moved(t) /\ op'[t] = c
    BY <1>1, <2>1, <2>2 DEF Moved
  <2> QED
    BY <2>1, <2>2, <2>3 DEF Orderly
<1>3. ASSUME UmountCall(t, g)
      PROVE  Moved(t) /\ op'[t].at = "uvalidate" /\ op'[t].path = Top(g) /\ Orderly(t)
  <2> DEFINE c == [Idle EXCEPT !.at = "uvalidate", !.kind = "umount", !.target = g, !.path = Top(g)]
  <2>1. /\ c \in Call /\ c.at = "uvalidate" /\ c.path = Top(g)
        /\ c.target = g /\ c.kind = "umount"
    BY <1>1 DEF Call
  <2>2. /\ op' = [op EXCEPT ![t] = c] /\ op[t].at = "user"
        /\ regime.shared \/ \A r \in Thread : ~InCall(op[r]) \/ op[r].target # g
    BY <1>3 DEF UmountCall, InCall
  <2>3. Moved(t) /\ op'[t] = c
    BY <1>1, <2>1, <2>2 DEF Moved
  <2> QED
    BY <2>1, <2>2, <2>3 DEF Orderly
<1> QED
  BY <1>2, <1>3

-----------------------------------------------------------------------------
(* The records.                                                            *)

\* Record i becomes a reservation of t, is cleared, or names a mount.
Booked(t, i) ==
    /\ rec[i].state = "FREE" /\ rec'[i].state = "PENDING" /\ rec'[i].owner = t
    /\ \A j \in Rec \ {i} : rec'[j] = rec[j]
Cleared(i) == rec'[i].state = "FREE" /\ \A j \in Rec \ {i} : rec'[j] = rec[j]
Kept(t, i) ==
    /\ rec'[i].state = "TRACKED" /\ rec'[i].mnt = op[t].mnt /\ rec'[i].bytes = rec[i].bytes
    /\ \A j \in Rec \ {i} : rec'[j] = rec[j]

LEMMA RecTyped ==
    ASSUME TypeOK, NEW i \in Rec
    PROVE  /\ rec[i] \in Record /\ rec[i].state \in {"FREE", "PENDING", "TRACKED"}
           /\ rec[i].mnt \in AnyMnt /\ rec[i].bytes \in Nat
<1>1. rec[i] \in Record
  BY DEF TypeOK
<1>2. Size \cup {0} \subseteq Nat
  BY MountConstants
<1> QED
  BY <1>1, <1>2 DEF Record

LEMMA FreeRecTyped == FreeRec \in Record /\ FreeRec.state = "FREE"
BY DEF FreeRec, Record, AnyMnt

LEMMA UsedFinite ==
    \A S \in SUBSET Rec : IsFiniteSet(S) /\ Cardinality(S) \in Nat
<1>1. IsFiniteSet(Rec)
  BY FS_Interval, MountConstants DEF Rec
<1> QED
  BY <1>1, FS_Subset, FS_CardinalityType

LEMMA UsedBytes ==
    /\ TypeOK => IsFiniteSet(Used) /\ \A i \in Used : i \in Rec /\ Bytes[i] = rec[i].bytes /\ Bytes[i] \in Nat
    /\ \A i \in Rec : Bytes'[i] = rec'[i].bytes
<1>1. Used \in SUBSET Rec
  BY DEF Used
<1>2. \A i \in Rec : Bytes[i] = rec[i].bytes /\ Bytes'[i] = rec'[i].bytes
  BY DEF Bytes
<1> QED
  BY <1>1, <1>2, UsedFinite, RecTyped

\* abk_sandbox_mount_reserve
LEMMA ReserveBooks ==
    ASSUME TypeOK, AccountsExact, NEW t \in Thread, NEW n \in Size \cup {0}, Reserve(t, n)
    PROVE  /\ phase = "active" /\ phase' = phase
           /\ rec' \in [Rec -> Record] /\ count' \in Nat /\ bytes' \in Nat
           /\ AccountsExact'
           /\ \E i \in Rec : Booked(t, i) /\ rec'[i].bytes = n
<1>1. /\ rec \in [Rec -> Record] /\ count \in Nat /\ bytes \in Nat /\ n \in Nat
      /\ TmpfsLimit \in Nat
  BY MountConstants DEF TypeOK
<1>2. /\ phase = "active" /\ phase' = phase /\ n <= TmpfsLimit - bytes
      /\ count' = count + 1 /\ bytes' = bytes + n
  BY DEF Reserve, CanReserve
<1> DEFINE b == [state |-> "PENDING", owner |-> t, mnt |-> NoMnt, bytes |-> n]
<1>3. PICK i \in Rec : rec[i].state = "FREE" /\ rec' = [rec EXCEPT ![i] = b]
  BY DEF Reserve, FirstOf
<1>4. b \in Record /\ b.state = "PENDING" /\ b.owner = t /\ b.bytes = n
  BY DEF Record, AnyMnt
<1>5. rec' \in [Rec -> Record] /\ rec'[i] = b /\ \A j \in Rec \ {i} : rec'[j] = rec[j]
  BY <1>1, <1>3, <1>4
<1>6. Used' = Used \cup {i} /\ i \notin Used /\ Used \subseteq Rec
  BY <1>3, <1>4, <1>5 DEF Used
<1>7. Cardinality(Used') = Cardinality(Used) + 1
  BY <1>6, UsedFinite, FS_AddElement
<1>8. SumOver(Bytes', Used') = n + SumOver(Bytes, Used)
  <2>1. PICK f, h, S : f = Bytes /\ h = Bytes' /\ S = Used
    OBVIOUS
  <2>2. IsFiniteSet(S) /\ i \notin S /\ h[i] \in Nat /\ h[i] = n
    BY <1>1, <1>4, <1>5, <1>6, <2>1, UsedBytes
  <2>3. \A y \in S : f[y] \in Nat /\ h[y] = f[y]
    BY <1>5, <1>6, <2>1, UsedBytes
  <2>4. SumOver(h, S \cup {i}) = h[i] + SumOver(f, S)
    BY <2>2, <2>3, SumGrows
  <2> QED
    BY <1>6, <2>1, <2>2, <2>4
<1>9. AccountsExact'
  BY <1>1, <1>2, <1>7, <1>8 DEF AccountsExact
<1>10. Booked(t, i) /\ rec'[i].bytes = n
  BY <1>3, <1>4, <1>5 DEF Booked
<1> QED
  BY <1>1, <1>2, <1>5, <1>9, <1>10

\* abk_clear_mount_locked
LEMMA ClearMountClears ==
    ASSUME TypeOK, AccountsExact, NEW i \in Rec, rec[i].state # "FREE", ClearMount(i)
    PROVE  /\ phase' = phase
           /\ rec' \in [Rec -> Record] /\ count' \in Nat /\ bytes' \in Nat
           /\ AccountsExact'
           /\ Cleared(i)
<1>1. /\ rec \in [Rec -> Record] /\ count \in Nat /\ bytes \in Nat /\ rec[i].bytes \in Nat
      /\ TmpfsLimit \in Nat
  BY RecTyped, MountConstants DEF TypeOK
<1>2. /\ phase' = phase /\ rec' = [rec EXCEPT ![i] = FreeRec]
      /\ count' = (IF count > 0 THEN count - 1 ELSE 0)
      /\ bytes' = (IF rec[i].bytes <= bytes THEN bytes - rec[i].bytes ELSE bytes)
  BY DEF ClearMount
<1>3. rec' \in [Rec -> Record] /\ rec'[i].state = "FREE" /\ \A j \in Rec \ {i} : rec'[j] = rec[j]
  BY <1>1, <1>2, FreeRecTyped
<1>4. Used' = Used \ {i} /\ i \in Used /\ Used \subseteq Rec
  BY <1>3 DEF Used
<1>5. Cardinality(Used') = Cardinality(Used) - 1 /\ Cardinality(Used') \in Nat
  BY <1>4, UsedFinite, FS_RemoveElement
<1>6. SumOver(Bytes, Used) = rec[i].bytes + SumOver(Bytes', Used') /\ SumOver(Bytes', Used') \in Nat
  <2>1. PICK f, h, S : f = Bytes /\ h = Bytes' /\ S = Used
    OBVIOUS
  <2>2. IsFiniteSet(S) /\ i \in S /\ f[i] = rec[i].bytes
    BY <1>4, <2>1, UsedBytes
  <2>3. \A y \in S : f[y] \in Nat /\ (y # i => h[y] = f[y])
    BY <1>3, <1>4, <2>1, UsedBytes
  <2>4. SumOver(f, S) = f[i] + SumOver(h, S \ {i}) /\ SumOver(h, S \ {i}) \in Nat
    BY <2>2, <2>3, SumShrinks
  <2> QED
    BY <1>4, <2>1, <2>2, <2>4
<1>7. count' = count - 1 /\ count' \in Nat /\ bytes' \in Nat /\ bytes' = bytes - rec[i].bytes
  BY <1>1, <1>2, <1>5, <1>6 DEF AccountsExact
<1>8. AccountsExact'
  BY <1>1, <1>5, <1>6, <1>7 DEF AccountsExact
<1> QED
  BY <1>2, <1>3, <1>7, <1>8 DEF Cleared

\* A reservation becomes the record of a mount.
LEMMA TrackKeeps ==
    ASSUME TypeOK, AccountsExact, NEW t \in Thread, NEW i \in Rec, rec[i].state # "FREE",
           rec' = [rec EXCEPT ![i].state = "TRACKED", ![i].owner = NoThread, ![i].mnt = op[t].mnt],
           UNCHANGED <<phase, count, bytes>>
    PROVE  rec' \in [Rec -> Record] /\ AccountsExact' /\ Kept(t, i)
<1> DEFINE b == [rec[i] EXCEPT !.state = "TRACKED", !.owner = NoThread, !.mnt = op[t].mnt]
<1>1. rec \in [Rec -> Record] /\ rec[i] \in Record /\ op[t].mnt \in AnyMnt
  BY RecTyped, CallTyped DEF TypeOK
<1>2. b \in Record /\ b.state = "TRACKED" /\ b.mnt = op[t].mnt /\ b.bytes = rec[i].bytes
  BY <1>1 DEF Record
<1>3. rec' = [rec EXCEPT ![i] = b]
  OBVIOUS
<1>4. rec' \in [Rec -> Record] /\ rec'[i] = b /\ \A j \in Rec \ {i} : rec'[j] = rec[j]
  BY <1>1, <1>2, <1>3
<1> HIDE DEF b
<1>5. Used' = Used /\ Bytes' = Bytes
  BY <1>2, <1>4 DEF Used, Bytes
<1> QED
  BY <1>2, <1>4, <1>5 DEF AccountsExact, Kept

\* What the two results do with the records.
LEMMA MountResultCases ==
    ASSUME TypeOK, AccountsExact, NEW t \in Thread, MountResult(t)
    PROVE  /\ rec' \in [Rec -> Record] /\ count' \in Nat /\ bytes' \in Nat
           /\ AccountsExact' /\ phase' = phase
           /\ \/ (phase # "active" \/ Pending(t) = {}) /\ UNCHANGED <<rec, count, bytes>>
              \/ phase = "active" /\ op[t].error /\ \E i \in Pending(t) : Cleared(i)
              \/ phase = "active" /\ ~op[t].error /\ \E i \in Pending(t) : Kept(t, i)
<1>1. CASE UNCHANGED instVars /\ (phase # "active" \/ Pending(t) = {})
  BY <1>1 DEF instVars, AccountsExact, Used, Bytes, TypeOK
<1>2. ASSUME NEW i \in Pending(t), ClearMount(i), phase = "active", op[t].error
      PROVE  /\ rec' \in [Rec -> Record] /\ count' \in Nat /\ bytes' \in Nat
             /\ AccountsExact' /\ phase' = phase /\ Cleared(i)
  BY <1>2, ClearMountClears DEF Pending
<1>3. ASSUME NEW i \in Pending(t), UNCHANGED <<phase, count, bytes>>,
             rec' = [rec EXCEPT ![i].state = "TRACKED", ![i].owner = NoThread,
                                ![i].mnt = op[t].mnt]
      PROVE  /\ rec' \in [Rec -> Record] /\ count' \in Nat /\ bytes' \in Nat
             /\ AccountsExact' /\ phase' = phase /\ Kept(t, i)
  BY <1>3, TrackKeeps DEF Pending, TypeOK
<1>4. \A i \in FirstOf(Pending(t)) : i \in Pending(t)
  BY DEF FirstOf
<1> QED
  BY <1>1, <1>2, <1>3, <1>4 DEF MountResult, instVars

LEMMA UmountResultCases ==
    ASSUME TypeOK, AccountsExact, NEW t \in Thread, UmountResult(t)
    PROVE  /\ rec' \in [Rec -> Record] /\ count' \in Nat /\ bytes' \in Nat
           /\ AccountsExact' /\ phase' = phase
           /\ \/ (phase # "active" \/ Tracked(op[t].path) = {}) /\ UNCHANGED <<rec, count, bytes>>
              \/ phase = "active" /\ \E i \in Tracked(op[t].path) : Cleared(i)
<1>1. CASE UNCHANGED instVars /\ (phase # "active" \/ Tracked(op[t].path) = {})
  BY <1>1 DEF instVars, AccountsExact, Used, Bytes, TypeOK
<1>2. ASSUME NEW i \in Tracked(op[t].path), ClearMount(i), phase = "active"
      PROVE  /\ rec' \in [Rec -> Record] /\ count' \in Nat /\ bytes' \in Nat
             /\ AccountsExact' /\ phase' = phase /\ Cleared(i)
  BY <1>2, ClearMountClears DEF Tracked
<1>3. \A i \in FirstOf(Tracked(op[t].path)) : i \in Tracked(op[t].path)
  BY DEF FirstOf
<1> QED
  BY <1>1, <1>2, <1>3 DEF UmountResult, instVars

-----------------------------------------------------------------------------
(* The kinds of steps.                                                     *)

\* A call goes on without making or ending a mount or a record.
GoesOn(t) ==
    /\ Moved(t) /\ UNCHANGED <<phase, rec, count, bytes, stack, msize>>
    /\ ~HasMade(op[t]) /\ op[t].at # "uresult"
    /\ ~HasMade(op'[t]) /\ op'[t].at # "uresult"
    /\ Holds(op'[t]) => Holds(op[t])
    /\ MayHold(op[t]) /\ NsMatches /\ ~regime.nsPathFails => MayHold(op'[t])
    /\ op'[t].path \in {op[t].path, NoMnt} \cup {Top(g) : g \in Target}
    /\ op[t].at = "gone" => phase = "active"
    /\ Orderly(t)

\* A call reserves a record.
Books(t) ==
    /\ Moved(t) /\ UNCHANGED <<phase, stack, msize>> /\ phase = "active"
    /\ ~HasMade(op[t]) /\ op[t].at # "uresult"
    /\ ~HasMade(op'[t]) /\ op'[t].at # "uresult"
    /\ ~MayHold(op[t]) /\ MayHold(op'[t])
    /\ op'[t].path = op[t].path
    /\ rec' \in [Rec -> Record] /\ count' \in Nat /\ bytes' \in Nat
    /\ AccountsExact'
    /\ Orderly(t) /\ SameCall(t)
    /\ \E i \in Rec :
        /\ Booked(t, i)
        /\ rec'[i].bytes = op[t].size \/ (op[t].at = "bind" /\ rec'[i].bytes = 0)

LEMMA CallGoesOn ==
    ASSUME TypeOK, NEW t \in Thread,
           \/ Enter(t) \/ Leave(t)
           \/ \E k \in {"tmpfs", "bind"}, g \in Target, n \in Size \cup {0} : MountCall(t, k, g, n)
           \/ \E g \in Target : UmountCall(t, g)
           \/ SbMountDenied(t) \/ SbMountBind(t) \/ MayMount(t) \/ MayNotMount(t)
           \/ BindDenied(t) \/ AttachFails(t) \/ UmountValidate(t) \/ UmountFails(t)
    PROVE  GoesOn(t)
<1>1. op \in [Thread -> Call]
  BY DEF TypeOK
<1>2. CASE Enter(t) \/ MayNotMount(t) \/ UmountFails(t)
  <2>1. Back(t) /\ UNCHANGED <<instVars, kernelVars>>
    BY <1>2 DEF Enter, MayNotMount, UmountFails
  <2>2. /\ op[t].at \in {"gone", "priv", "uvalidate", "udo"} /\ (op[t].at = "gone" => phase = "active")
        /\ op[t].at = "priv" => NsMismatch
    BY <1>2 DEF Enter, MayNotMount, UmountFails
  <2>3. Moved(t) /\ op'[t].at = "user" /\ op'[t].path = NoMnt /\ Orderly(t)
    BY <2>1, CallBack, IdleTyped DEF Orderly, InCall
  <2> QED
    BY <2>1, <2>2, <2>3 DEF GoesOn, HasMade, Holds, MayHold, NsMatches, NsMismatch, instVars,
                            kernelVars
<1>3. CASE Leave(t)
  <2>1. op' = [op EXCEPT ![t] = Gone] /\ UNCHANGED <<instVars, kernelVars>> /\ op[t].at = "user"
    BY <1>3 DEF Leave
  <2>2. Moved(t) /\ op'[t].at = "gone" /\ op'[t].path = NoMnt /\ Orderly(t)
    BY <1>1, <2>1, IdleTyped DEF Moved, Orderly, InCall
  <2> QED
    BY <2>1, <2>2 DEF GoesOn, HasMade, Holds, MayHold, instVars, kernelVars
<1>4. ASSUME NEW k \in {"tmpfs", "bind"}, NEW g \in Target, NEW n \in Size \cup {0},
             MountCall(t, k, g, n)
      PROVE  GoesOn(t)
  <2>1. op[t].at = "user" /\ UNCHANGED <<instVars, kernelVars>>
    BY <1>4 DEF MountCall
  <2>2. Moved(t) /\ op'[t].at = "sb" /\ op'[t].path = Top(g) /\ Orderly(t)
    BY <1>4, CallBegins
  <2> QED
    BY <2>1, <2>2 DEF GoesOn, HasMade, Holds, MayHold, instVars, kernelVars
<1>5. ASSUME NEW g \in Target, UmountCall(t, g)
      PROVE  GoesOn(t)
  <2>1. op[t].at = "user" /\ UNCHANGED <<instVars, kernelVars>>
    BY <1>5 DEF UmountCall
  <2>2. Moved(t) /\ op'[t].at = "uvalidate" /\ op'[t].path = Top(g) /\ Orderly(t)
    BY <1>5, CallBegins
  <2> QED
    BY <2>1, <2>2 DEF GoesOn, HasMade, Holds, MayHold, instVars, kernelVars
<1>6. CASE SbMountDenied(t) \/ BindDenied(t) \/ AttachFails(t)
  <2>1. Result(t, TRUE) /\ UNCHANGED <<instVars, kernelVars>> /\ op[t].at \in {"sb", "bind", "attach"}
    BY <1>6 DEF SbMountDenied, BindDenied, AttachFails
  <2>2. Moved(t) /\ op'[t].at = "result" /\ op'[t].error = TRUE /\ op'[t].path = op[t].path
        /\ Orderly(t)
    BY <2>1, CallResult DEF SameCall, Orderly, InCall
  <2> QED
    BY <2>1, <2>2 DEF GoesOn, HasMade, Holds, MayHold, instVars, kernelVars
<1>7. CASE SbMountBind(t) \/ MayMount(t) \/ UmountValidate(t)
  <2>1. PICK w \in {"priv", "bind", "attach", "udo"} :
            /\ At(t, w)
            /\ op[t].at \in {"sb", "priv", "uvalidate"}
            /\ w = "attach" => op[t].at = "priv" /\ op[t].kind # "bind"
            /\ w = "priv" => op[t].kind = "bind"
            /\ op[t].at = "priv" /\ op[t].kind # "bind" => w = "attach"
            /\ w = "bind" => op[t].kind = "bind"
    BY <1>7 DEF SbMountBind, MayMount, UmountValidate
  <2>2. UNCHANGED <<instVars, kernelVars>>
    BY <1>7 DEF SbMountBind, MayMount, UmountValidate
  <2>3. Moved(t) /\ op'[t].at = w /\ op'[t].path = op[t].path /\ op'[t].kind = op[t].kind
        /\ Orderly(t)
    BY <2>1, CallAt DEF SameCall, Where, Orderly, InCall
  <2> QED
    BY <2>1, <2>2, <2>3 DEF GoesOn, HasMade, Holds, MayHold, instVars, kernelVars
<1> QED
  BY <1>2, <1>3, <1>4, <1>5, <1>6, <1>7

LEMMA CallBooks ==
    ASSUME TypeOK, AccountsExact, NEW t \in Thread, SbMountTmpfs(t) \/ BindValidate(t)
    PROVE  Books(t)
<1>1. PICK w \in {"priv", "attach"}, n \in Size \cup {0} :
            At(t, w) /\ Reserve(t, n) /\ (n = op[t].size \/ (op[t].at = "bind" /\ n = 0))
  BY CallTyped DEF SbMountTmpfs, BindValidate
<1>2. /\ op[t].at \in {"sb", "bind"} /\ UNCHANGED kernelVars
      /\ At(t, "attach") \/ (At(t, "priv") /\ op[t].kind = "tmpfs")
  BY DEF SbMountTmpfs, BindValidate
<1>3. Moved(t) /\ op'[t].at = w /\ op'[t].path = op[t].path /\ op'[t].kind = op[t].kind
      /\ SameCall(t) /\ Orderly(t)
  BY <1>1, <1>2, CallAt DEF SameCall, Where, Orderly, InCall
<1>4. op'[t].at = "attach" \/ (op'[t].at = "priv" /\ op[t].kind = "tmpfs")
  BY <1>2, CallAt DEF Where
<1> QED
  BY <1>1, <1>2, <1>3, <1>4, ReserveBooks DEF Books, HasMade, Holds, MayHold, kernelVars

LEMMA StepKinds ==
    ASSUME TypeOK, AccountsExact, [Next]_vars
    PROVE  /\ regime' = regime
           /\ \/ UNCHANGED vars
              \/ \E t \in Thread : \/ GoesOn(t) \/ Books(t) \/ Attach(t) \/ FollowDown(t)
                                   \/ MountResult(t) \/ DoUmount(t) \/ UmountResult(t) \/ Open(t)
              \/ Mark \/ Detach \/ Close
<1>1. regime' = regime
  BY DEF Next, vars
<1>2. CASE UNCHANGED vars
  BY <1>1, <1>2
<1>3. CASE Step
  BY <1>1, <1>3, CallGoesOn, CallBooks DEF Step, MountStep, UmountStep
<1> QED
  BY <1>2, <1>3 DEF Next

-----------------------------------------------------------------------------
(* Types and accounts.                                                     *)

LEMMA InheritedTyped == Inherited \in [Target -> Seq(Mnt \cup InheritedMnt)]
<1>1. Inherited \in [Target -> Seq(InheritedMnt)]
  BY MountConstants
<1>2. ASSUME NEW g \in Target
      PROVE  Inherited[g] \in Seq(Mnt \cup InheritedMnt)
  BY <1>1
<1> QED
  BY <1>1, <1>2

\* No record is in use when all are cleared.
LEMMA NoneUsed ==
    ASSUME rec' = [i \in Rec |-> FreeRec], count' = 0, bytes' = 0
    PROVE  rec' \in [Rec -> Record] /\ count' \in Nat /\ bytes' \in Nat /\ AccountsExact'
<1>1. Used' = {}
  BY FreeRecTyped DEF Used
<1> QED
  BY <1>1, FreeRecTyped, FS_EmptySet, SumNone, MountConstants DEF AccountsExact

\* A new mount on top, and the topmost gone.
LEMMA AttachShape ==
    ASSUME TypeOK, NEW t \in Thread, Attach(t)
    PROVE  /\ op[t].at = "attach" /\ UNCHANGED <<phase, rec, count, bytes>>
           /\ Moved(t) /\ SameCall(t) /\ op'[t].at = "peek" /\ op'[t].mnt = op[t].mnt
           /\ op'[t].error = FALSE
           /\ msize' \in [Mnt -> Size \cup {0}] /\ stack' \in [Target -> Seq(Mnt \cup InheritedMnt)]
           /\ \E m \in Mnt \ Live :
                /\ ~Pinned(m) /\ \A i \in Rec : rec[i].mnt # m
                /\ Len(stack'[op[t].target]) = Len(stack[op[t].target]) + 1
                /\ stack'[op[t].target][Len(stack[op[t].target]) + 1] = m
                /\ \A i \in 1..Len(stack[op[t].target]) :
                        stack'[op[t].target][i] = stack[op[t].target][i]
                /\ \A h \in Target \ {op[t].target} : stack'[h] = stack[h]
                /\ msize'[m] = op[t].size /\ \A k \in Mnt \ {m} : msize'[k] = msize[k]
<1> DEFINE g == op[t].target
<1>1. g \in Target /\ op[t].size \in Size \cup {0} /\ Result(t, FALSE)
  BY CallTyped DEF Attach
<1>2. PICK m \in Mnt \ Live :
        /\ ~Pinned(m) /\ \A i \in Rec : rec[i].mnt # m
        /\ stack' = [stack EXCEPT ![g] = Append(stack[g], m)]
        /\ msize' = [msize EXCEPT ![m] = op[t].size]
  BY DEF Attach
<1>3. stack \in [Target -> Seq(Mnt \cup InheritedMnt)] /\ msize \in [Mnt -> Size \cup {0}]
  BY DEF TypeOK
<1>4. /\ Append(stack[g], m) \in Seq(Mnt \cup InheritedMnt)
      /\ Len(Append(stack[g], m)) = Len(stack[g]) + 1
      /\ Append(stack[g], m)[Len(stack[g]) + 1] = m
      /\ \A i \in 1..Len(stack[g]) : Append(stack[g], m)[i] = stack[g][i]
  BY <1>1, <1>3
<1>5. /\ stack' \in [Target -> Seq(Mnt \cup InheritedMnt)] /\ msize' \in [Mnt -> Size \cup {0}]
      /\ stack'[g] = Append(stack[g], m) /\ \A h \in Target \ {g} : stack'[h] = stack[h]
      /\ msize'[m] = op[t].size /\ \A k \in Mnt \ {m} : msize'[k] = msize[k]
  BY <1>1, <1>2, <1>3, <1>4
<1>6. /\ Moved(t) /\ SameCall(t) /\ op'[t].at = "peek" /\ op'[t].mnt = op[t].mnt
      /\ op'[t].error = FALSE
  BY <1>1, CallResult
<1> QED
  BY <1>2, <1>4, <1>5, <1>6 DEF Attach, instVars

LEMMA UmountShape ==
    ASSUME TypeOK, NEW t \in Thread, DoUmount(t)
    PROVE  /\ phase = "active" /\ op[t].at = "udo" /\ UNCHANGED <<phase, rec, count, bytes, msize>>
           /\ Moved(t) /\ SameCall(t) /\ op'[t].at = "uresult" /\ op'[t].mnt = op[t].mnt
           /\ Top(op[t].target) = op[t].path /\ Tracked(op[t].path) # {}
           /\ \A r \in Thread \ {t} : op[r].path # op[t].path
           /\ stack' \in [Target -> Seq(Mnt \cup InheritedMnt)]
           /\ stack[op[t].target] # <<>> =>
                /\ Len(stack'[op[t].target]) = Len(stack[op[t].target]) - 1
                /\ \A i \in 1..Len(stack'[op[t].target]) :
                        stack'[op[t].target][i] = stack[op[t].target][i]
           /\ \A h \in Target \ {op[t].target} : stack'[h] = stack[h]
<1> DEFINE g == op[t].target
           s == SubSeq(stack[g], 1, Len(stack[g]) - 1)
<1>1. g \in Target
  BY CallTyped
<1>2. /\ stack' = [stack EXCEPT ![g] = s]
      /\ phase = "active" /\ op[t].at = "udo" /\ UNCHANGED <<phase, rec, count, bytes, msize>>
      /\ At(t, "uresult") /\ Top(g) = op[t].path /\ Tracked(op[t].path) # {}
      /\ \A r \in Thread \ {t} : op[r].path # op[t].path
  BY DEF DoUmount, UmountPermitted, NsMatches, instVars
<1>3. stack \in [Target -> Seq(Mnt \cup InheritedMnt)] /\ stack[g] \in Seq(Mnt \cup InheritedMnt)
  BY <1>1 DEF TypeOK
<1>4. CASE stack[g] # <<>>
  <2>1. Len(stack[g]) \in Nat \ {0}
    BY <1>3, <1>4
  <2>2. s \in Seq(Mnt \cup InheritedMnt) /\ Len(s) = Len(stack[g]) - 1
        /\ \A i \in 1..Len(s) : s[i] = stack[g][i]
    BY <1>3, <2>1
  <2> QED
    BY <1>1, <1>2, <1>3, <2>2, CallAt DEF Where
<1>5. CASE stack[g] = <<>>
  <2>1. s = <<>>
    BY <1>5
  <2>2. stack' = stack
    BY <1>2, <1>3, <1>5, <2>1
  <2> QED
    BY <1>1, <1>2, <1>3, <1>5, <2>2, CallAt DEF Where
<1> QED
  BY <1>4, <1>5

LEMMA NextTyped ==
    ASSUME TypeOK, AccountsExact, [Next]_vars
    PROVE  TypeOK' /\ AccountsExact'
<1>1. regime' = regime /\ regime \in Regimes
  BY StepKinds DEF TypeOK
<1>2. ASSUME UNCHANGED <<rec, count, bytes>>
      PROVE  /\ rec' \in [Rec -> Record] /\ count' \in Nat /\ bytes' \in Nat /\ AccountsExact'
  BY <1>2 DEF TypeOK, AccountsExact, Used, Bytes
<1>3. CASE UNCHANGED vars
  BY <1>1, <1>2, <1>3 DEF vars, TypeOK
<1>4. ASSUME NEW t \in Thread, GoesOn(t) \/ Books(t)
      PROVE  TypeOK' /\ AccountsExact'
  BY <1>1, <1>2, <1>4 DEF GoesOn, Books, Moved, TypeOK
<1>5. ASSUME NEW t \in Thread, Attach(t)
      PROVE  TypeOK' /\ AccountsExact'
  BY <1>1, <1>2, <1>5, AttachShape DEF Moved, TypeOK
<1>6. ASSUME NEW t \in Thread, FollowDown(t)
      PROVE  TypeOK' /\ AccountsExact'
  BY <1>1, <1>2, <1>6, CallFollows DEF FollowDown, Moved, TypeOK, instVars, kernelVars
<1>7. ASSUME NEW t \in Thread, MountResult(t)
      PROVE  TypeOK' /\ AccountsExact'
  BY <1>1, <1>7, CallBack, MountResultCases DEF MountResult, Moved, TypeOK, kernelVars
<1>8. ASSUME NEW t \in Thread, DoUmount(t)
      PROVE  TypeOK' /\ AccountsExact'
  BY <1>1, <1>2, <1>8, UmountShape DEF Moved, TypeOK
<1>9. ASSUME NEW t \in Thread, UmountResult(t)
      PROVE  TypeOK' /\ AccountsExact'
  BY <1>1, <1>9, CallBack, UmountResultCases DEF UmountResult, Moved, TypeOK, kernelVars
<1>10. ASSUME NEW t \in Thread, Open(t)
       PROVE  TypeOK' /\ AccountsExact'
  BY <1>1, <1>10, CallBack, NoneUsed, InheritedTyped DEF Open, Moved, TypeOK
<1>11. CASE Mark
  BY <1>1, <1>2, <1>11 DEF Mark, TypeOK, kernelVars
<1>12. CASE Detach
  BY <1>1, <1>12, NoneUsed DEF Detach, TypeOK, kernelVars
<1>13. CASE Close
  BY <1>1, <1>2, <1>13, InheritedTyped DEF Close, TypeOK
<1> QED
  BY <1>3, <1>4, <1>5, <1>6, <1>7, <1>8, <1>9, <1>10, <1>11, <1>12, <1>13, StepKinds

LEMMA InitTyped == Init => TypeOK /\ AccountsExact
<1> SUFFICES ASSUME Init PROVE TypeOK /\ AccountsExact
  OBVIOUS
<1>1. Used = {}
  BY FreeRecTyped DEF Init, Used
<1>2. AccountsExact
  BY <1>1, FS_EmptySet, SumNone, MountConstants DEF Init, AccountsExact
<1> QED
  BY <1>2, FreeRecTyped, IdleTyped, InheritedTyped DEF Init, TypeOK

\* Every variable keeps its type, whatever the threads do.
THEOREM MountsTypeCorrect == Spec => []TypeOK
BY InitTyped, NextTyped, PTL DEF Spec

\* The count of mounts is that of the records in use, the tmpfs bytes are the
\* sum of theirs, and they stay within the limit, after every locked section.
THEOREM MountsAccounted == Spec => []AccountsExact
BY InitTyped, NextTyped, PTL DEF Spec

-----------------------------------------------------------------------------
(* Reservations.                                                           *)

\* What a change of one record is to the reservations.
LEMMA PendingChanges ==
    ASSUME NEW t \in Thread, NEW i \in Rec
    PROVE  /\ Booked(t, i) =>
                /\ Pending(t)' = Pending(t) \cup {i}
                /\ \A r \in Thread \ {t} : Pending(r)' = Pending(r)
           /\ i \in Pending(t) /\ (Cleared(i) \/ Kept(t, i)) =>
                /\ Pending(t)' = Pending(t) \ {i}
                /\ \A r \in Thread \ {t} : Pending(r)' = Pending(r)
           /\ rec[i].state = "TRACKED" /\ Cleared(i) =>
                \A r \in Thread : Pending(r)' = Pending(r)
<1>1. ASSUME NEW r \in Thread, NEW j \in Rec
      PROVE  j \in Pending(r)' <=> rec'[j].state = "PENDING" /\ rec'[j].owner = r
  BY DEF Pending
<1>2. ASSUME NEW r \in Thread, NEW j \in Rec
      PROVE  j \in Pending(r) <=> rec[j].state = "PENDING" /\ rec[j].owner = r
  BY DEF Pending
<1>3. \A r \in Thread : Pending(r) \subseteq Rec /\ Pending(r)' \subseteq Rec
  BY DEF Pending
<1>4. ASSUME Booked(t, i)
      PROVE  /\ Pending(t)' = Pending(t) \cup {i}
             /\ \A r \in Thread \ {t} : Pending(r)' = Pending(r)
  <2>1. \A r \in Thread : \A j \in Rec : j \in Pending(r)' <=> j \in Pending(r) \/ (j = i /\ r = t)
    BY <1>1, <1>2, <1>4 DEF Booked
  <2> QED
    BY <1>3, <2>1
<1>5. ASSUME i \in Pending(t), Cleared(i) \/ Kept(t, i)
      PROVE  /\ Pending(t)' = Pending(t) \ {i}
             /\ \A r \in Thread \ {t} : Pending(r)' = Pending(r)
  <2>1. \A r \in Thread : \A j \in Rec : j \in Pending(r)' <=> j \in Pending(r) /\ j # i
    BY <1>1, <1>2, <1>5 DEF Cleared, Kept
  <2>2. \A r \in Thread \ {t} : i \notin Pending(r)
    BY <1>2, <1>5
  <2> QED
    BY <1>3, <2>1, <2>2
<1>6. ASSUME rec[i].state = "TRACKED", Cleared(i)
      PROVE  \A r \in Thread : Pending(r)' = Pending(r)
  <2>1. \A r \in Thread : \A j \in Rec : j \in Pending(r)' <=> j \in Pending(r)
    BY <1>1, <1>2, <1>6 DEF Cleared
  <2> QED
    BY <1>3, <2>1
<1> QED
  BY <1>4, <1>5, <1>6

LEMMA PendingSame == rec' = rec => \A r \in Thread : Pending(r)' = Pending(r)
BY DEF Pending

LEMMA NextReserved ==
    ASSUME TypeOK, AccountsExact, Reserved, AllGone, PendingOne, [Next]_vars
    PROVE  Reserved' /\ AllGone' /\ PendingOne'
<1>1. regime' = regime
  BY StepKinds
<1>2. CASE UNCHANGED vars
  BY <1>2, PendingSame DEF vars, Reserved, AllGone, PendingOne
<1>3. ASSUME NEW t \in Thread, GoesOn(t)
      PROVE  Reserved' /\ AllGone' /\ PendingOne'
  <2>1. \A r \in Thread : Pending(r)' = Pending(r)
    BY <1>3, PendingSame DEF GoesOn
  <2> QED
    BY <1>1, <1>3, <2>1 DEF GoesOn, Moved, Reserved, AllGone, PendingOne, NsMatches
<1>4. ASSUME NEW t \in Thread, Books(t)
      PROVE  Reserved' /\ AllGone' /\ PendingOne'
  <2>1. PICK i \in Rec : Booked(t, i)
    BY <1>4 DEF Books
  <2>2. /\ Pending(t)' = Pending(t) \cup {i}
        /\ \A r \in Thread \ {t} : Pending(r)' = Pending(r)
    BY <2>1, PendingChanges
  <2>3. ~regime.nsPathFails /\ phase = "active" => Pending(t) = {}
    BY <1>4 DEF Books, PendingOne
  <2> QED
    BY <1>1, <1>4, <2>2, <2>3 DEF Books, Moved, Reserved, AllGone, PendingOne
<1>5. ASSUME NEW t \in Thread, Attach(t) \/ FollowDown(t) \/ DoUmount(t)
      PROVE  Reserved' /\ AllGone' /\ PendingOne'
  <2>1. /\ Moved(t) /\ UNCHANGED <<phase, rec>> /\ op[t].at # "gone"
        /\ Holds(op'[t]) => Holds(op[t])
        /\ MayHold(op[t]) => MayHold(op'[t])
    <3>1. CASE Attach(t)
      BY <3>1, AttachShape DEF Holds, MayHold, HasMade
    <3>2. CASE FollowDown(t)
      BY <3>2, CallFollows DEF FollowDown, Holds, MayHold, HasMade, instVars
    <3>3. CASE DoUmount(t)
      BY <3>3, UmountShape DEF Holds, MayHold, HasMade
    <3> QED
      BY <1>5, <3>1, <3>2, <3>3
  <2>2. \A r \in Thread : Pending(r)' = Pending(r)
    BY <2>1, PendingSame
  <2> QED
    BY <1>1, <2>1, <2>2 DEF Moved, Reserved, AllGone, PendingOne
<1>6. ASSUME NEW t \in Thread, MountResult(t)
      PROVE  Reserved' /\ AllGone' /\ PendingOne'
  <2>1. Moved(t) /\ op'[t].at = "user" /\ ~Holds(op'[t]) /\ op[t].at = "result"
    BY <1>6, CallBack DEF MountResult, Holds, HasMade
  <2>2. /\ phase' = phase
        /\ \A r \in Thread \ {t} : Pending(r)' = Pending(r)
        /\ phase = "active" =>
                Pending(t)' = {} \/ \E i \in Pending(t) : Pending(t)' = Pending(t) \ {i}
    <3>1. CASE (phase # "active" \/ Pending(t) = {}) /\ rec' = rec /\ phase' = phase
      BY <3>1, PendingSame
    <3>2. ASSUME NEW i \in Pending(t), Cleared(i) \/ Kept(t, i)
          PROVE  /\ Pending(t)' = Pending(t) \ {i}
                 /\ \A r \in Thread \ {t} : Pending(r)' = Pending(r)
      <4>1. i \in Rec
        BY DEF Pending
      <4> QED
        BY <3>2, <4>1, PendingChanges
    <3> QED
      BY <1>6, <3>1, <3>2, MountResultCases
  <2>3. ~regime.nsPathFails /\ phase = "active" => Pending(t)' = {}
    BY <2>2 DEF PendingOne
  <2> QED
    BY <1>1, <2>1, <2>2, <2>3 DEF Moved, Reserved, AllGone, PendingOne
<1>7. ASSUME NEW t \in Thread, UmountResult(t)
      PROVE  Reserved' /\ AllGone' /\ PendingOne'
  <2>1. /\ Moved(t) /\ op'[t].at = "user" /\ ~Holds(op'[t]) /\ op[t].at = "uresult"
        /\ ~MayHold(op[t])
    BY <1>7, CallBack DEF UmountResult, Holds, HasMade, MayHold
  <2>2. phase' = phase /\ \A r \in Thread : Pending(r)' = Pending(r)
    <3>1. ASSUME NEW i \in Tracked(op[t].path), Cleared(i)
          PROVE  \A r \in Thread : Pending(r)' = Pending(r)
      <4>1. i \in Rec /\ rec[i].state = "TRACKED"
        BY DEF Tracked
      <4> QED
        BY <3>1, <4>1, PendingChanges
    <3> QED
      BY <1>7, <3>1, PendingSame, UmountResultCases
  <2> QED
    BY <1>1, <2>1, <2>2 DEF Moved, Reserved, AllGone, PendingOne
<1>8. ASSUME NEW t \in Thread, Open(t)
      PROVE  Reserved' /\ AllGone' /\ PendingOne'
  <2>1. /\ Moved(t) /\ op'[t].at = "user" /\ phase = "absent" /\ phase' = "active"
        /\ rec' = [i \in Rec |-> FreeRec]
    BY <1>8, CallBack DEF Open
  <2>2. \A r \in Thread : Pending(r)' = {}
    BY <2>1, FreeRecTyped DEF Pending
  <2>3. \A r \in Thread : op'[r].at \in {"gone", "user"}
    BY <2>1 DEF Moved, AllGone
  <2> QED
    BY <2>1, <2>2, <2>3 DEF Reserved, AllGone, PendingOne, Holds, HasMade
<1>9. CASE Mark \/ Detach \/ Close
  BY <1>9 DEF Mark, Detach, Close, Reserved, AllGone, PendingOne
<1> QED
  BY <1>2, <1>3, <1>4, <1>5, <1>6, <1>7, <1>8, <1>9, StepKinds

LEMMA InitReserved == Init => Reserved /\ AllGone /\ PendingOne
BY IdleTyped DEF Init, Reserved, AllGone, PendingOne

\* A reservation belongs to a call in progress, one to each thread, as long as
\* no namespace lookup fails.
THEOREM ReservationsReturned == Spec => []PendingHasCall
<1> DEFINE Inv == TypeOK /\ AccountsExact /\ Reserved /\ AllGone /\ PendingOne
<1>1. Init => Inv
  BY InitTyped, InitReserved
<1>2. Inv /\ [Next]_vars => Inv'
  BY NextTyped, NextReserved
<1>3. Inv => PendingHasCall
  <2> SUFFICES ASSUME Inv, ~regime.nsPathFails, phase = "active", NEW t \in Thread
               PROVE  Cardinality(Pending(t)) <=
                        IF op[t].at \in {"priv", "bind", "attach", "peek", "result"} THEN 1 ELSE 0
    BY DEF PendingHasCall
  <2>1. CASE Pending(t) = {}
    <3>1. Cardinality(Pending(t)) = 0
      BY <2>1, FS_EmptySet
    <3> QED
      BY <3>1
  <2>2. ASSUME NEW i \in Pending(t)
        PROVE  Cardinality(Pending(t)) = 1 /\ MayHold(op[t])
    BY <2>2, FS_Singleton DEF PendingOne
  <2> QED
    BY <2>1, <2>2 DEF MayHold, Holds, HasMade
<1> QED
  BY <1>1, <1>2, <1>3, PTL DEF Spec

-----------------------------------------------------------------------------
(* The stacks.                                                             *)

LEMMA StackTyped ==
    ASSUME TypeOK, NEW g \in Target
    PROVE  /\ Len(stack[g]) \in Nat /\ DOMAIN stack[g] = 1..Len(stack[g])
           /\ Len(Inherited[g]) \in Nat /\ DOMAIN Inherited[g] = 1..Len(Inherited[g])
           /\ \A i \in DOMAIN Inherited[g] : Inherited[g][i] \notin Mnt
<1>1. stack[g] \in Seq(Mnt \cup InheritedMnt)
  BY DEF TypeOK
<1>2. Inherited[g] \in Seq(InheritedMnt) /\ Mnt \cap InheritedMnt = {}
  BY MountConstants
<1>3. \A i \in DOMAIN Inherited[g] : Inherited[g][i] \in InheritedMnt
  BY <1>2
<1> QED
  BY <1>1, <1>2, <1>3

LEMMA InheritedIsBelow == stack = Inherited => InheritedBelow /\ OnePlace
<1> SUFFICES ASSUME stack = Inherited PROVE InheritedBelow /\ OnePlace
  OBVIOUS
<1>1. ASSUME NEW g \in Target
      PROVE  /\ Len(stack[g]) \in Nat /\ DOMAIN stack[g] = 1..Len(stack[g])
             /\ \A i \in DOMAIN stack[g] : stack[g][i] \notin Mnt
  <2>1. Inherited[g] \in Seq(InheritedMnt) /\ Mnt \cap InheritedMnt = {}
    BY MountConstants
  <2>2. \A i \in DOMAIN Inherited[g] : Inherited[g][i] \in InheritedMnt
    BY <2>1
  <2> QED
    BY <2>1, <2>2
<1> QED
  BY <1>1 DEF InheritedBelow, OnePlace

LEMMA SameStacks ==
    ASSUME stack' = stack, InheritedBelow, OnePlace
    PROVE  InheritedBelow' /\ OnePlace' /\ Live' = Live /\ \A G : LiveIn(G)' = LiveIn(G)
BY DEF InheritedBelow, OnePlace, Live, LiveIn

\* What do_new_mount and do_loopback do.
LEMMA AttachStacks ==
    ASSUME TypeOK, InheritedBelow, OnePlace, NEW t \in Thread, Attach(t)
    PROVE  /\ InheritedBelow' /\ OnePlace'
           /\ \E m \in Mnt \ Live :
                /\ ~Pinned(m) /\ \A i \in Rec : rec[i].mnt # m
                /\ \A h \in Target : \A i \in DOMAIN stack'[h] :
                        (i \in DOMAIN stack[h] /\ stack'[h][i] = stack[h][i])
                        \/ (h = op[t].target /\ stack'[h][i] = m)
                /\ Live' = Live \cup {m}
                /\ \A G \in SUBSET Target :
                        LiveIn(G)' = IF op[t].target \in G THEN LiveIn(G) \cup {m} ELSE LiveIn(G)
<1> DEFINE g == op[t].target
           n == Len(stack[g])
<1>1. PICK m \in Mnt \ Live :
        /\ ~Pinned(m) /\ \A i \in Rec : rec[i].mnt # m
        /\ Len(stack'[g]) = n + 1 /\ stack'[g][n + 1] = m
        /\ \A i \in 1..n : stack'[g][i] = stack[g][i]
        /\ \A h \in Target \ {g} : stack'[h] = stack[h]
  BY AttachShape
<1>2. g \in Target /\ n \in Nat /\ DOMAIN stack[g] = 1..n /\ Len(Inherited[g]) \in Nat
      /\ n >= Len(Inherited[g])
  BY CallTyped, StackTyped DEF InheritedBelow
<1>3. DOMAIN stack'[g] = 1..(n + 1)
  <2>1. stack'[g] \in Seq(Mnt \cup InheritedMnt)
    BY <1>2, AttachShape
  <2> QED
    BY <1>1, <2>1
<1>4. \A h \in Target : \A i \in DOMAIN stack[h] :
        i \in DOMAIN stack'[h] /\ stack'[h][i] = stack[h][i]
  <2>1. \A i \in 1..n : i \in 1..(n + 1) /\ stack'[g][i] = stack[g][i]
    BY <1>1, <1>2
  <2>2. \A h \in Target \ {g} : stack'[h] = stack[h]
    BY <1>1
  <2> QED
    BY <1>2, <1>3, <2>1, <2>2
<1>5. \A h \in Target : \A i \in DOMAIN stack'[h] :
        (i \in DOMAIN stack[h] /\ stack'[h][i] = stack[h][i])
        \/ (h = g /\ i = n + 1 /\ stack'[h][i] = m)
  <2>1. \A i \in 1..(n + 1) : (i \in 1..n /\ stack'[g][i] = stack[g][i])
                             \/ (i = n + 1 /\ stack'[g][i] = m)
    BY <1>1, <1>2
  <2>2. \A h \in Target \ {g} : stack'[h] = stack[h]
    BY <1>1
  <2> QED
    BY <1>2, <1>3, <2>1, <2>2
<1>6. n + 1 \in DOMAIN stack'[g] /\ n + 1 \notin DOMAIN stack[g]
  BY <1>2, <1>3
<1>7. \A h \in Target : \A i \in DOMAIN stack[h] : stack[h][i] # m
  BY DEF Live
<1>8. InheritedBelow'
  <2>1. ASSUME NEW h \in Target \ {g}
        PROVE  /\ Len(stack'[h]) >= Len(Inherited[h])
               /\ \A i \in 1..Len(stack'[h]) :
                    IF i <= Len(Inherited[h]) THEN stack'[h][i] = Inherited[h][i]
                    ELSE stack'[h][i] \in Mnt
    BY <1>1 DEF InheritedBelow
  <2>2. /\ Len(stack'[g]) >= Len(Inherited[g])
        /\ \A i \in 1..Len(stack'[g]) :
             IF i <= Len(Inherited[g]) THEN stack'[g][i] = Inherited[g][i]
             ELSE stack'[g][i] \in Mnt
    <3>1. \A i \in 1..n : IF i <= Len(Inherited[g]) THEN stack'[g][i] = Inherited[g][i]
                          ELSE stack'[g][i] \in Mnt
      BY <1>1, <1>2 DEF InheritedBelow
    <3>2. ~(n + 1 <= Len(Inherited[g])) /\ \A i \in 1..(n + 1) : i \in 1..n \/ i = n + 1
      BY <1>2
    <3> QED
      BY <1>1, <1>2, <3>1, <3>2
  <2> QED
    BY <2>1, <2>2 DEF InheritedBelow
<1>9. OnePlace'
  <2> SUFFICES ASSUME NEW h \in Target, NEW k \in Target,
                      NEW i \in DOMAIN stack'[h], NEW j \in DOMAIN stack'[k],
                      stack'[h][i] \in Mnt, stack'[h][i] = stack'[k][j]
               PROVE  h = k /\ i = j
    BY DEF OnePlace
  <2>1. CASE i \in DOMAIN stack[h] /\ stack'[h][i] = stack[h][i]
             /\ j \in DOMAIN stack[k] /\ stack'[k][j] = stack[k][j]
    BY <2>1 DEF OnePlace
  <2>2. CASE h = g /\ i = n + 1 /\ stack'[h][i] = m
    BY <1>5, <1>7, <2>2
  <2>3. CASE k = g /\ j = n + 1 /\ stack'[k][j] = m
    BY <1>5, <1>7, <2>3
  <2> QED
    BY <1>5, <2>1, <2>2, <2>3
<1>10. ASSUME NEW G \in SUBSET Target
       PROVE  LiveIn(G)' = IF g \in G THEN LiveIn(G) \cup {m} ELSE LiveIn(G)
  <2>1. CASE g \in G
    BY <1>1, <1>4, <1>5, <1>6, <2>1 DEF LiveIn
  <2>2. CASE g \notin G
    BY <1>4, <1>5, <2>2 DEF LiveIn
  <2> QED
    BY <2>1, <2>2
<1>11. Live = LiveIn(Target) /\ Live' = LiveIn(Target)'
  BY DEF Live, LiveIn
<1>12. Live' = Live \cup {m}
  BY <1>2, <1>10, <1>11
<1> QED
  BY <1>1, <1>5, <1>8, <1>9, <1>10, <1>12

\* What do_umount of a tracked mount does.
LEMMA UmountStacks ==
    ASSUME TypeOK, InheritedBelow, OnePlace, TrackedOurs, NEW t \in Thread, DoUmount(t)
    PROVE  /\ InheritedBelow' /\ OnePlace'
           /\ op[t].path \in Live
           /\ \E i \in DOMAIN stack[op[t].target] : stack[op[t].target][i] = op[t].path
           /\ \A h \in Target : \A i \in DOMAIN stack'[h] :
                i \in DOMAIN stack[h] /\ stack'[h][i] = stack[h][i]
           /\ Live' = Live \ {op[t].path}
           /\ \A G \in SUBSET Target :
                LiveIn(G)' = IF op[t].target \in G THEN LiveIn(G) \ {op[t].path} ELSE LiveIn(G)
<1> DEFINE g == op[t].target
           n == Len(stack[g])
           m == op[t].path
<1>1. m \in Mnt /\ Top(g) = m
  BY UmountShape DEF Tracked, TrackedOurs
<1>2. /\ g \in Target /\ n \in Nat /\ DOMAIN stack[g] = 1..n
      /\ Len(Inherited[g]) \in Nat /\ n >= Len(Inherited[g])
      /\ \A i \in 1..Len(Inherited[g]) : Inherited[g][i] \notin Mnt
  BY CallTyped, StackTyped DEF InheritedBelow
<1>3. stack[g] # <<>> /\ stack[g][n] = m
  <2>1. NoMnt \notin Mnt
    BY MountConstants
  <2> QED
    BY <1>1, <2>1 DEF Top
<1>4. n \in 1..n /\ n > Len(Inherited[g])
  <2>1. stack[g] \in Seq(Mnt \cup InheritedMnt)
    BY <1>2 DEF TypeOK
  <2>2. n # 0
    BY <1>3, <2>1
  <2>3. n \in 1..n
    BY <1>2, <2>2
  <2>4. n <= Len(Inherited[g]) => stack[g][n] = Inherited[g][n] /\ n \in 1..Len(Inherited[g])
    BY <1>2, <2>2, <2>3 DEF InheritedBelow
  <2> QED
    BY <1>1, <1>2, <1>3, <2>3, <2>4
<1>5. /\ Len(stack'[g]) = n - 1 /\ DOMAIN stack'[g] = 1..(n - 1)
      /\ \A i \in 1..(n - 1) : stack'[g][i] = stack[g][i]
      /\ \A h \in Target \ {g} : stack'[h] = stack[h]
  <2>1. stack'[g] \in Seq(Mnt \cup InheritedMnt)
    BY <1>2, UmountShape
  <2>2. DOMAIN stack'[g] = 1..Len(stack'[g])
    BY <2>1
  <2> QED
    BY <1>3, <2>2, UmountShape
<1>6. \A h \in Target : \A i \in DOMAIN stack'[h] :
        i \in DOMAIN stack[h] /\ stack'[h][i] = stack[h][i] /\ ~(h = g /\ i = n)
  <2>1. \A i \in 1..(n - 1) : i \in 1..n /\ i # n /\ stack'[g][i] = stack[g][i]
    BY <1>2, <1>5
  <2> QED
    BY <1>2, <1>5, <2>1
<1>7. \A h \in Target : \A i \in DOMAIN stack[h] :
        i \in DOMAIN stack'[h] \/ (h = g /\ i = n)
  BY <1>2, <1>5
<1>8. \A h \in Target : \A i \in DOMAIN stack'[h] : stack'[h][i] # m
  BY <1>1, <1>2, <1>3, <1>4, <1>6 DEF OnePlace
<1>9. InheritedBelow'
  <2>1. ASSUME NEW h \in Target \ {g}
        PROVE  /\ Len(stack'[h]) >= Len(Inherited[h])
               /\ \A i \in 1..Len(stack'[h]) :
                    IF i <= Len(Inherited[h]) THEN stack'[h][i] = Inherited[h][i]
                    ELSE stack'[h][i] \in Mnt
    BY <1>5 DEF InheritedBelow
  <2>2. /\ Len(stack'[g]) >= Len(Inherited[g])
        /\ \A i \in 1..Len(stack'[g]) :
             IF i <= Len(Inherited[g]) THEN stack'[g][i] = Inherited[g][i]
             ELSE stack'[g][i] \in Mnt
    <3>1. \A i \in 1..(n - 1) : i \in 1..n
      BY <1>2
    <3>2. n - 1 >= Len(Inherited[g])
      BY <1>2, <1>4
    <3>3. \A i \in 1..(n - 1) : IF i <= Len(Inherited[g]) THEN stack[g][i] = Inherited[g][i]
                                ELSE stack[g][i] \in Mnt
      BY <1>2, <3>1 DEF InheritedBelow
    <3> QED
      BY <1>5, <3>2, <3>3
  <2> QED
    BY <2>1, <2>2 DEF InheritedBelow
<1>10. OnePlace'
  <2> SUFFICES ASSUME NEW h \in Target, NEW k \in Target,
                      NEW i \in DOMAIN stack'[h], NEW j \in DOMAIN stack'[k],
                      stack'[h][i] \in Mnt, stack'[h][i] = stack'[k][j]
               PROVE  h = k /\ i = j
    BY DEF OnePlace
  <2> QED
    BY <1>6 DEF OnePlace
<1>11. ASSUME NEW G \in SUBSET Target
       PROVE  LiveIn(G)' = IF g \in G THEN LiveIn(G) \ {m} ELSE LiveIn(G)
  <2>1. CASE g \in G
    <3>1. ASSUME NEW x \in LiveIn(G), x # m
          PROVE  x \in LiveIn(G)'
      <4>1. PICK h \in G : x \in Mnt /\ \E i \in DOMAIN stack[h] : stack[h][i] = x
        BY <3>1 DEF LiveIn
      <4>2. \E i \in DOMAIN stack'[h] : stack'[h][i] = x
        BY <1>3, <1>6, <1>7, <3>1, <4>1
      <4> QED
        BY <4>1, <4>2 DEF LiveIn
    <3>2. ASSUME NEW x \in LiveIn(G)'
          PROVE  x \in LiveIn(G) /\ x # m
      BY <1>6, <1>8 DEF LiveIn
    <3> QED
      BY <2>1, <3>1, <3>2
  <2>2. CASE g \notin G
    BY <1>6, <1>7, <2>2 DEF LiveIn
  <2> QED
    BY <2>1, <2>2
<1>12. Live = LiveIn(Target) /\ Live' = LiveIn(Target)'
  BY DEF Live, LiveIn
<1>13. Live' = Live \ {m} /\ m \in Live
  BY <1>1, <1>2, <1>3, <1>4, <1>11, <1>12 DEF Live
<1> QED
  BY <1>2, <1>3, <1>4, <1>6, <1>9, <1>10, <1>11, <1>13

-----------------------------------------------------------------------------
(* The balance is kept.                                                    *)

LEMMA SetsFinite ==
    /\ \A S \in SUBSET Thread : IsFiniteSet(S) /\ Cardinality(S) \in Nat
    /\ \A S \in SUBSET Mnt : IsFiniteSet(S) /\ Cardinality(S) \in Nat
<1>1. IsFiniteSet(Thread) /\ IsFiniteSet(Mnt)
  BY MountConstants
<1> QED
  BY <1>1, FS_Subset, FS_CardinalityType

LEMMA BalanceSets ==
    ASSUME NEW home, NEW G
    PROVE  /\ IsFiniteSet(LiveIn(G)) /\ Cardinality(LiveIn(G)) \in Nat
           /\ IsFiniteSet(UnmountedIn(G)) /\ Cardinality(UnmountedIn(G)) \in Nat
           /\ IsFiniteSet(MadeIn(G)) /\ Cardinality(MadeIn(G)) \in Nat
           /\ IsFiniteSet(TrackedIn(home, G)) /\ Cardinality(TrackedIn(home, G)) \in Nat
<1>1. /\ LiveIn(G) \in SUBSET Mnt /\ UnmountedIn(G) \in SUBSET Thread
      /\ MadeIn(G) \in SUBSET Thread /\ TrackedIn(home, G) \in SUBSET Rec
  BY DEF LiveIn, UnmountedIn, MadeIn, TrackedIn
<1> QED
  BY <1>1, SetsFinite, UsedFinite

\* A set and the set with one element more or less.
LEMMA OneMore ==
    ASSUME NEW S, NEW T, NEW x, IsFiniteSet(S), x \notin S, T = S \cup {x}
    PROVE  Cardinality(T) = Cardinality(S) + 1
BY FS_AddElement
LEMMA OneLess ==
    ASSUME NEW S, NEW T, NEW x, IsFiniteSet(S), x \in S, T = S \ {x}
    PROVE  Cardinality(T) = Cardinality(S) - 1
BY FS_RemoveElement

\* Every unmount not yet accounted for has a record of its own.
LEMMA UnmountsTracked ==
    ASSUME NEW home \in [Mnt -> Target], UnmountedHome(home), NEW G
    PROVE  Cardinality(UnmountedIn(G)) <= Cardinality(TrackedIn(home, G))
<1> DEFINE U == UnmountedIn(G)
           T == TrackedIn(home, G)
           pick == [t \in U |-> CHOOSE i \in Rec : rec[i].state = "TRACKED" /\ rec[i].mnt = op[t].path]
<1>1. ASSUME NEW t \in U
      PROVE  pick[t] \in Rec /\ rec[pick[t]].state = "TRACKED" /\ rec[pick[t]].mnt = op[t].path
  <2>1. t \in Thread /\ op[t].at = "uresult"
    BY DEF UnmountedIn
  <2>2. \E i \in Rec : rec[i].state = "TRACKED" /\ rec[i].mnt = op[t].path
    BY <2>1 DEF UnmountedHome, Tracked
  <2> QED
    BY <2>2
<1>2. ASSUME NEW t \in U
      PROVE  t \in Thread /\ op[t].at = "uresult" /\ home[op[t].path] \in G
  BY DEF UnmountedIn, UnmountedHome
<1>3. ASSUME NEW t \in U
      PROVE  pick[t] \in T
  <2>1. \A i \in Rec : rec[i].state = "TRACKED" /\ rec[i].mnt = op[t].path => i \in T
    BY <1>2 DEF TrackedIn
  <2> QED
    BY <1>1, <2>1
<1>4. ASSUME NEW t \in U, NEW r \in U, pick[t] = pick[r]
      PROVE  t = r
  <2>1. op[t].path = op[r].path
    BY <1>1, <1>4
  <2> QED
    BY <1>2, <2>1 DEF UnmountedHome
<1>5. pick \in [U -> T]
  BY <1>3
<1> HIDE DEF pick
<1>6. pick \in Injection(U, T)
  BY <1>4, <1>5 DEF Injection, IsInjective
<1> QED
  BY <1>6, BalanceSets, FS_Injection

\* A call that has made a mount finds one of the sandbox on its target.
LEMMA MadeFindsOurs ==
    ASSUME TypeOK, InheritedBelow, NEW home \in [Mnt -> Target], Accounted(home),
           NEW t \in Thread, HasMade(op[t])
    PROVE  /\ Top(op[t].target) \in Mnt
           /\ home[Top(op[t].target)] = op[t].target
<1> DEFINE g == op[t].target
           G == {g}
           n == Len(stack[g])
<1>1. g \in Target /\ G \in SUBSET Target /\ n \in Nat /\ Len(Inherited[g]) \in Nat
      /\ DOMAIN stack[g] = 1..n /\ DOMAIN Inherited[g] = 1..Len(Inherited[g])
      /\ \A i \in DOMAIN Inherited[g] : Inherited[g][i] \notin Mnt
  BY CallTyped, StackTyped
<1>2. Cardinality(LiveIn(G)) + Cardinality(UnmountedIn(G)) =
        Cardinality(TrackedIn(home, G)) + Cardinality(MadeIn(G))
  BY <1>1 DEF Accounted, Balanced
<1>3. Cardinality(UnmountedIn(G)) <= Cardinality(TrackedIn(home, G))
  BY UnmountsTracked DEF Accounted
<1>4. Cardinality(MadeIn(G)) # 0
  <2>1. t \in MadeIn(G)
    BY DEF MadeIn
  <2> QED
    BY <2>1, BalanceSets, FS_EmptySet
<1>5. Cardinality(LiveIn(G)) # 0
  BY <1>2, <1>3, <1>4, BalanceSets
<1>6. LiveIn(G) # {}
  BY <1>5, FS_EmptySet
<1>7. PICK i \in DOMAIN stack[g] : stack[g][i] \in Mnt
  BY <1>6 DEF LiveIn
<1>8. i > Len(Inherited[g])
  BY <1>1, <1>7 DEF InheritedBelow
<1>9. n \in 1..n /\ stack[g][n] \in Mnt /\ stack[g] # <<>>
  BY <1>1, <1>8 DEF InheritedBelow
<1>10. Top(g) = stack[g][n]
  BY <1>9 DEF Top
<1> QED
  BY <1>1, <1>9, <1>10 DEF Accounted, StackHome

\* The records of mounts stay what they are.
SameTracked ==
    \A i \in Rec : /\ rec'[i].state = "TRACKED" <=> rec[i].state = "TRACKED"
                   /\ rec[i].state = "TRACKED" => rec'[i].mnt = rec[i].mnt

LEMMA SameTrackedSets ==
    ASSUME SameTracked
    PROVE  /\ \A home, G : TrackedIn(home, G)' = TrackedIn(home, G)
           /\ \A m : Tracked(m)' = Tracked(m)
           /\ TrackedOurs => TrackedOurs'
BY DEF SameTracked, TrackedIn, Tracked, TrackedOurs

\* A mount just unmounted is not found again.
LEMMA NotFoundAgain ==
    ASSUME TypeOK, NEW home, UnmountedHome(home), NEW r \in Thread, op[r].at = "uresult"
    PROVE  op[r].path # NoMnt /\ \A g \in Target : Top(g) # op[r].path
<1>1. op[r].path \in Mnt \ Live /\ NoMnt \notin Mnt
  BY MountConstants DEF UnmountedHome
<1> QED
  BY <1>1, TopTyped DEF Live

\* A step of a call that has made or ended no mount.
LEMMA PassKeeps ==
    ASSUME TypeOK, InheritedBelow, OnePlace, NEW home \in [Mnt -> Target], Accounted(home),
           NEW t \in Thread, Moved(t), stack' = stack, SameTracked,
           ~HasMade(op[t]), op[t].at # "uresult", ~HasMade(op'[t]), op'[t].at # "uresult",
           op'[t].path \in {op[t].path, NoMnt} \cup {Top(g) : g \in Target}
    PROVE  Accounted(home)'
<1>1. \A r \in Thread \ {t} : op'[r] = op[r]
  BY DEF Moved
<1>2. Live' = Live /\ \A G : LiveIn(G)' = LiveIn(G)
  BY SameStacks
<1>3. \A G : UnmountedIn(G)' = UnmountedIn(G) /\ MadeIn(G)' = MadeIn(G)
  BY <1>1 DEF UnmountedIn, MadeIn
<1>4. Balanced(home)'
  BY <1>2, <1>3, SameTrackedSets DEF Accounted, Balanced
<1>5. StackHome(home)' /\ TrackedOurs'
  BY SameTrackedSets DEF Accounted, StackHome
<1>6. FoundHome(home)'
  BY <1>1 DEF Accounted, FoundHome, HasMade
<1>7. UnmountedHome(home)'
  <2> SUFFICES ASSUME NEW r \in Thread, op'[r].at = "uresult"
               PROVE  /\ op'[r].path \in Mnt \ Live' /\ home[op'[r].path] = op'[r].target
                      /\ \E i \in Rec : rec'[i].state = "TRACKED" /\ rec'[i].mnt = op'[r].path
                      /\ \A q \in Thread \ {r} : op'[q].path # op'[r].path
    BY DEF UnmountedHome, Tracked
  <2>1. r # t /\ op'[r] = op[r] /\ UnmountedHome(home)
    BY <1>1 DEF Accounted
  <2>2. op'[t].path # op[r].path
    BY <2>1, NotFoundAgain DEF UnmountedHome
  <2>3. \E i \in Rec : rec'[i].state = "TRACKED" /\ rec'[i].mnt = op[r].path
    BY <2>1 DEF UnmountedHome, Tracked, SameTracked
  <2> QED
    BY <1>1, <1>2, <2>1, <2>2, <2>3 DEF UnmountedHome
<1> QED
  BY <1>4, <1>5, <1>6, <1>7 DEF Accounted

LEMMA FollowDownKeeps ==
    ASSUME TypeOK, InheritedBelow, OnePlace, NEW home \in [Mnt -> Target], Accounted(home),
           NEW t \in Thread, FollowDown(t)
    PROVE  Accounted(home)'
<1>1. /\ Moved(t) /\ SameCall(t) /\ op'[t].at = "result" /\ op[t].at = "peek"
      /\ op'[t].error = op[t].error /\ op'[t].mnt = Top(op[t].target)
      /\ stack' = stack /\ rec' = rec
  BY CallFollows DEF FollowDown, instVars, kernelVars
<1>2. \A r \in Thread \ {t} : op'[r] = op[r]
  BY <1>1 DEF Moved
<1>3. Live' = Live /\ \A G : LiveIn(G)' = LiveIn(G)
  BY <1>1, SameStacks
<1>4. \A G : UnmountedIn(G)' = UnmountedIn(G) /\ MadeIn(G)' = MadeIn(G)
  BY <1>1, <1>2 DEF UnmountedIn, MadeIn, HasMade, SameCall
<1>5. SameTracked
  BY <1>1 DEF SameTracked
<1>6. Balanced(home)'
  BY <1>3, <1>4, <1>5, SameTrackedSets DEF Accounted, Balanced
<1>7. StackHome(home)' /\ TrackedOurs'
  BY <1>1, <1>5, SameTrackedSets DEF Accounted, StackHome
<1>8. FoundHome(home)'
  <2>1. ~op[t].error => op'[t].mnt \in Mnt /\ home[op'[t].mnt] = op'[t].target
    BY <1>1, MadeFindsOurs DEF HasMade, SameCall
  <2> QED
    BY <1>1, <1>2, <2>1 DEF Accounted, FoundHome
<1>9. UnmountedHome(home)'
  <2>1. \A r \in Thread : op'[r].path = op[r].path /\ op'[r].target = op[r].target
                          /\ (op'[r].at = "uresult" => op[r].at = "uresult")
    BY <1>1, <1>2 DEF SameCall
  <2> QED
    BY <1>3, <1>5, <2>1, SameTrackedSets DEF Accounted, UnmountedHome
<1> QED
  BY <1>6, <1>7, <1>8, <1>9 DEF Accounted

LEMMA AttachKeeps ==
    ASSUME TypeOK, InheritedBelow, OnePlace, NEW home \in [Mnt -> Target], Accounted(home),
           NEW t \in Thread, Attach(t)
    PROVE  \E h \in [Mnt -> Target] : Accounted(h)'
<1> DEFINE g == op[t].target
<1>1. /\ Moved(t) /\ SameCall(t) /\ op[t].at = "attach" /\ op'[t].at = "peek"
      /\ op'[t].error = FALSE /\ rec' = rec /\ g \in Target
  BY AttachShape, CallTyped
<1>2. PICK m \in Mnt \ Live :
        /\ ~Pinned(m) /\ \A i \in Rec : rec[i].mnt # m
        /\ \A h \in Target : \A i \in DOMAIN stack'[h] :
                (i \in DOMAIN stack[h] /\ stack'[h][i] = stack[h][i])
                \/ (h = g /\ stack'[h][i] = m)
        /\ Live' = Live \cup {m}
        /\ \A G \in SUBSET Target :
                LiveIn(G)' = IF g \in G THEN LiveIn(G) \cup {m} ELSE LiveIn(G)
  BY AttachStacks
<1>3. PICK new \in [Mnt -> Target] : new[m] = g /\ \A x \in Mnt \ {m} : new[x] = home[x]
  <2>1. [home EXCEPT ![m] = g] \in [Mnt -> Target]
    BY <1>1
  <2> QED
    BY <1>1, <2>1
<1>4. \A r \in Thread \ {t} : op'[r] = op[r]
  BY <1>1 DEF Moved
<1>5. SameTracked
  BY <1>1 DEF SameTracked
<1>6. \A G : TrackedIn(new, G)' = TrackedIn(home, G)
  BY <1>1, <1>2, <1>3 DEF Accounted, TrackedOurs, TrackedIn
<1>7. Balanced(new)'
  <2> SUFFICES ASSUME NEW G \in SUBSET Target
               PROVE  Cardinality(LiveIn(G)') + Cardinality(UnmountedIn(G)') =
                        Cardinality(TrackedIn(new, G)') + Cardinality(MadeIn(G)')
    BY DEF Balanced
  <2>1. UnmountedIn(G)' = UnmountedIn(G)
    BY <1>1, <1>4 DEF UnmountedIn
  <2>2. Cardinality(LiveIn(G)) + Cardinality(UnmountedIn(G)) =
            Cardinality(TrackedIn(home, G)) + Cardinality(MadeIn(G))
    BY DEF Accounted, Balanced
  <2>3. CASE g \in G
    <3>1. MadeIn(G)' = MadeIn(G) \cup {t} /\ t \notin MadeIn(G)
      BY <1>1, <1>4, <2>3 DEF MadeIn, HasMade, SameCall
    <3>2. Cardinality(MadeIn(G)') = Cardinality(MadeIn(G)) + 1
      BY <3>1, BalanceSets, OneMore
    <3>3. LiveIn(G)' = LiveIn(G) \cup {m} /\ m \notin LiveIn(G)
      BY <1>2, <2>3 DEF Live, LiveIn
    <3>4. Cardinality(LiveIn(G)') = Cardinality(LiveIn(G)) + 1
      BY <3>3, BalanceSets, OneMore
    <3> QED
      BY <1>6, <2>1, <2>2, <3>2, <3>4, BalanceSets
  <2>4. CASE g \notin G
    <3>1. MadeIn(G)' = MadeIn(G)
      BY <1>1, <1>4, <2>4 DEF MadeIn, HasMade, SameCall
    <3> QED
      BY <1>2, <1>6, <2>1, <2>2, <2>4, <3>1
  <2> QED
    BY <2>3, <2>4
<1>8. StackHome(new)' /\ TrackedOurs'
  <2>1. TrackedOurs'
    BY <1>5, SameTrackedSets DEF Accounted
  <2>2. ASSUME NEW h \in Target, NEW i \in DOMAIN stack'[h], stack'[h][i] \in Mnt
        PROVE  new[stack'[h][i]] = h
    <3>1. CASE i \in DOMAIN stack[h] /\ stack'[h][i] = stack[h][i]
      <4>1. stack[h][i] # m /\ home[stack[h][i]] = h
        BY <2>2, <3>1 DEF Live, Accounted, StackHome
      <4> QED
        BY <1>3, <2>2, <3>1, <4>1
    <3> QED
      BY <1>2, <1>3, <2>2, <3>1
  <2> QED
    BY <2>1, <2>2 DEF StackHome
<1>9. FoundHome(new)'
  <2>1. \A r \in Thread : op[r].mnt # m /\ op[r].path # m
    BY <1>2 DEF Pinned
  <2> QED
    BY <1>1, <1>3, <1>4, <2>1 DEF Accounted, FoundHome
<1>10. UnmountedHome(new)'
  <2>1. \A r \in Thread : op[r].path # m
    BY <1>2 DEF Pinned
  <2>2. \A r \in Thread : op'[r].path = op[r].path /\ op'[r].target = op[r].target
                          /\ (op'[r].at = "uresult" => op[r].at = "uresult")
    BY <1>1, <1>4 DEF SameCall
  <2> QED
    BY <1>2, <1>3, <1>5, <2>1, <2>2, SameTrackedSets DEF Accounted, UnmountedHome
<1> QED
  BY <1>3, <1>7, <1>8, <1>9, <1>10 DEF Accounted

LEMMA TrackKeepsBalance ==
    ASSUME TypeOK, InheritedBelow, OnePlace, NEW home \in [Mnt -> Target], Accounted(home),
           NEW t \in Thread, op[t].at = "result", ~op[t].error, Moved(t), op'[t].at = "user",
           op'[t].path = NoMnt, stack' = stack, NEW i \in Pending(t), Kept(t, i)
    PROVE  Accounted(home)'
<1> DEFINE g == op[t].target
<1>1. /\ op[t].mnt \in Mnt /\ home[op[t].mnt] = g
      /\ i \in Rec /\ rec[i].state # "TRACKED"
      /\ rec'[i].state = "TRACKED" /\ rec'[i].mnt = op[t].mnt
      /\ \A j \in Rec \ {i} : rec'[j] = rec[j]
      /\ \A r \in Thread \ {t} : op'[r] = op[r]
  BY DEF Accounted, FoundHome, Pending, Kept, Moved
<1>2. Live' = Live /\ \A G : LiveIn(G)' = LiveIn(G)
  BY SameStacks
<1>3. Balanced(home)'
  <2> SUFFICES ASSUME NEW G \in SUBSET Target
               PROVE  Cardinality(LiveIn(G)') + Cardinality(UnmountedIn(G)') =
                        Cardinality(TrackedIn(home, G)') + Cardinality(MadeIn(G)')
    BY DEF Balanced
  <2>1. UnmountedIn(G)' = UnmountedIn(G)
    BY <1>1 DEF UnmountedIn
  <2>2. Cardinality(LiveIn(G)) + Cardinality(UnmountedIn(G)) =
            Cardinality(TrackedIn(home, G)) + Cardinality(MadeIn(G))
    BY DEF Accounted, Balanced
  <2>3. CASE g \in G
    <3>1. MadeIn(G)' = MadeIn(G) \ {t} /\ t \in MadeIn(G)
      BY <1>1, <2>3 DEF MadeIn, HasMade
    <3>2. Cardinality(MadeIn(G)') = Cardinality(MadeIn(G)) - 1
      BY <3>1, BalanceSets, OneLess
    <3>3. TrackedIn(home, G)' = TrackedIn(home, G) \cup {i} /\ i \notin TrackedIn(home, G)
      BY <1>1, <2>3 DEF TrackedIn
    <3>4. Cardinality(TrackedIn(home, G)') = Cardinality(TrackedIn(home, G)) + 1
      BY <3>3, BalanceSets, OneMore
    <3> QED
      BY <1>2, <2>1, <2>2, <3>2, <3>4, BalanceSets
  <2>4. CASE g \notin G
    <3>1. MadeIn(G)' = MadeIn(G) /\ TrackedIn(home, G)' = TrackedIn(home, G)
      BY <1>1, <2>4 DEF MadeIn, HasMade, TrackedIn
    <3> QED
      BY <1>2, <2>1, <2>2, <3>1
  <2> QED
    BY <2>3, <2>4
<1>4. StackHome(home)' /\ TrackedOurs'
  BY <1>1 DEF Accounted, StackHome, TrackedOurs
<1>5. FoundHome(home)'
  BY <1>1 DEF Accounted, FoundHome
<1>6. UnmountedHome(home)'
  <2> SUFFICES ASSUME NEW r \in Thread, op'[r].at = "uresult"
               PROVE  /\ op'[r].path \in Mnt \ Live' /\ home[op'[r].path] = op'[r].target
                      /\ \E j \in Rec : rec'[j].state = "TRACKED" /\ rec'[j].mnt = op'[r].path
                      /\ \A q \in Thread \ {r} : op'[q].path # op'[r].path
    BY DEF UnmountedHome, Tracked
  <2>1. r # t /\ op'[r] = op[r] /\ UnmountedHome(home)
    BY <1>1 DEF Accounted
  <2>2. op'[t].path # op[r].path
    BY <2>1, NotFoundAgain
  <2>3. \E j \in Rec : rec'[j].state = "TRACKED" /\ rec'[j].mnt = op[r].path
    BY <1>1, <2>1 DEF UnmountedHome, Tracked
  <2> QED
    BY <1>1, <1>2, <2>1, <2>2, <2>3 DEF UnmountedHome
<1> QED
  BY <1>3, <1>4, <1>5, <1>6 DEF Accounted

LEMMA UmountKeeps ==
    ASSUME TypeOK, InheritedBelow, OnePlace, NEW home \in [Mnt -> Target], Accounted(home),
           NEW t \in Thread, DoUmount(t)
    PROVE  Accounted(home)'
<1> DEFINE g == op[t].target
           m == op[t].path
<1>1. /\ Moved(t) /\ SameCall(t) /\ op[t].at = "udo" /\ op'[t].at = "uresult"
      /\ rec' = rec /\ g \in Target /\ Tracked(m) # {}
      /\ \A r \in Thread \ {t} : op[r].path # m
  BY UmountShape, CallTyped
<1>2. /\ m \in Live
      /\ \E i \in DOMAIN stack[g] : stack[g][i] = m
      /\ \A h \in Target : \A i \in DOMAIN stack'[h] :
            i \in DOMAIN stack[h] /\ stack'[h][i] = stack[h][i]
      /\ Live' = Live \ {m}
      /\ \A G \in SUBSET Target :
            LiveIn(G)' = IF g \in G THEN LiveIn(G) \ {m} ELSE LiveIn(G)
  BY UmountStacks DEF Accounted
<1>3. m \in Mnt /\ home[m] = g
  BY <1>1, <1>2 DEF Live, Accounted, StackHome
<1>4. \A r \in Thread \ {t} : op'[r] = op[r]
  BY <1>1 DEF Moved
<1>5. SameTracked
  BY <1>1 DEF SameTracked
<1>6. Balanced(home)'
  <2> SUFFICES ASSUME NEW G \in SUBSET Target
               PROVE  Cardinality(LiveIn(G)') + Cardinality(UnmountedIn(G)') =
                        Cardinality(TrackedIn(home, G)') + Cardinality(MadeIn(G)')
    BY DEF Balanced
  <2>1. MadeIn(G)' = MadeIn(G) /\ TrackedIn(home, G)' = TrackedIn(home, G)
    BY <1>1, <1>4, <1>5, SameTrackedSets DEF MadeIn, HasMade
  <2>2. Cardinality(LiveIn(G)) + Cardinality(UnmountedIn(G)) =
            Cardinality(TrackedIn(home, G)) + Cardinality(MadeIn(G))
    BY DEF Accounted, Balanced
  <2>3. CASE g \in G
    <3>1. UnmountedIn(G)' = UnmountedIn(G) \cup {t} /\ t \notin UnmountedIn(G)
      BY <1>1, <1>4, <2>3 DEF UnmountedIn, SameCall
    <3>2. Cardinality(UnmountedIn(G)') = Cardinality(UnmountedIn(G)) + 1
      BY <3>1, BalanceSets, OneMore
    <3>3. LiveIn(G)' = LiveIn(G) \ {m} /\ m \in LiveIn(G)
      BY <1>2, <1>3, <2>3 DEF LiveIn
    <3>4. Cardinality(LiveIn(G)') = Cardinality(LiveIn(G)) - 1
      BY <3>3, BalanceSets, OneLess
    <3> QED
      BY <2>1, <2>2, <3>2, <3>4, BalanceSets
  <2>4. CASE g \notin G
    <3>1. UnmountedIn(G)' = UnmountedIn(G)
      BY <1>1, <1>4, <2>4 DEF UnmountedIn, SameCall
    <3> QED
      BY <1>2, <2>1, <2>2, <2>4, <3>1
  <2> QED
    BY <2>3, <2>4
<1>7. StackHome(home)' /\ TrackedOurs'
  BY <1>2, <1>5, SameTrackedSets DEF Accounted, StackHome
<1>8. FoundHome(home)'
  BY <1>1, <1>4 DEF Accounted, FoundHome
<1>9. UnmountedHome(home)'
  <2> SUFFICES ASSUME NEW r \in Thread, op'[r].at = "uresult"
               PROVE  /\ op'[r].path \in Mnt \ Live' /\ home[op'[r].path] = op'[r].target
                      /\ \E j \in Rec : rec'[j].state = "TRACKED" /\ rec'[j].mnt = op'[r].path
                      /\ \A q \in Thread \ {r} : op'[q].path # op'[r].path
    BY DEF UnmountedHome, Tracked
  <2>1. \A q \in Thread : op'[q].path = op[q].path /\ op'[q].target = op[q].target
    BY <1>1, <1>4 DEF SameCall
  <2>2. CASE r = t
    BY <1>1, <1>2, <1>3, <2>1, <2>2 DEF Tracked
  <2>3. CASE r # t
    BY <1>1, <1>2, <1>4, <2>1, <2>3 DEF Accounted, UnmountedHome, Tracked
  <2> QED
    BY <2>2, <2>3
<1> QED
  BY <1>6, <1>7, <1>8, <1>9 DEF Accounted

LEMMA UmountResultKeeps ==
    ASSUME TypeOK, AccountsExact, InheritedBelow, OnePlace, phase = "active",
           NEW home \in [Mnt -> Target], Accounted(home), NEW t \in Thread, UmountResult(t)
    PROVE  Accounted(home)'
<1> DEFINE g == op[t].target
           m == op[t].path
<1>1. /\ Moved(t) /\ op'[t].at = "user" /\ op'[t].path = NoMnt /\ op[t].at = "uresult"
      /\ stack' = stack
  BY CallBack, IdleTyped DEF UmountResult, kernelVars
<1>2. /\ Tracked(m) # {} /\ home[m] = g
      /\ \A r \in Thread \ {t} : op[r].path # m
  BY <1>1 DEF Accounted, UnmountedHome
<1>3. PICK i \in Tracked(m) : Cleared(i)
  BY <1>2, UmountResultCases
<1>4. /\ i \in Rec /\ rec[i].state = "TRACKED" /\ rec[i].mnt = m /\ rec'[i].state = "FREE"
      /\ \A j \in Rec \ {i} : rec'[j] = rec[j]
      /\ \A r \in Thread \ {t} : op'[r] = op[r]
  BY <1>1, <1>3 DEF Tracked, Cleared, Moved
<1>5. Live' = Live /\ \A G : LiveIn(G)' = LiveIn(G)
  BY <1>1, SameStacks
<1>6. Balanced(home)'
  <2> SUFFICES ASSUME NEW G \in SUBSET Target
               PROVE  Cardinality(LiveIn(G)') + Cardinality(UnmountedIn(G)') =
                        Cardinality(TrackedIn(home, G)') + Cardinality(MadeIn(G)')
    BY DEF Balanced
  <2>1. MadeIn(G)' = MadeIn(G)
    BY <1>1, <1>4 DEF MadeIn, HasMade
  <2>2. Cardinality(LiveIn(G)) + Cardinality(UnmountedIn(G)) =
            Cardinality(TrackedIn(home, G)) + Cardinality(MadeIn(G))
    BY DEF Accounted, Balanced
  <2>3. CASE g \in G
    <3>1. UnmountedIn(G)' = UnmountedIn(G) \ {t} /\ t \in UnmountedIn(G)
      BY <1>1, <1>4, <2>3 DEF UnmountedIn
    <3>2. Cardinality(UnmountedIn(G)') = Cardinality(UnmountedIn(G)) - 1
      BY <3>1, BalanceSets, OneLess
    <3>3. TrackedIn(home, G)' = TrackedIn(home, G) \ {i} /\ i \in TrackedIn(home, G)
      BY <1>2, <1>4, <2>3 DEF TrackedIn
    <3>4. Cardinality(TrackedIn(home, G)') = Cardinality(TrackedIn(home, G)) - 1
      BY <3>3, BalanceSets, OneLess
    <3> QED
      BY <1>5, <2>1, <2>2, <3>2, <3>4, BalanceSets
  <2>4. CASE g \notin G
    <3>1. UnmountedIn(G)' = UnmountedIn(G) /\ TrackedIn(home, G)' = TrackedIn(home, G)
      BY <1>1, <1>2, <1>4, <2>4 DEF UnmountedIn, TrackedIn
    <3> QED
      BY <1>5, <2>1, <2>2, <3>1
  <2> QED
    BY <2>3, <2>4
<1>7. StackHome(home)' /\ TrackedOurs'
  BY <1>1, <1>4 DEF Accounted, StackHome, TrackedOurs
<1>8. FoundHome(home)'
  BY <1>1, <1>4 DEF Accounted, FoundHome
<1>9. UnmountedHome(home)'
  <2> SUFFICES ASSUME NEW r \in Thread, op'[r].at = "uresult"
               PROVE  /\ op'[r].path \in Mnt \ Live' /\ home[op'[r].path] = op'[r].target
                      /\ \E j \in Rec : rec'[j].state = "TRACKED" /\ rec'[j].mnt = op'[r].path
                      /\ \A q \in Thread \ {r} : op'[q].path # op'[r].path
    BY DEF UnmountedHome, Tracked
  <2>1. r # t /\ op'[r] = op[r] /\ UnmountedHome(home) /\ op[r].path # m
    BY <1>1, <1>2, <1>4 DEF Accounted
  <2>2. op'[t].path # op[r].path
    BY <1>1, <2>1, NotFoundAgain
  <2>3. \E j \in Rec : rec'[j].state = "TRACKED" /\ rec'[j].mnt = op[r].path
    BY <1>4, <2>1 DEF UnmountedHome, Tracked
  <2> QED
    BY <1>4, <1>5, <2>1, <2>2, <2>3 DEF UnmountedHome
<1> QED
  BY <1>6, <1>7, <1>8, <1>9 DEF Accounted

LEMMA OpenAccounted ==
    ASSUME TypeOK, AllGone, NEW t \in Thread, Open(t)
    PROVE  \E home \in [Mnt -> Target] : Accounted(home)'
<1>1. /\ Moved(t) /\ op'[t].at = "user" /\ phase = "absent" /\ stack' = Inherited
      /\ rec' = [i \in Rec |-> FreeRec]
  BY CallBack DEF Open
<1>2. \A r \in Thread : op'[r].at \in {"gone", "user"}
  BY <1>1 DEF Moved, AllGone
<1>3. \A i \in Rec : rec'[i].state = "FREE"
  BY <1>1, FreeRecTyped
<1>4. \A g \in Target : \A i \in DOMAIN stack'[g] : stack'[g][i] \notin Mnt
  BY <1>1, StackTyped
<1>5. PICK home \in [Mnt -> Target] : TRUE
  <2>1. PICK g \in Target : TRUE
    BY MountConstants
  <2>2. [m \in Mnt |-> g] \in [Mnt -> Target]
    BY <2>1
  <2> QED
    BY <2>2
<1>6. ASSUME NEW G \in SUBSET Target
      PROVE  /\ LiveIn(G)' = {} /\ UnmountedIn(G)' = {} /\ MadeIn(G)' = {}
             /\ TrackedIn(home, G)' = {}
  BY <1>2, <1>3, <1>4 DEF LiveIn, UnmountedIn, MadeIn, HasMade, TrackedIn
<1>7. Balanced(home)'
  BY <1>6, FS_EmptySet DEF Balanced
<1>8. StackHome(home)' /\ TrackedOurs' /\ FoundHome(home)' /\ UnmountedHome(home)'
  BY <1>2, <1>3, <1>4 DEF StackHome, TrackedOurs, FoundHome, UnmountedHome
<1> QED
  BY <1>5, <1>7, <1>8 DEF Accounted

LEMMA InitMountInv == Init => MountInv
<1> SUFFICES ASSUME Init PROVE MountInv
  OBVIOUS
<1>1. phase = "absent" /\ stack = Inherited
  BY DEF Init
<1> QED
  BY <1>1, InitTyped, InitReserved, InheritedIsBelow DEF MountInv

LEMMA NextMountInv == MountInv /\ [Next]_vars => MountInv'
<1> SUFFICES ASSUME MountInv, [Next]_vars PROVE MountInv'
  OBVIOUS
<1>1. /\ TypeOK /\ AccountsExact /\ Reserved /\ PendingOne /\ AllGone /\ InheritedBelow /\ OnePlace
      /\ phase = "active" => \E home \in [Mnt -> Target] : Accounted(home)
  BY DEF MountInv
<1>2. TypeOK' /\ AccountsExact' /\ Reserved' /\ PendingOne' /\ AllGone'
  BY <1>1, NextTyped, NextReserved
<1> DEFINE Rest == /\ InheritedBelow' /\ OnePlace'
                   /\ phase' = "active" => \E home \in [Mnt -> Target] : Accounted(home)'
<1>3. Rest => MountInv'
  BY <1>2 DEF MountInv
<1>4. CASE UNCHANGED vars
  <2>1. stack' = stack /\ rec' = rec /\ op' = op /\ phase' = phase
    BY <1>4 DEF vars
  <2>2. \A home : Accounted(home)' <=> Accounted(home)
    BY <2>1 DEF Accounted, StackHome, TrackedOurs, FoundHome, UnmountedHome, Live, Tracked,
                Balanced, LiveIn, UnmountedIn, MadeIn, TrackedIn
  <2> QED
    BY <1>1, <1>3, <2>1, <2>2, SameStacks
<1>5. ASSUME NEW t \in Thread, GoesOn(t) \/ Books(t)
      PROVE  Rest
  <2>1. /\ stack' = stack /\ phase' = phase /\ Moved(t)
        /\ ~HasMade(op[t]) /\ op[t].at # "uresult" /\ ~HasMade(op'[t]) /\ op'[t].at # "uresult"
        /\ op'[t].path \in {op[t].path, NoMnt} \cup {Top(g) : g \in Target}
    BY <1>5 DEF GoesOn, Books
  <2>2. SameTracked
    BY <1>5 DEF GoesOn, Books, Booked, SameTracked
  <2> QED
    BY <1>1, <2>1, <2>2, SameStacks, PassKeeps
<1>6. ASSUME NEW t \in Thread, Attach(t)
      PROVE  Rest
  BY <1>1, <1>6, AttachShape, AttachStacks, AttachKeeps
<1>7. ASSUME NEW t \in Thread, FollowDown(t)
      PROVE  Rest
  <2>1. stack' = stack /\ phase' = phase
    BY <1>7 DEF FollowDown, instVars, kernelVars
  <2> QED
    BY <1>1, <1>7, <2>1, SameStacks, FollowDownKeeps
<1>8. ASSUME NEW t \in Thread, MountResult(t)
      PROVE  Rest
  <2>1. /\ stack' = stack /\ Moved(t) /\ op'[t].at = "user" /\ op'[t].path = NoMnt
        /\ op[t].at = "result" /\ phase' = phase
    BY <1>1, <1>8, CallBack, IdleTyped, MountResultCases DEF MountResult, kernelVars
  <2>2. InheritedBelow' /\ OnePlace'
    BY <1>1, <2>1, SameStacks
  <2>3. ASSUME phase = "active", NEW home \in [Mnt -> Target], Accounted(home)
        PROVE  Accounted(home)'
    <3>1. CASE Pending(t) = {} /\ rec' = rec
      <4>1. ~HasMade(op[t])
        BY <1>1, <2>3, <3>1 DEF Reserved, Holds
      <4>2. SameTracked
        BY <3>1 DEF SameTracked
      <4> QED
        BY <1>1, <2>1, <2>3, <4>1, <4>2, PassKeeps DEF HasMade
    <3>2. ASSUME op[t].error, NEW i \in Pending(t), Cleared(i)
          PROVE  Accounted(home)'
      <4>1. SameTracked
        BY <3>2 DEF SameTracked, Pending, Cleared
      <4> QED
        BY <1>1, <2>1, <2>3, <3>2, <4>1, PassKeeps DEF HasMade
    <3>3. ASSUME ~op[t].error, NEW i \in Pending(t), Kept(t, i)
          PROVE  Accounted(home)'
      BY <1>1, <2>1, <2>3, <3>3, TrackKeepsBalance
    <3> QED
      BY <1>1, <1>8, <2>3, <3>1, <3>2, <3>3, MountResultCases
  <2> QED
    BY <1>1, <2>1, <2>2, <2>3
<1>9. ASSUME NEW t \in Thread, DoUmount(t)
      PROVE  Rest
  <2>1. phase = "active"
    BY <1>1, <1>9, UmountShape
  <2>2. PICK home \in [Mnt -> Target] : Accounted(home)
    BY <1>1, <2>1
  <2>3. InheritedBelow' /\ OnePlace'
    BY <1>1, <1>9, <2>2, UmountStacks DEF Accounted
  <2>4. Accounted(home)'
    BY <1>1, <1>9, <2>2, UmountKeeps
  <2> QED
    BY <2>3, <2>4
<1>10. ASSUME NEW t \in Thread, UmountResult(t)
       PROVE  Rest
  <2>1. stack' = stack /\ phase' = phase
    BY <1>1, <1>10, UmountResultCases DEF UmountResult, kernelVars
  <2> QED
    BY <1>1, <1>10, <2>1, SameStacks, UmountResultKeeps
<1>11. ASSUME NEW t \in Thread, Open(t)
       PROVE  Rest
  <2>1. (stack = Inherited => InheritedBelow /\ OnePlace)'
    BY InheritedIsBelow, PTL
  <2> QED
    BY <1>1, <1>11, <2>1, OpenAccounted DEF Open
<1>12. CASE Mark \/ Detach
  <2>1. stack' = stack /\ phase' # "active"
    BY <1>12 DEF Mark, Detach, kernelVars
  <2> QED
    BY <1>1, <1>3, <2>1, SameStacks
<1>13. CASE Close
  <2>1. (stack = Inherited => InheritedBelow /\ OnePlace)'
    BY InheritedIsBelow, PTL
  <2>2. stack' = Inherited /\ phase' # "active"
    BY <1>13 DEF Close
  <2> QED
    BY <1>3, <2>1, <2>2
<1> QED
  BY <1>1, <1>3, <1>4, <1>5, <1>6, <1>7, <1>8, <1>9, <1>10, <1>11, <1>12, <1>13, StepKinds

\* However calls of several threads cross, the namespace of an active instance
\* holds at most as many sandbox mounts as there are records in use.
THEOREM MountsLimited == Spec => []MountsWithinLimit
<1>1. MountInv => MountsWithinLimit
  <2> SUFFICES ASSUME MountInv, phase = "active" PROVE Cardinality(Live) <= count
    BY DEF MountsWithinLimit
  <2>1. PICK home \in [Mnt -> Target] : Accounted(home)
    BY DEF MountInv
  <2> DEFINE T == TrackedIn(home, Target)
             B == MadeIn(Target)
             P == {i \in Rec : rec[i].state = "PENDING"}
             pick == [t \in B |-> CHOOSE i \in Rec : rec[i].state = "PENDING" /\ rec[i].owner = t]
  <2>2. /\ Cardinality(LiveIn(Target)) + Cardinality(UnmountedIn(Target)) =
            Cardinality(T) + Cardinality(B)
        /\ Live = LiveIn(Target)
    BY <2>1 DEF Accounted, Balanced, Live, LiveIn
  <2>3. ASSUME NEW t \in B
        PROVE  pick[t] \in Rec /\ rec[pick[t]].state = "PENDING" /\ rec[pick[t]].owner = t
    <3>1. t \in Thread /\ HasMade(op[t])
      BY DEF MadeIn
    <3>2. \E i \in Rec : rec[i].state = "PENDING" /\ rec[i].owner = t
      BY <3>1 DEF MountInv, Reserved, Holds, Pending
    <3> QED
      BY <3>2
  <2>4. pick \in [B -> P]
    BY <2>3
  <2>5. \A t, r \in B : pick[t] = pick[r] => t = r
    BY <2>3
  <2> HIDE DEF pick
  <2>6. pick \in Injection(B, P)
    BY <2>4, <2>5 DEF Injection, IsInjective
  <2>7. /\ IsFiniteSet(P) /\ IsFiniteSet(T) /\ IsFiniteSet(Used)
        /\ Cardinality(P) \in Nat /\ Cardinality(T) \in Nat /\ Cardinality(Used) \in Nat
    <3>1. P \in SUBSET Rec /\ T \in SUBSET Rec /\ Used \in SUBSET Rec
      BY DEF TrackedIn, Used
    <3> QED
      BY <3>1, UsedFinite
  <2>8. Cardinality(B) <= Cardinality(P)
    BY <2>6, <2>7, FS_Injection
  <2>9. Cardinality(T \cup P) = Cardinality(T) + Cardinality(P)
    <3>1. T \cap P = {}
      BY DEF TrackedIn
    <3>2. Cardinality(T \cap P) = 0
      BY <3>1, FS_EmptySet
    <3>3. Cardinality(T \cup P) = Cardinality(T) + Cardinality(P) - Cardinality(T \cap P)
      <4> HIDE DEF T, P
      <4> QED
        BY <2>7, FS_Union
    <3> QED
      BY <2>7, <3>2, <3>3
  <2>10. Cardinality(T \cup P) <= Cardinality(Used)
    <3>1. T \cup P \in SUBSET Used
      BY DEF TrackedIn, Used
    <3> QED
      BY <2>7, <3>1, FS_Subset
  <2>11. count = Cardinality(Used)
    BY DEF MountInv, AccountsExact
  <2> QED
    BY <2>2, <2>7, <2>8, <2>9, <2>10, <2>11, BalanceSets
<1> QED
  BY <1>1, InitMountInv, NextMountInv, PTL DEF Spec

\* What was mounted in the app's view before stays at the bottom of every
\* target's stack.
THEOREM InheritedStay == Spec => []InheritedNeverUnmounted
<1>1. MountInv => InheritedNeverUnmounted
  <2> SUFFICES ASSUME MountInv, NEW g \in Target
               PROVE  /\ Len(stack[g]) >= Len(Inherited[g])
                      /\ SubSeq(stack[g], 1, Len(Inherited[g])) = Inherited[g]
    BY DEF InheritedNeverUnmounted
  <2> DEFINE n == Len(Inherited[g])
  <2>1. /\ stack[g] \in Seq(Mnt \cup InheritedMnt) /\ Inherited[g] \in Seq(InheritedMnt)
        /\ n \in Nat /\ Len(stack[g]) \in Nat /\ Len(stack[g]) >= n
    BY StackTyped, MountConstants DEF MountInv, TypeOK, InheritedBelow
  <2>2. \A i \in 1..n : i \in 1..Len(stack[g]) /\ stack[g][i] = Inherited[g][i]
    BY <2>1 DEF MountInv, InheritedBelow
  <2>3. /\ SubSeq(stack[g], 1, n) \in Seq(Mnt \cup InheritedMnt)
        /\ Len(SubSeq(stack[g], 1, n)) = n
        /\ \A i \in 1..n : SubSeq(stack[g], 1, n)[i] = stack[g][i]
    BY <2>1
  <2>4. SubSeq(stack[g], 1, n) = Inherited[g]
    BY <2>1, <2>2, <2>3
  <2> QED
    BY <2>1, <2>4
<1> QED
  BY <1>1, InitMountInv, NextMountInv, PTL DEF Spec

-----------------------------------------------------------------------------
(* One call at a time on a target, and lookups that do not fail.           *)

OneCallEach ==
    ~regime.shared =>
        \A t, r \in Thread :
            InCall(op[t]) /\ InCall(op[r]) /\ op[t].target = op[r].target => t = r

BindSizes ==
    \A t \in Thread : /\ op[t].kind = "bind" => op[t].size = 0
                      /\ op[t].at = "bind" => op[t].kind = "bind"

\* The mount is the one a call has just made, or has one record of its size.
InHand(m) == \E t \in Thread : HasMade(op[t]) /\ Top(op[t].target) = m
HasOwn(m) == \E i \in Rec : Tracked(m) = {i} /\ rec[i].bytes = msize[m]

\* A reservation has the size the call asks for.
SizeReserved(t) == Holds(op[t]) => \A i \in Pending(t) : rec[i].bytes = op[t].size

\* What a call finds on top of its target is the mount it has made.
TopIsMine(t) ==
    HasMade(op[t]) =>
        /\ Top(op[t].target) \in Live /\ Tracked(Top(op[t].target)) = {}
        /\ msize[Top(op[t].target)] = op[t].size
        /\ op[t].at = "result" => op[t].mnt = Top(op[t].target)

OwnRecords ==
    Disciplined /\ phase = "active" =>
        /\ \A t \in Thread : SizeReserved(t) /\ TopIsMine(t)
        /\ \A m \in Live : InHand(m) \/ HasOwn(m)

LEMMA NextOneCall ==
    ASSUME TypeOK, AccountsExact, AllGone, OneCallEach, BindSizes, [Next]_vars
    PROVE  OneCallEach' /\ BindSizes'
<1>1. regime' = regime
  BY StepKinds
<1>2. CASE op' = op
  BY <1>1, <1>2 DEF OneCallEach, BindSizes
<1>3. ASSUME NEW t \in Thread, Moved(t), Orderly(t)
      PROVE  OneCallEach' /\ BindSizes'
  <2>1. ASSUME NEW r \in Thread \ {t}
        PROVE  op'[r] = op[r]
    BY <1>3 DEF Moved
  <2>2. CASE ~InCall(op'[t]) /\ op'[t].kind = "none"
    BY <1>1, <2>1, <2>2 DEF OneCallEach, BindSizes, InCall
  <2>3. CASE InCall(op[t]) /\ SameCall(t) /\ (op'[t].at = "bind" => op[t].kind = "bind")
    BY <1>1, <2>1, <2>3 DEF OneCallEach, BindSizes, SameCall
  <2>4. CASE /\ op[t].at = "user" /\ op'[t].at \in {"sb", "uvalidate"}
             /\ op'[t].kind = "bind" => op'[t].size = 0
             /\ regime.shared \/ \A r \in Thread : ~InCall(op[r]) \/ op[r].target # op'[t].target
    BY <1>1, <2>1, <2>4 DEF OneCallEach, BindSizes
  <2> QED
    BY <1>3, <2>2, <2>3, <2>4 DEF Orderly
<1>4. ASSUME NEW t \in Thread,
             GoesOn(t) \/ Books(t) \/ Attach(t) \/ FollowDown(t) \/ MountResult(t)
                \/ DoUmount(t) \/ UmountResult(t) \/ Open(t)
      PROVE  Moved(t) /\ Orderly(t)
  <2>1. CASE GoesOn(t) \/ Books(t)
    BY <2>1 DEF GoesOn, Books
  <2>2. CASE Attach(t)
    BY <2>2, AttachShape DEF Orderly, InCall
  <2>3. CASE FollowDown(t)
    BY <2>3, CallFollows DEF Orderly, InCall, FollowDown
  <2>4. CASE DoUmount(t)
    BY <2>4, UmountShape DEF Orderly, InCall
  <2>5. CASE MountResult(t) \/ UmountResult(t) \/ Open(t)
    <3>1. Back(t)
      BY <2>5 DEF MountResult, UmountResult, Open
    <3> QED
      BY <3>1, CallBack, IdleTyped DEF Orderly, InCall
  <2> QED
    BY <1>4, <2>1, <2>2, <2>3, <2>4, <2>5
<1>5. Mark \/ Detach \/ Close \/ UNCHANGED vars => op' = op
  BY DEF Mark, Detach, Close, vars
<1> QED
  BY <1>2, <1>3, <1>4, <1>5, StepKinds

LEMMA LiveOf ==
    \A m \in Mnt : m \in Live <=> \E g \in Target : \E i \in DOMAIN stack[g] : stack[g][i] = m
BY DEF Live

LEMMA TopSame ==
    \A g \in Target : stack'[g] = stack[g] => Top(g)' = Top(g)
BY DEF Top

\* Calls on other targets and the mounts there are as they were.
LEMMA OthersOwn ==
    ASSUME TypeOK, TypeOK', OneCallEach, ~regime.shared, NEW t \in Thread, Moved(t), InCall(op[t]),
           \A h \in Target \ {op[t].target} : stack'[h] = stack[h],
           NEW r \in Thread, r # t, HasMade(op[r])
    PROVE  /\ op'[r] = op[r] /\ op[r].target \in Target /\ op[r].target # op[t].target
           /\ Top(op[r].target)' = Top(op[r].target)
<1>1. op'[r] = op[r] /\ op[r].target \in Target
  BY CallTyped DEF Moved
<1>2. op[r].target # op[t].target
  BY DEF OneCallEach, InCall, HasMade
<1> QED
  BY <1>1, <1>2, TopSame

LEMMA PassOwns ==
    ASSUME TypeOK, TypeOK', OwnRecords, NEW t \in Thread, Moved(t), stack' = stack, msize' = msize,
           Disciplined, phase = "active",
           ~HasMade(op[t]), ~HasMade(op'[t]),
           \A m \in Live : Tracked(m)' = Tracked(m),
           \A i \in Rec : rec[i].state = "TRACKED" /\ rec[i].mnt \in Live => rec'[i] = rec[i],
           \A r \in Thread : SizeReserved(r)'
    PROVE  OwnRecords'
<1>1. /\ \A r \in Thread : TopIsMine(r)
      /\ \A m \in Live : InHand(m) \/ HasOwn(m)
  BY DEF OwnRecords
<1>2. Live' = Live
  BY DEF Live
<1>3. \A r \in Thread \ {t} : op'[r] = op[r] /\ op[r].target \in Target
  BY CallTyped DEF Moved
<1>4. \A g \in Target : Top(g)' = Top(g)
  BY TopSame
<1>5. ASSUME NEW r \in Thread
      PROVE  TopIsMine(r)'
  <2>1. CASE r = t
    BY <2>1 DEF TopIsMine
  <2>2. CASE r # t /\ HasMade(op[r])
    <3>1. Top(op[r].target)' = Top(op[r].target) /\ Top(op[r].target) \in Live
      BY <1>1, <1>3, <1>4, <2>2 DEF TopIsMine
    <3> QED
      BY <1>1, <1>2, <1>3, <2>2, <3>1 DEF TopIsMine
  <2>3. CASE r # t /\ ~HasMade(op[r])
    BY <1>3, <2>3 DEF TopIsMine
  <2> QED
    BY <2>1, <2>2, <2>3
<1>6. ASSUME NEW m \in Live
      PROVE  InHand(m)' \/ HasOwn(m)'
  <2>1. ASSUME InHand(m)
        PROVE  InHand(m)'
    <3>1. PICK r \in Thread : HasMade(op[r]) /\ Top(op[r].target) = m
      BY <2>1 DEF InHand
    <3>2. r # t /\ HasMade(op'[r]) /\ Top(op[r].target)' = m
      BY <1>3, <1>4, <3>1
    <3> QED
      BY <3>2 DEF InHand
  <2>2. ASSUME HasOwn(m)
        PROVE  HasOwn(m)'
    <3>1. PICK i \in Rec : Tracked(m) = {i} /\ rec[i].bytes = msize[m]
      BY <2>2 DEF HasOwn
    <3>2. rec'[i] = rec[i]
      BY <3>1 DEF Tracked
    <3> QED
      BY <3>1, <3>2 DEF HasOwn
  <2> QED
    BY <1>1, <2>1, <2>2
<1> QED
  BY <1>2, <1>5, <1>6 DEF OwnRecords

LEMMA AttachOwns ==
    ASSUME TypeOK, TypeOK', OneCallEach, OwnRecords, Disciplined, phase = "active",
           NEW t \in Thread, Attach(t)
    PROVE  OwnRecords'
<1> DEFINE g == op[t].target
<1>1. /\ op[t].at = "attach" /\ UNCHANGED <<phase, rec, count, bytes>>
      /\ Moved(t) /\ SameCall(t) /\ op'[t].at = "peek" /\ g \in Target
      /\ op'[t].error = FALSE
  BY AttachShape, CallTyped
<1>2. PICK m \in Mnt \ Live :
                /\ \A i \in Rec : rec[i].mnt # m
                /\ Len(stack'[g]) = Len(stack[g]) + 1
                /\ stack'[g][Len(stack[g]) + 1] = m
                /\ \A i \in 1..Len(stack[g]) : stack'[g][i] = stack[g][i]
                /\ \A h \in Target \ {g} : stack'[h] = stack[h]
                /\ msize'[m] = op[t].size /\ \A k \in Mnt \ {m} : msize'[k] = msize[k]
  BY AttachShape
<1>3. /\ Len(stack[g]) \in Nat /\ DOMAIN stack[g] = 1..Len(stack[g])
      /\ DOMAIN stack'[g] = 1..(Len(stack[g]) + 1)
  <2>1. stack'[g] \in Seq(Mnt \cup InheritedMnt)
    BY <1>1 DEF TypeOK
  <2> QED
    BY <1>1, <1>2, <2>1, TopTyped
<1>4. Top(g)' = m
  <2>1. stack'[g] # <<>>
    BY <1>2, <1>3
  <2>2. g' = g
    BY <1>1 DEF SameCall
  <2> QED
    BY <1>2, <2>1, <2>2 DEF Top
<1>5. Live' = Live \cup {m}
  <2>1. ASSUME NEW k \in Mnt, k \in Live'
        PROVE  k \in Live \cup {m}
    <3>1. PICK h \in Target : \E i \in DOMAIN stack'[h] : stack'[h][i] = k
      BY <2>1 DEF Live
    <3>2. PICK i \in DOMAIN stack'[h] : stack'[h][i] = k
      BY <3>1
    <3>3. CASE h # g
      BY <1>2, <3>2, <3>3, LiveOf
    <3>4. CASE h = g /\ i \in 1..Len(stack[g])
      BY <1>2, <1>3, <3>2, <3>4, LiveOf
    <3>5. CASE h = g /\ i = Len(stack[g]) + 1
      BY <1>2, <3>2, <3>5
    <3> QED
      BY <1>3, <3>2, <3>3, <3>4, <3>5
  <2>2. ASSUME NEW k \in Live
        PROVE  k \in Live'
    <3>1. PICK h \in Target : \E i \in DOMAIN stack[h] : stack[h][i] = k
      BY DEF Live
    <3>2. PICK i \in DOMAIN stack[h] : stack[h][i] = k
      BY <3>1
    <3>3. i \in DOMAIN stack'[h] /\ stack'[h][i] = k
      BY <1>2, <1>3, <3>2
    <3>4. k \in Mnt
      BY DEF Live
    <3> QED
      BY <3>3, <3>4 DEF Live
  <2>3. m \in Live'
    <3>1. Len(stack[g]) + 1 \in DOMAIN stack'[g]
      BY <1>3
    <3> QED
      BY <1>1, <1>2, <3>1 DEF Live
  <2> QED
    BY <2>1, <2>2, <2>3 DEF Live
<1>6. \A k : Tracked(k)' = Tracked(k)
  BY <1>1 DEF Tracked
<1>7. Tracked(m) = {}
  BY <1>2 DEF Tracked
<1>8. ASSUME NEW r \in Thread, r # t, HasMade(op[r])
      PROVE  op'[r] = op[r] /\ Top(op[r].target)' = Top(op[r].target)
  BY <1>1, <1>2, <1>8, OthersOwn DEF InCall, Disciplined
<1>9. /\ \A r \in Thread : SizeReserved(r) /\ TopIsMine(r)
      /\ \A k \in Live : InHand(k) \/ HasOwn(k)
  BY DEF OwnRecords
<1>10. ~HasMade(op[t]) /\ HasMade(op'[t]) /\ Holds(op[t])
  BY <1>1 DEF HasMade, Holds
<1>11. ASSUME NEW r \in Thread
       PROVE  SizeReserved(r)' /\ TopIsMine(r)'
  <2>1. CASE r = t
    <3>1. op'[t].size = op[t].size /\ Pending(t)' = Pending(t)
      BY <1>1, PendingSame DEF SameCall
    <3>2. SizeReserved(t)'
      BY <1>1, <1>9, <1>10, <3>1 DEF SizeReserved
    <3> QED
      BY <1>1, <1>2, <1>4, <1>5, <1>6, <1>7, <2>1, <3>1, <3>2 DEF TopIsMine
  <2>2. CASE r # t
    <3>1. op'[r] = op[r] /\ Pending(r)' = Pending(r)
      BY <1>1, <2>2, PendingSame DEF Moved
    <3>2. SizeReserved(r)'
      BY <1>1, <1>9, <3>1 DEF SizeReserved
    <3>3. CASE HasMade(op[r])
      <4>1. Top(op[r].target) \in Live /\ Top(op[r].target) # m /\ Top(op[r].target) \in Mnt
        BY <1>9, <2>2, <3>3 DEF TopIsMine, Live
      <4>2. Top(op[r].target)' = Top(op[r].target) /\ msize'[Top(op[r].target)] = msize[Top(op[r].target)]
        BY <1>2, <1>8, <2>2, <3>3, <4>1
      <4> QED
        BY <1>5, <1>6, <1>9, <3>1, <3>2, <3>3, <4>1, <4>2 DEF TopIsMine
    <3>4. CASE ~HasMade(op[r])
      BY <3>1, <3>2, <3>4 DEF TopIsMine
    <3> QED
      BY <3>3, <3>4
  <2> QED
    BY <2>1, <2>2
<1>12. ASSUME NEW k \in Live'
       PROVE  InHand(k)' \/ HasOwn(k)'
  <2>1. CASE k = m
    BY <1>4, <1>10, <2>1 DEF InHand
  <2>2. ASSUME k \in Live, InHand(k)
        PROVE  InHand(k)'
    <3>1. PICK r \in Thread : HasMade(op[r]) /\ Top(op[r].target) = k
      BY <2>2 DEF InHand
    <3>2. r # t
      BY <1>10, <3>1
    <3>3. HasMade(op'[r]) /\ Top(op[r].target)' = k
      BY <1>8, <3>1, <3>2
    <3> QED
      BY <3>3 DEF InHand
  <2>3. ASSUME k \in Live, HasOwn(k)
        PROVE  HasOwn(k)'
    <3>1. k \in Mnt \ {m}
      BY <1>2, <2>3 DEF Live
    <3> QED
      BY <1>1, <1>2, <1>6, <2>3, <3>1 DEF HasOwn
  <2> QED
    BY <1>5, <1>9, <2>1, <2>2, <2>3
<1> QED
  BY <1>11, <1>12 DEF OwnRecords

LEMMA FollowDownOwns ==
    ASSUME TypeOK, TypeOK', OneCallEach, OwnRecords, Disciplined, phase = "active",
           NEW t \in Thread, FollowDown(t)
    PROVE  OwnRecords'
<1>1. /\ Moved(t) /\ SameCall(t) /\ op'[t].at = "result" /\ op[t].at = "peek"
      /\ op'[t].error = op[t].error /\ op'[t].mnt = Top(op[t].target)
      /\ UNCHANGED <<phase, rec, count, bytes, stack, msize>>
  BY CallFollows DEF FollowDown, instVars, kernelVars
<1>2. /\ \A r \in Thread : SizeReserved(r) /\ TopIsMine(r)
      /\ \A k \in Live : InHand(k) \/ HasOwn(k)
  BY DEF OwnRecords
<1>3. ASSUME NEW r \in Thread
      PROVE  /\ op'[r].target = op[r].target /\ op'[r].size = op[r].size /\ op[r].target \in Target
             /\ HasMade(op'[r]) <=> HasMade(op[r])
             /\ Holds(op'[r]) => Holds(op[r])
             /\ op'[r].at = "result" => op'[r].mnt = Top(op[r].target) \/ op'[r] = op[r]
  BY <1>1, CallTyped DEF Moved, SameCall, HasMade, Holds
<1>4. /\ Live' = Live /\ \A k : Tracked(k)' = Tracked(k)
      /\ \A r \in Thread : Pending(r)' = Pending(r)
  BY <1>1, PendingSame DEF Live, Tracked
<1>5. \A g \in Target : Top(g)' = Top(g)
  BY <1>1, TopSame
<1>6. ASSUME NEW r \in Thread
      PROVE  Top(op[r].target)' = Top(op[r].target)
  BY <1>3, <1>5
<1>7. ASSUME NEW r \in Thread
      PROVE  SizeReserved(r)' /\ TopIsMine(r)'
  <2>1. SizeReserved(r)'
    BY <1>1, <1>2, <1>3, <1>4 DEF SizeReserved
  <2>2. TopIsMine(r)'
    BY <1>1, <1>2, <1>3, <1>4, <1>6 DEF TopIsMine
  <2> QED
    BY <2>1, <2>2
<1>8. ASSUME NEW k \in Live
      PROVE  InHand(k)' \/ HasOwn(k)'
  <2>1. InHand(k) => InHand(k)'
    BY <1>3, <1>6 DEF InHand
  <2>2. HasOwn(k) => HasOwn(k)'
    BY <1>1, <1>4 DEF HasOwn
  <2> QED
    BY <1>2, <2>1, <2>2
<1> QED
  BY <1>4, <1>7, <1>8 DEF OwnRecords

LEMMA UmountOwns ==
    ASSUME TypeOK, TypeOK', OneCallEach, OwnRecords, TrackedOurs, Disciplined, phase = "active",
           NEW t \in Thread, DoUmount(t)
    PROVE  OwnRecords'
<1> DEFINE g == op[t].target
<1>1. /\ op[t].at = "udo" /\ UNCHANGED <<phase, rec, count, bytes, msize>> /\ g \in Target
      /\ Moved(t) /\ SameCall(t) /\ op'[t].at = "uresult"
      /\ Top(g) = op[t].path /\ Tracked(op[t].path) # {}
      /\ \A h \in Target \ {g} : stack'[h] = stack[h]
  BY UmountShape, CallTyped
<1>2. stack[g] # <<>>
  <2>1. op[t].path \in Mnt
    BY <1>1 DEF Tracked, TrackedOurs
  <2> QED
    BY <1>1, <2>1, MountConstants DEF Top
<1>3. /\ Len(stack'[g]) = Len(stack[g]) - 1
      /\ \A i \in 1..Len(stack'[g]) : stack'[g][i] = stack[g][i]
  BY <1>2, UmountShape
<1>4. Live' \subseteq Live
  <2> SUFFICES ASSUME NEW k \in Live' PROVE k \in Live
    OBVIOUS
  <2>1. PICK h \in Target : \E i \in DOMAIN stack'[h] : stack'[h][i] = k
    BY DEF Live
  <2>2. PICK i \in DOMAIN stack'[h] : stack'[h][i] = k
    BY <2>1
  <2>3. k \in Mnt
    BY DEF Live
  <2>4. CASE h # g
    BY <1>1, <2>2, <2>3, <2>4, LiveOf
  <2>5. CASE h = g
    <3>1. stack'[g] \in Seq(Mnt \cup InheritedMnt) /\ stack[g] \in Seq(Mnt \cup InheritedMnt)
      BY <1>1 DEF TypeOK
    <3>2. i \in 1..Len(stack'[g]) /\ i \in DOMAIN stack[g]
      BY <1>3, <2>2, <2>5, <3>1
    <3> QED
      BY <1>1, <1>3, <2>2, <2>3, <2>5, <3>2, LiveOf
  <2> QED
    BY <2>4, <2>5
<1>5. /\ \A k : Tracked(k)' = Tracked(k)
      /\ \A r \in Thread : Pending(r)' = Pending(r)
  BY <1>1, PendingSame DEF Tracked
<1>6. /\ \A r \in Thread : SizeReserved(r) /\ TopIsMine(r)
      /\ \A k \in Live : InHand(k) \/ HasOwn(k)
  BY DEF OwnRecords
<1>7. ~HasMade(op[t]) /\ ~HasMade(op'[t]) /\ ~Holds(op'[t])
  BY <1>1 DEF HasMade, Holds
<1>8. ASSUME NEW r \in Thread, r # t, HasMade(op[r])
      PROVE  /\ op'[r] = op[r] /\ Top(op[r].target)' = Top(op[r].target)
             /\ op[r].target \in Target \ {g}
  BY <1>1, <1>8, OthersOwn DEF InCall, Disciplined
<1>9. ASSUME NEW r \in Thread
      PROVE  SizeReserved(r)' /\ TopIsMine(r)'
  <2>1. CASE r = t
    BY <1>7, <2>1 DEF SizeReserved, TopIsMine
  <2>2. CASE r # t
    <3>1. op'[r] = op[r]
      BY <1>1, <2>2 DEF Moved
    <3>2. SizeReserved(r)'
      BY <1>1, <1>5, <1>6, <3>1 DEF SizeReserved
    <3>3. CASE HasMade(op[r])
      <4>1. /\ Top(op[r].target)' = Top(op[r].target) /\ op[r].target \in Target
            /\ stack'[op[r].target] = stack[op[r].target]
        BY <1>1, <1>8, <2>2, <3>3
      <4>2. Top(op[r].target) \in Mnt /\ Top(op[r].target) # NoMnt
        BY <1>6, <3>3, MountConstants DEF TopIsMine, Live
      <4>3. PICK i \in DOMAIN stack[op[r].target] : stack[op[r].target][i] = Top(op[r].target)
        BY <4>1, <4>2, TopTyped
      <4>4. Top(op[r].target) \in Live'
        BY <4>1, <4>2, <4>3 DEF Live
      <4> QED
        BY <1>1, <1>5, <1>6, <3>1, <3>2, <3>3, <4>1, <4>4 DEF TopIsMine
    <3>4. CASE ~HasMade(op[r])
      BY <3>1, <3>2, <3>4 DEF TopIsMine
    <3> QED
      BY <3>3, <3>4
  <2> QED
    BY <2>1, <2>2
<1>10. ASSUME NEW k \in Live'
       PROVE  InHand(k)' \/ HasOwn(k)'
  <2>1. ASSUME InHand(k)
        PROVE  InHand(k)'
    <3>1. PICK r \in Thread : HasMade(op[r]) /\ Top(op[r].target) = k
      BY <2>1 DEF InHand
    <3>2. r # t
      BY <1>7, <3>1
    <3>3. HasMade(op'[r]) /\ Top(op[r].target)' = k
      BY <1>8, <3>1, <3>2
    <3> QED
      BY <3>3 DEF InHand
  <2>2. HasOwn(k) => HasOwn(k)'
    BY <1>1, <1>5 DEF HasOwn
  <2> QED
    BY <1>4, <1>6, <2>1, <2>2
<1> QED
  BY <1>9, <1>10 DEF OwnRecords

\* The mount a call has made gets the call's reservation as its record.
LEMMA TrackOwns ==
    ASSUME TypeOK, TypeOK', OneCallEach, OnePlace, OwnRecords, Disciplined, phase = "active",
           NEW t \in Thread, Moved(t), op[t].at = "result", ~op[t].error, op'[t].at = "user",
           stack' = stack, msize' = msize,
           NEW i \in Pending(t), Kept(t, i)
    PROVE  OwnRecords'
<1>1. /\ \A r \in Thread : SizeReserved(r) /\ TopIsMine(r)
      /\ \A k \in Live : InHand(k) \/ HasOwn(k)
  BY DEF OwnRecords
<1>2. HasMade(op[t]) /\ Holds(op[t]) /\ ~HasMade(op'[t]) /\ ~Holds(op'[t])
  BY DEF HasMade, Holds
<1>3. PICK m : m = op[t].mnt
  OBVIOUS
<1>4. /\ m = Top(op[t].target) /\ m \in Live /\ Tracked(m) = {} /\ msize[m] = op[t].size
      /\ rec[i].bytes = op[t].size /\ i \in Rec /\ rec[i].state = "PENDING"
  BY <1>1, <1>2, <1>3 DEF TopIsMine, SizeReserved, Pending
<1>5. /\ rec'[i].state = "TRACKED" /\ rec'[i].mnt = m /\ rec'[i].bytes = msize[m]
      /\ \A j \in Rec \ {i} : rec'[j] = rec[j]
  BY <1>3, <1>4 DEF Kept
<1>6. Tracked(m)' = {i} /\ \A k : k # m => Tracked(k)' = Tracked(k)
  <2>1. \A k : \A j \in Rec : j \in Tracked(k)' <=> rec'[j].state = "TRACKED" /\ rec'[j].mnt = k
    BY DEF Tracked
  <2>2. \A k : \A j \in Rec : j \in Tracked(k) <=> rec[j].state = "TRACKED" /\ rec[j].mnt = k
    BY DEF Tracked
  <2>3. \A k : Tracked(k) \subseteq Rec /\ Tracked(k)' \subseteq Rec
    BY DEF Tracked
  <2>4. \A j \in Rec : j \in Tracked(m)' <=> j = i
    BY <1>4, <1>5, <2>1, <2>2
  <2>5. ASSUME NEW k, k # m
        PROVE  Tracked(k)' = Tracked(k)
    <3>1. \A j \in Rec : j \in Tracked(k)' <=> j \in Tracked(k)
      BY <1>4, <1>5, <2>1, <2>2, <2>5
    <3> QED
      BY <2>3, <3>1
  <2>6. Tracked(m)' = {i}
    BY <1>4, <2>3, <2>4
  <2> QED
    BY <2>5, <2>6
<1>7. Live' = Live
  BY DEF Live
<1>8. \A r \in Thread \ {t} : op'[r] = op[r] /\ Pending(r)' = Pending(r) /\ op[r].target \in Target
  BY PendingChanges, CallTyped DEF Moved, Pending
<1>9. \A g \in Target : Top(g)' = Top(g)
  BY TopSame
<1>10. ASSUME NEW r \in Thread \ {t}, HasMade(op[r])
       PROVE  Top(op[r].target)' = Top(op[r].target) /\ Top(op[r].target) # m
  <2>1. op[r].target # op[t].target /\ op[r].target \in Target /\ op[t].target \in Target
    BY <1>10, CallTyped DEF OneCallEach, InCall, HasMade, Disciplined
  <2>2. Top(op[r].target)' = Top(op[r].target)
    BY <1>8, <1>9
  <2>3. ASSUME Top(op[r].target) = m
        PROVE  FALSE
    <3>1. m \in Mnt /\ m # NoMnt
      BY <1>4, MountConstants DEF Live
    <3>2. PICK a \in DOMAIN stack[op[r].target] : stack[op[r].target][a] = m
      BY <2>1, <2>3, <3>1, TopTyped
    <3>3. PICK b \in DOMAIN stack[op[t].target] : stack[op[t].target][b] = m
      BY <1>4, <2>1, <3>1, TopTyped
    <3> QED
      BY <2>1, <3>1, <3>2, <3>3 DEF OnePlace
  <2> QED
    BY <2>2, <2>3
<1>11. ASSUME NEW r \in Thread
       PROVE  SizeReserved(r)' /\ TopIsMine(r)'
  <2>1. CASE r = t
    BY <1>2, <2>1 DEF SizeReserved, TopIsMine
  <2>2. CASE r # t
    <3>1. ASSUME NEW j \in Pending(r)
          PROVE  rec'[j] = rec[j]
      BY <1>5, <2>2 DEF Pending
    <3>2. SizeReserved(r)'
      BY <1>1, <1>8, <2>2, <3>1 DEF SizeReserved
    <3>3. CASE HasMade(op[r])
      <4>1. Top(op[r].target)' = Top(op[r].target) /\ Top(op[r].target) # m
        BY <1>10, <2>2, <3>3
      <4> QED
        BY <1>1, <1>6, <1>7, <1>8, <2>2, <3>2, <3>3, <4>1 DEF TopIsMine
    <3>4. CASE ~HasMade(op[r])
      BY <1>8, <2>2, <3>2, <3>4 DEF TopIsMine
    <3> QED
      BY <3>3, <3>4
  <2> QED
    BY <2>1, <2>2
<1>12. ASSUME NEW k \in Live
       PROVE  InHand(k)' \/ HasOwn(k)'
  <2>1. CASE k = m
    BY <1>4, <1>5, <1>6, <2>1 DEF HasOwn
  <2>2. ASSUME k # m, InHand(k)
        PROVE  InHand(k)'
    <3>1. PICK r \in Thread : HasMade(op[r]) /\ Top(op[r].target) = k
      BY <2>2 DEF InHand
    <3>2. r # t
      BY <1>4, <2>2, <3>1
    <3>3. HasMade(op'[r]) /\ Top(op[r].target)' = k
      BY <1>8, <1>10, <3>1, <3>2
    <3> QED
      BY <3>3 DEF InHand
  <2>3. ASSUME k # m, HasOwn(k)
        PROVE  HasOwn(k)'
    <3>1. PICK j \in Rec : Tracked(k) = {j} /\ rec[j].bytes = msize[k]
      BY <2>3 DEF HasOwn
    <3>2. rec'[j] = rec[j]
      BY <1>4, <1>5, <3>1 DEF Tracked
    <3> QED
      BY <1>6, <2>3, <3>1, <3>2 DEF HasOwn
  <2> QED
    BY <1>1, <2>1, <2>2, <2>3
<1> QED
  BY <1>7, <1>11, <1>12 DEF OwnRecords

LEMMA NextOwns ==
    ASSUME MountInv, MountInv', OneCallEach, BindSizes, OwnRecords, [Next]_vars
    PROVE  OwnRecords'
<1>1. /\ TypeOK /\ AccountsExact /\ Reserved /\ PendingOne /\ AllGone /\ OnePlace /\ TypeOK'
      /\ regime' = regime
  BY StepKinds DEF MountInv
<1>2. CASE UNCHANGED vars
  <2>1. UNCHANGED <<phase, rec, stack, msize, op, regime>>
    BY <1>2 DEF vars
  <2>2. Live' = Live /\ (\A k : Tracked(k)' = Tracked(k)) /\ (\A r \in Thread : Pending(r)' = Pending(r))
    BY <2>1, PendingSame DEF Live, Tracked
  <2>3. \A r \in Thread : Top(op[r].target)' = Top(op[r].target)
    BY <2>1 DEF Top
  <2>4. /\ \A r \in Thread : SizeReserved(r) => SizeReserved(r)'
        /\ \A r \in Thread : TopIsMine(r) => TopIsMine(r)'
    BY <2>1, <2>2, <2>3 DEF SizeReserved, TopIsMine
  <2>5. \A k : (InHand(k) => InHand(k)') /\ (HasOwn(k) => HasOwn(k)')
    BY <2>1, <2>2, <2>3 DEF InHand, HasOwn
  <2> QED
    BY <2>1, <2>2, <2>4, <2>5 DEF OwnRecords, Disciplined
<1>3. SUFFICES ASSUME Disciplined, phase' = "active" PROVE OwnRecords'
  BY <1>1 DEF OwnRecords, Disciplined
<1>4. ASSUME phase = "active"
      PROVE  \A r \in Thread : SizeReserved(r)
  BY <1>3, <1>4 DEF OwnRecords
<1>5. ASSUME NEW t \in Thread, GoesOn(t)
      PROVE  OwnRecords'
  <2>1. /\ Moved(t) /\ UNCHANGED <<phase, rec, stack, msize>> /\ ~HasMade(op[t]) /\ ~HasMade(op'[t])
        /\ Holds(op'[t]) => Holds(op[t])
        /\ Orderly(t)
    BY <1>5 DEF GoesOn
  <2>2. Holds(op'[t]) => op'[t].size = op[t].size
    BY <2>1 DEF Orderly, Holds, HasMade, InCall, SameCall
  <2>3. (\A k : Tracked(k)' = Tracked(k)) /\ (\A r \in Thread : Pending(r)' = Pending(r))
    BY <2>1, PendingSame DEF Tracked
  <2>4. ASSUME NEW r \in Thread
        PROVE  SizeReserved(r)'
    BY <1>3, <1>4, <2>1, <2>2, <2>3 DEF SizeReserved, Moved
  <2> QED
    BY <1>1, <1>3, <2>1, <2>3, <2>4, PassOwns
<1>6. ASSUME NEW t \in Thread, Books(t)
      PROVE  OwnRecords'
  <2>1. /\ Moved(t) /\ UNCHANGED <<phase, stack, msize>> /\ ~HasMade(op[t]) /\ ~HasMade(op'[t])
        /\ ~MayHold(op[t]) /\ SameCall(t) /\ phase = "active"
    BY <1>6 DEF Books
  <2>2. PICK i \in Rec : /\ Booked(t, i)
                         /\ rec'[i].bytes = op[t].size \/ (op[t].at = "bind" /\ rec'[i].bytes = 0)
    BY <1>6 DEF Books
  <2>3. rec'[i].bytes = op'[t].size
    BY <2>1, <2>2 DEF BindSizes, SameCall
  <2>4. Pending(t) = {}
    BY <1>1, <1>3, <2>1 DEF PendingOne, Disciplined
  <2>5. Pending(t)' = {i} /\ \A r \in Thread \ {t} : Pending(r)' = Pending(r)
    BY <2>2, <2>4, PendingChanges
  <2>6. \A j \in Rec : rec[j].state # "FREE" => rec'[j] = rec[j]
    BY <2>2 DEF Booked
  <2>7. ASSUME NEW k PROVE Tracked(k)' = Tracked(k)
    <3>1. \A j \in Rec : j \in Tracked(k)' <=> j \in Tracked(k)
      BY <2>2, <2>6 DEF Booked, Tracked
    <3> QED
      BY <3>1 DEF Tracked
  <2>8. ASSUME NEW r \in Thread
        PROVE  SizeReserved(r)'
    <3>1. CASE r = t
      BY <2>3, <2>5, <3>1 DEF SizeReserved
    <3>2. CASE r # t
      <4>1. \A j \in Pending(r) : rec'[j] = rec[j]
        BY <2>6 DEF Pending
      <4> QED
        BY <1>4, <2>1, <2>5, <3>2, <4>1 DEF SizeReserved, Moved
    <3> QED
      BY <3>1, <3>2
  <2> QED
    BY <1>1, <1>3, <2>1, <2>6, <2>7, <2>8, PassOwns
<1>7. ASSUME NEW t \in Thread, Attach(t)
      PROVE  OwnRecords'
  BY <1>1, <1>3, <1>7, AttachOwns, AttachShape
<1>8. ASSUME NEW t \in Thread, FollowDown(t)
      PROVE  OwnRecords'
  BY <1>1, <1>3, <1>8, FollowDownOwns DEF FollowDown, instVars
<1>9. ASSUME NEW t \in Thread, MountResult(t)
      PROVE  OwnRecords'
  <2>1. /\ stack' = stack /\ msize' = msize /\ Moved(t) /\ op'[t].at = "user"
        /\ op[t].at = "result" /\ phase' = phase /\ phase = "active"
    BY <1>1, <1>3, <1>9, CallBack, MountResultCases DEF MountResult, kernelVars
  <2>2. ~HasMade(op'[t]) /\ ~Holds(op'[t])
    BY <2>1 DEF HasMade, Holds
  <2>3. CASE Pending(t) = {} /\ rec' = rec
    <3>1. ~HasMade(op[t])
      BY <1>1, <2>1, <2>3 DEF Reserved, Holds
    <3>2. (\A k : Tracked(k)' = Tracked(k)) /\ (\A r \in Thread : Pending(r)' = Pending(r))
      BY <2>3, PendingSame DEF Tracked
    <3>3. ASSUME NEW r \in Thread
          PROVE  SizeReserved(r)'
      BY <1>4, <2>1, <2>2, <2>3, <3>2 DEF SizeReserved, Moved
    <3> QED
      BY <1>1, <1>3, <2>1, <2>2, <2>3, <3>1, <3>2, <3>3, PassOwns
  <2>4. ASSUME op[t].error, NEW i \in Pending(t), Cleared(i)
        PROVE  OwnRecords'
    <3>1. ~HasMade(op[t])
      BY <2>4 DEF HasMade
    <3>2. i \in Rec /\ rec[i].state = "PENDING" /\ rec'[i].state = "FREE"
          /\ \A j \in Rec \ {i} : rec'[j] = rec[j]
      BY <2>4 DEF Pending, Cleared
    <3>3. \A k : Tracked(k)' = Tracked(k)
      BY <3>2 DEF Tracked
    <3>4. \A r \in Thread \ {t} : Pending(r)' = Pending(r)
      BY <2>4, <3>2, PendingChanges
    <3>5. \A r \in Thread \ {t} : i \notin Pending(r)
      BY <2>4 DEF Pending
    <3>6. ASSUME NEW r \in Thread
          PROVE  SizeReserved(r)'
      <4>1. CASE r = t
        BY <2>2, <4>1 DEF SizeReserved
      <4>2. CASE r # t
        <5>1. \A j \in Pending(r) : rec'[j] = rec[j]
          BY <3>2, <3>5, <4>2 DEF Pending
        <5> QED
          BY <1>4, <2>1, <3>4, <4>2, <5>1 DEF SizeReserved, Moved
      <4> QED
        BY <4>1, <4>2
    <3> QED
      BY <1>1, <1>3, <2>1, <2>2, <3>1, <3>2, <3>3, <3>6, PassOwns
  <2>5. ASSUME ~op[t].error, NEW i \in Pending(t), Kept(t, i)
        PROVE  OwnRecords'
    BY <1>1, <1>3, <2>1, <2>5, TrackOwns
  <2> QED
    BY <1>1, <1>9, <2>1, <2>3, <2>4, <2>5, MountResultCases
<1>10. ASSUME NEW t \in Thread, DoUmount(t)
       PROVE  OwnRecords'
  <2>1. phase = "active"
    BY <1>1, <1>10, UmountShape
  <2>2. TrackedOurs
    BY <2>1 DEF MountInv, Accounted
  <2> QED
    BY <1>1, <1>3, <1>10, <2>1, <2>2, UmountOwns
<1>11. ASSUME NEW t \in Thread, UmountResult(t)
       PROVE  OwnRecords'
  <2>1. /\ stack' = stack /\ msize' = msize /\ Moved(t) /\ op'[t].at = "user"
        /\ op[t].at = "uresult" /\ phase' = phase /\ phase = "active"
    BY <1>1, <1>3, <1>11, CallBack, UmountResultCases DEF UmountResult, kernelVars
  <2>2. ~HasMade(op'[t]) /\ ~Holds(op'[t]) /\ ~HasMade(op[t])
    BY <2>1 DEF HasMade, Holds
  <2>3. op[t].path \notin Live
    BY <2>1 DEF MountInv, Accounted, UnmountedHome
  <2>4. /\ \A i \in Rec : rec[i].state = "PENDING" => rec'[i] = rec[i]
        /\ \A i \in Rec : rec[i].state = "TRACKED" /\ rec[i].mnt \in Live => rec'[i] = rec[i]
        /\ \A m \in Live : Tracked(m)' = Tracked(m)
        /\ \A r \in Thread : Pending(r)' = Pending(r)
    <3>1. CASE rec' = rec
      BY <3>1, PendingSame DEF Tracked
    <3>2. ASSUME NEW i \in Tracked(op[t].path), Cleared(i)
          PROVE  <2>4
      <4>1. /\ i \in Rec /\ rec[i].state = "TRACKED" /\ rec[i].mnt \notin Live
            /\ rec'[i].state = "FREE" /\ \A j \in Rec \ {i} : rec'[j] = rec[j]
        BY <2>3, <3>2 DEF Tracked, Cleared
      <4>2. \A m \in Live : \A j \in Rec : j \in Tracked(m)' <=> j \in Tracked(m)
        BY <4>1 DEF Tracked
      <4>3. \A m : Tracked(m)' \subseteq Rec /\ Tracked(m) \subseteq Rec
        BY DEF Tracked
      <4>4. \A m \in Live : Tracked(m)' = Tracked(m)
        BY <4>2, <4>3
      <4>5. \A r \in Thread : Pending(r)' = Pending(r)
        BY <3>2, <4>1, PendingChanges
      <4> QED
        BY <4>1, <4>4, <4>5
    <3> QED
      BY <1>1, <1>11, <2>1, <3>1, <3>2, UmountResultCases
  <2>5. ASSUME NEW r \in Thread
        PROVE  SizeReserved(r)'
    <3>1. \A j \in Pending(r) : rec'[j] = rec[j]
      BY <2>4 DEF Pending
    <3> QED
      BY <1>4, <2>1, <2>2, <2>4, <3>1 DEF SizeReserved, Moved
  <2> QED
    BY <1>1, <1>3, <2>1, <2>2, <2>4, <2>5, PassOwns
<1>12. ASSUME NEW t \in Thread, Open(t)
       PROVE  OwnRecords'
  <2>1. Moved(t) /\ op'[t].at = "user" /\ phase = "absent" /\ stack' = Inherited
    BY <1>1, <1>12, CallBack DEF Open
  <2>2. \A r \in Thread : ~HasMade(op'[r]) /\ ~Holds(op'[r])
    BY <1>1, <2>1 DEF Moved, AllGone, HasMade, Holds
  <2>3. Live' = {}
    <3>1. \A g \in Target : \A i \in DOMAIN stack'[g] : stack'[g][i] \notin Mnt
      BY <1>1, <2>1, StackTyped
    <3> QED
      BY <3>1 DEF Live
  <2> QED
    BY <2>2, <2>3 DEF OwnRecords, SizeReserved, TopIsMine
<1>13. ~(Mark \/ Detach \/ Close)
  BY <1>3 DEF Mark, Detach, Close
<1> QED
  BY <1>1, <1>2, <1>5, <1>6, <1>7, <1>8, <1>9, <1>10, <1>11, <1>12, <1>13, StepKinds

OwnInv == MountInv /\ OneCallEach /\ BindSizes /\ OwnRecords

LEMMA OwnInvHolds == Spec => []OwnInv
<1>1. Init => OwnInv
  <2> SUFFICES ASSUME Init PROVE OneCallEach /\ BindSizes /\ OwnRecords
    BY InitMountInv DEF OwnInv
  <2>1. phase = "absent" /\ \A t \in Thread : op[t] = Gone
    BY DEF Init
  <2> QED
    BY <2>1, IdleTyped DEF OneCallEach, BindSizes, OwnRecords, InCall
<1>2. OwnInv /\ [Next]_vars => OwnInv'
  <2> SUFFICES ASSUME OwnInv, [Next]_vars PROVE OwnInv'
    OBVIOUS
  <2>1. MountInv'
    BY NextMountInv DEF OwnInv
  <2>2. OneCallEach' /\ BindSizes'
    BY NextOneCall DEF OwnInv, MountInv
  <2>3. OwnRecords'
    BY <2>1, NextOwns DEF OwnInv
  <2> QED
    BY <2>1, <2>2, <2>3 DEF OwnInv
<1> QED
  BY <1>1, <1>2, PTL DEF Spec

\* With one call at a time on a target, abk_sandbox_mount_result finds the mount
\* its own call has made: every sandbox mount no call is working on has one
\* record, of its own size.
THEOREM MountsRecorded == Spec => []EachMountOneRecord
<1>1. OwnInv => EachMountOneRecord
  <2> SUFFICES ASSUME OwnInv, Disciplined, phase = "active", NEW m \in Live
               PROVE  \/ \E g \in Target : /\ Top(g) = m
                                           /\ \E t \in Thread : /\ op[t].target = g
                                                                /\ op[t].at \in {"peek", "result"}
                      \/ \E i \in Rec : Tracked(m) = {i} /\ rec[i].bytes = msize[m]
    BY DEF EachMountOneRecord
  <2>1. InHand(m) \/ HasOwn(m)
    BY DEF OwnInv, OwnRecords
  <2>2. \A t \in Thread : op[t].target \in Target
    BY CallTyped DEF OwnInv, MountInv
  <2> QED
    BY <2>1, <2>2 DEF InHand, HasOwn, HasMade
<1> QED
  BY <1>1, OwnInvHolds, PTL

\* With one call at a time on a target, what the tmpfs mounts of a full UID can
\* hold stays within its limit: each has a record of its size, or the call that
\* made it has a reservation of that size.
THEOREM TmpfsLimited == Spec => []TmpfsWithinLimit
<1>1. OwnInv => TmpfsWithinLimit
  <2> SUFFICES ASSUME OwnInv, Disciplined, phase = "active"
               PROVE  SumOver(msize, Live) <= TmpfsLimit
    BY DEF TmpfsWithinLimit
  <2>1. /\ TypeOK /\ AccountsExact /\ Reserved
        /\ \A t \in Thread : SizeReserved(t)
        /\ \A m \in Live : InHand(m) \/ HasOwn(m)
    BY DEF OwnInv, MountInv, OwnRecords
  <2> DEFINE Covers(i, m) ==
                /\ rec[i].bytes = msize[m]
                /\ \/ rec[i].state = "TRACKED" /\ rec[i].mnt = m
                   \/ rec[i].state = "PENDING" /\ Top(op[rec[i].owner].target) = m
             own == [m \in Live |-> CHOOSE i \in Used : Covers(i, m)]
  <2>2. ASSUME NEW m \in Live
        PROVE  \E i \in Used : Covers(i, m)
    <3>1. CASE HasOwn(m)
      <4>1. PICK i \in Rec : Tracked(m) = {i} /\ rec[i].bytes = msize[m]
        BY <3>1 DEF HasOwn
      <4>2. rec[i].state = "TRACKED" /\ rec[i].mnt = m
        BY <4>1 DEF Tracked
      <4>3. i \in Used
        BY <4>2 DEF Used
      <4> QED
        BY <4>1, <4>2, <4>3
    <3>2. CASE InHand(m)
      <4>1. PICK t \in Thread : HasMade(op[t]) /\ Top(op[t].target) = m
        BY <3>2 DEF InHand
      <4>2. PICK i \in Pending(t) : TRUE
        BY <2>1, <4>1 DEF Reserved, Holds
      <4>3. rec[i].bytes = op[t].size /\ op[t].size = msize[m]
        BY <2>1, <4>1, <4>2 DEF SizeReserved, Holds, OwnInv, OwnRecords, TopIsMine
      <4>4. i \in Used /\ rec[i].state = "PENDING" /\ rec[i].owner = t
        BY <4>2 DEF Pending, Used
      <4> QED
        BY <4>1, <4>3, <4>4
    <3> QED
      BY <2>1, <3>1, <3>2
  <2>3. \A m \in Live : own[m] \in Used /\ Covers(own[m], m)
    <3> HIDE DEF Covers
    <3> QED
      BY <2>2
  <2> HIDE DEF own
  <2>4. \A m, k \in Live : own[m] = own[k] => m = k
    BY <2>3
  <2>5. own \in [Live -> Used]
    BY <2>3 DEF own
  <2>6. IsFiniteSet(Live) /\ \A m \in Live : msize[m] \in Nat
    <3>1. Live \in SUBSET Mnt
      BY DEF Live
    <3>2. \A m \in Mnt : msize[m] \in Nat
      <4>1. Size \cup {0} \subseteq Nat
        BY MountConstants
      <4> QED
        BY <2>1, <4>1 DEF TypeOK
    <3> QED
      BY <3>1, <3>2, MountConstants, FS_Subset
  <2>7. IsFiniteSet(Used) /\ \A i \in Used : i \in Rec /\ Bytes[i] = rec[i].bytes /\ Bytes[i] \in Nat
    BY <2>1, UsedBytes
  <2>8. \A m \in Live : msize[m] <= Bytes[own[m]]
    BY <2>3, <2>6, <2>7
  <2>9. SumOver(msize, Live) <= SumOver(Bytes, Used)
    BY <2>4, <2>5, <2>6, <2>7, <2>8, SumMatched
  <2>10. SumOver(msize, Live) \in Nat /\ SumOver(Bytes, Used) \in Nat
    BY <2>6, <2>7, SumTyped
  <2> QED
    BY <2>1, <2>9, <2>10, MountConstants DEF AccountsExact
<1> QED
  BY <1>1, OwnInvHolds, PTL

=============================================================================
