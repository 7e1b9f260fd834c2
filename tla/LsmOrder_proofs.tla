-------------------------- MODULE LsmOrder_proofs --------------------------
(***************************************************************************)
(* The LSM list for lists of any length: what abk_enable_lsm writes is     *)
(* what validate_defconfig accepts, writing it again changes nothing, and  *)
(* the kernel enables entry exactly for the lists in which every hook      *)
(* after the sandbox's is accounted for.                                   *)
(*                                                                         *)
(* The two loops are recursive functions of the number of names they have  *)
(* seen; what they compute is shown by induction on it.                    *)
(***************************************************************************)
EXTENDS LsmOrder, LoopTheorems, FiniteSetTheorems, SequenceTheorems, TLAPS

-----------------------------------------------------------------------------
(* The loop of abk_enable_lsm.                                             *)

\* k holds what the loop has after every number of names.
Keeps(list, S, k) ==
    k = [n \in 0..Len(list) |->
            IF n = 0 THEN <<>>
            ELSE IF list[n] \in S THEN Append(k[n - 1], list[n]) ELSE k[n - 1]]

LEMMA OnlyIs ==
    ASSUME NEW list, NEW S
    PROVE  Only(list, S) = (CHOOSE k : Keeps(list, S, k))[Len(list)]
BY Zenon DEF Only, Keeps

\* The same, as the values of a loop over lists of names of T.
Keeping(T, list, S, N, k) ==
    /\ k \in [0..N -> Seq(T)] /\ k[0] = <<>> /\ Only(list, S) = k[N]
    /\ \A n \in 1..N :
        k[n] = IF list[n] \in S THEN Append(k[n - 1], list[n]) ELSE k[n - 1]

LEMMA OnlySteps ==
    ASSUME NEW T, NEW list \in Seq(T), NEW S
    PROVE  \E k : Keeping(T, list, S, Len(list), k)
<1>1. PICK N \in Nat : N = Len(list)
  OBVIOUS
<1>2. \A n \in 1..N : list[n] \in T
  BY <1>1
<1>3. PICK F : F = [n \in 1..N |->
                [w \in Seq(T) |-> IF list[n] \in S THEN Append(w, list[n]) ELSE w]]
  OBVIOUS
<1>4. F \in Turns(Seq(T), N)
  BY <1>2, <1>3 DEF Turns
<1>5. PICK b \in Seq(T) : b = <<>>
  BY EmptySeq, Zenon
<1>6. PICK s \in [0..N -> Seq(T)] : s[0] = b /\ \A n \in 1..N : s[n] = F[n][s[n - 1]]
  <2>1. \E s : Course(Seq(T), b, N, F, s)
    BY <1>4, Iterates, Zenon
  <2> QED
    BY <2>1 DEF Course
<1>7. \A n \in 1..N : s[n] = IF list[n] \in S THEN Append(s[n - 1], list[n]) ELSE s[n - 1]
  <2> SUFFICES ASSUME NEW n \in 1..N
               PROVE  s[n] = IF list[n] \in S THEN Append(s[n - 1], list[n]) ELSE s[n - 1]
    OBVIOUS
  <2>1. n - 1 \in 0..N
    OBVIOUS
  <2>2. PICK w \in Seq(T) : w = s[n - 1]
    BY <2>1
  <2>3. F[n][w] = IF list[n] \in S THEN Append(w, list[n]) ELSE w
    BY <1>3
  <2> QED
    BY <1>6, <2>2, <2>3
<1>8. Keeps(list, S, s)
  <2>1. s = [n \in 0..N |-> s[n]]
    OBVIOUS
  <2>2. \A n \in 0..N : s[n] = IF n = 0 THEN <<>>
            ELSE IF list[n] \in S THEN Append(s[n - 1], list[n]) ELSE s[n - 1]
    <3> SUFFICES ASSUME NEW n \in 0..N, n # 0
                 PROVE  n \in 1..N
      BY <1>5, <1>6, <1>7
    <3> QED
      OBVIOUS
  <2> QED
    BY <1>1, <2>1, <2>2, Zenon DEF Keeps
<1>9. PICK k : k = (CHOOSE h : Keeps(list, S, h))
  OBVIOUS
<1>10. Keeps(list, S, k) /\ Only(list, S) = k[N]
  BY <1>1, <1>8, <1>9, OnlyIs, Zenon
<1>11. k = [n \in 0..N |-> IF n = 0 THEN <<>>
                ELSE IF list[n] \in S THEN Append(k[n - 1], list[n]) ELSE k[n - 1]]
  BY <1>1, <1>10, Zenon DEF Keeps
<1>12. k[0] = <<>>
  BY <1>11
<1>13. \A n \in 1..N : k[n] = IF list[n] \in S THEN Append(k[n - 1], list[n]) ELSE k[n - 1]
  <2> SUFFICES ASSUME NEW n \in 1..N
               PROVE  k[n] = IF list[n] \in S THEN Append(k[n - 1], list[n]) ELSE k[n - 1]
    OBVIOUS
  <2>1. n \in 0..N /\ n # 0
    OBVIOUS
  <2> QED
    BY <1>11, <2>1, Zenon
<1>14. \A n \in 0..N : k[n] \in Seq(T)
  <2> DEFINE good == {m \in 0..N : k[m] \in Seq(T)}
  <2>1. 0 \in good
    <3>1. <<>> \in Seq(T) /\ 0 \in 0..N
      OBVIOUS
    <3> QED
      BY <1>12, <3>1, Zenon
  <2>2. \A n \in 1..N : n - 1 \in good => n \in good
    <3> SUFFICES ASSUME NEW n \in 1..N, k[n - 1] \in Seq(T)
                 PROVE  k[n] \in Seq(T)
      OBVIOUS
    <3>1. PICK w \in Seq(T) : w = k[n - 1]
      OBVIOUS
    <3>2. PICK x \in T : x = list[n]
      BY <1>2
    <3>3. Append(w, x) \in Seq(T)
      OBVIOUS
    <3> QED
      BY <1>13, <3>1, <3>2, <3>3
  <2>3. \A n \in 0..N : n \in good
    <3> HIDE DEF good
    <3> QED
      BY <2>1, <2>2, UpTo
  <2> QED
    BY <2>3
<1>15. k \in [0..N -> Seq(T)]
  <2>1. DOMAIN k = 0..N
    BY <1>11
  <2>2. k = [n \in 0..N |-> k[n]]
    BY <1>11
  <2> QED
    BY <1>14, <2>2
<1> QED
  BY <1>1, <1>10, <1>12, <1>13, <1>15 DEF Keeping

-----------------------------------------------------------------------------
(* Names of a list.                                                        *)

Members(list) == {list[i] : i \in 1..Len(list)}

LEMMA AppendIs ==
    ASSUME NEW T, NEW list \in Seq(T), NEW x \in T
    PROVE  /\ Append(list, x) \in Seq(T)
           /\ Len(Append(list, x)) = Len(list) + 1
           /\ \A i \in 1..Len(list) : Append(list, x)[i] = list[i]
           /\ Append(list, x)[Len(list) + 1] = x
OBVIOUS

LEMMA MembersAppend ==
    ASSUME NEW T, NEW list \in Seq(T), NEW x \in T
    PROVE  Members(Append(list, x)) = Members(list) \cup {x}
<1>1. PICK N \in Nat : N = Len(list)
  OBVIOUS
<1>2. PICK w \in Seq(T) : w = Append(list, x)
  BY AppendIs, Zenon
<1>3. Len(w) = N + 1 /\ (\A i \in 1..N : w[i] = list[i]) /\ w[N + 1] = x
  BY <1>1, <1>2, AppendIs
<1>4. Members(w) = {w[i] : i \in 1..(N + 1)} /\ Members(list) = {list[i] : i \in 1..N}
  BY <1>1, <1>3 DEF Members
<1>5. \A i \in 1..(N + 1) : i \in 1..N \/ i = N + 1
  OBVIOUS
<1>6. 1..N \subseteq 1..(N + 1) /\ N + 1 \in 1..(N + 1)
  OBVIOUS
<1>7. Members(w) \subseteq Members(list) \cup {x}
  BY <1>3, <1>4, <1>5
<1>8. Members(list) \cup {x} \subseteq Members(w)
  BY <1>3, <1>4, <1>6
<1> QED
  BY <1>2, <1>7, <1>8

LEMMA NoDuplicatesAppend ==
    ASSUME NEW T, NEW list \in Seq(T), NEW x \in T,
           NoDuplicates(list), x \notin Members(list)
    PROVE  NoDuplicates(Append(list, x))
<1>1. PICK N \in Nat : N = Len(list) /\ DOMAIN list = 1..N
  OBVIOUS
<1>2. PICK w \in Seq(T) : w = Append(list, x)
  BY AppendIs, Zenon
<1>3. Len(w) = N + 1 /\ (\A i \in 1..N : w[i] = list[i]) /\ w[N + 1] = x
  BY <1>1, <1>2, AppendIs
<1>4. \A i \in 1..(N + 1) : i \in 1..N \/ i = N + 1
  OBVIOUS
<1>5. \A i \in 1..N : list[i] # x
  BY <1>1 DEF Members
<1>6. \A i, j \in 1..N : list[i] = list[j] => i = j
  BY <1>1 DEF NoDuplicates
<1>7. \A i, j \in 1..(N + 1) : w[i] = w[j] => i = j
  BY <1>3, <1>4, <1>5, <1>6
<1>8. DOMAIN w = 1..(N + 1)
  BY <1>3
<1> QED
  BY <1>2, <1>7, <1>8 DEF NoDuplicates

\* What the loop has taken after n names.
Taken(list, S, n) == {x \in S : \E i \in 1..n : list[i] = x}

LEMMA OnlyMembers ==
    ASSUME NEW T, NEW list \in Seq(T), NEW S
    PROVE  /\ Only(list, S) \in Seq(T)
           /\ Members(Only(list, S)) = Members(list) \cap S
           /\ NoDuplicates(list) => NoDuplicates(Only(list, S))
<1>1. PICK N \in Nat : N = Len(list) /\ DOMAIN list = 1..N
  OBVIOUS
<1>2. \A n \in 1..N : list[n] \in T
  BY <1>1
<1>3. PICK k \in [0..N -> Seq(T)] :
        /\ k[0] = <<>> /\ Only(list, S) = k[N]
        /\ \A n \in 1..N : k[n] = IF list[n] \in S THEN Append(k[n - 1], list[n]) ELSE k[n - 1]
  <2>1. \E k : Keeping(T, list, S, N, k)
    BY <1>1, OnlySteps, Zenon
  <2> QED
    BY <2>1 DEF Keeping
<1> DEFINE Right(n) == /\ Members(k[n]) = Taken(list, S, n)
                       /\ NoDuplicates(list) => NoDuplicates(k[n])
           good == {n \in 0..N : Right(n)}
<1>4. 0 \in good
  <2>1. Members(<<>>) = {} /\ NoDuplicates(<<>>)
    BY DEF Members, NoDuplicates
  <2>2. Taken(list, S, 0) = {}
    BY DEF Taken
  <2>3. 0 \in 0..N
    OBVIOUS
  <2> QED
    BY <1>3, <2>1, <2>2, <2>3, Zenon
<1>5. \A n \in 1..N : n - 1 \in good => n \in good
  <2> SUFFICES ASSUME NEW n \in 1..N, Right(n - 1)
               PROVE  Right(n)
    <3>1. 1..N \subseteq 0..N
      OBVIOUS
    <3> HIDE DEF Right
    <3> QED
      BY <3>1
  <2>1. PICK w \in Seq(T) : w = k[n - 1]
    <3>1. n - 1 \in 0..N
      OBVIOUS
    <3> QED
      BY <3>1
  <2>2. PICK x \in T : x = list[n]
    BY <1>2
  <2>3. k[n] = IF x \in S THEN Append(w, x) ELSE w
    BY <1>3, <2>1, <2>2
  <2>4. \A i \in 1..n : i \in 1..(n - 1) \/ i = n
    OBVIOUS
  <2>5. 1..(n - 1) \subseteq 1..n /\ n \in 1..n /\ 1..n \subseteq 1..N
    OBVIOUS
  <2>6. Taken(list, S, n) = Taken(list, S, n - 1) \cup (IF x \in S THEN {x} ELSE {})
    BY <2>2, <2>4, <2>5 DEF Taken
  <2>7. CASE x \in S
    <3>1. k[n] = Append(w, x)
      BY <2>3, <2>7
    <3>2. Members(k[n]) = Taken(list, S, n)
      <4>1. Members(Append(w, x)) = Members(w) \cup {x}
        BY MembersAppend
      <4> QED
        BY <3>1, <4>1, <2>1, <2>6, <2>7
    <3>3. ASSUME NoDuplicates(list)
          PROVE  NoDuplicates(k[n])
      <4>1. \A i \in 1..(n - 1) : list[i] # x
        <5>1. \A i, j \in 1..N : list[i] = list[j] => i = j
          BY <1>1, <3>3 DEF NoDuplicates
        <5> QED
          BY <2>2, <2>5, <5>1
      <4>2. x \notin Members(w)
        BY <2>1, <4>1 DEF Taken
      <4>3. NoDuplicates(w)
        BY <2>1, <3>3
      <4> QED
        BY <3>1, <4>2, <4>3, NoDuplicatesAppend, Zenon
    <3> QED
      BY <3>2, <3>3
  <2>8. CASE x \notin S
    BY <2>1, <2>3, <2>6, <2>8
  <2> QED
    BY <2>7, <2>8
<1>6. Right(N)
  <2>1. N \in 0..N
    OBVIOUS
  <2>2. \A n \in 0..N : n \in good
    <3> HIDE DEF good
    <3> QED
      BY <1>4, <1>5, UpTo
  <2> HIDE DEF Right
  <2> QED
    BY <2>1, <2>2
<1>7. Taken(list, S, N) = Members(list) \cap S
  BY <1>1 DEF Taken, Members
<1>8. k[N] \in Seq(T)
  BY <1>1
<1> QED
  BY <1>3, <1>6, <1>7, <1>8

\* A list that only has names of S is taken over as it is.
LEMMA OnlyAll ==
    ASSUME NEW T, NEW list \in Seq(T), NEW S, Members(list) \subseteq S
    PROVE  Only(list, S) = list
<1>1. PICK N \in Nat : N = Len(list) /\ DOMAIN list = 1..N
  OBVIOUS
<1>2. \A n \in 1..N : list[n] \in T /\ list[n] \in S
  BY <1>1 DEF Members
<1>3. PICK k \in [0..N -> Seq(T)] :
        /\ k[0] = <<>> /\ Only(list, S) = k[N]
        /\ \A n \in 1..N : k[n] = IF list[n] \in S THEN Append(k[n - 1], list[n]) ELSE k[n - 1]
  <2>1. \E k : Keeping(T, list, S, N, k)
    BY <1>1, OnlySteps, Zenon
  <2> QED
    BY <2>1 DEF Keeping
<1> DEFINE Right(n) == Len(k[n]) = n /\ \A i \in 1..n : k[n][i] = list[i]
           good == {n \in 0..N : Right(n)}
<1>4. 0 \in good
  <2>1. 0 \in 0..N /\ Len(<<>>) = 0 /\ \A i \in 1..0 : k[0][i] = list[i]
    OBVIOUS
  <2> QED
    BY <1>3, <2>1, Zenon
<1>5. \A n \in 1..N : n - 1 \in good => n \in good
  <2> SUFFICES ASSUME NEW n \in 1..N, Right(n - 1)
               PROVE  Right(n)
    <3>1. 1..N \subseteq 0..N
      OBVIOUS
    <3> HIDE DEF Right
    <3> QED
      BY <3>1
  <2>1. PICK w \in Seq(T) : w = k[n - 1]
    <3>1. n - 1 \in 0..N
      OBVIOUS
    <3> QED
      BY <3>1
  <2>2. PICK x \in T : x = list[n]
    BY <1>2
  <2>3. k[n] = Append(w, x)
    BY <1>2, <1>3, <2>1, <2>2
  <2>4. Len(w) = n - 1 /\ \A i \in 1..(n - 1) : w[i] = list[i]
    BY <2>1
  <2>5. /\ Len(Append(w, x)) = (n - 1) + 1 /\ Append(w, x)[(n - 1) + 1] = x
        /\ \A i \in 1..(n - 1) : Append(w, x)[i] = w[i]
    BY <2>4, AppendIs
  <2>6. \A i \in 1..n : i \in 1..(n - 1) \/ i = n
    OBVIOUS
  <2>7. (n - 1) + 1 = n
    OBVIOUS
  <2> QED
    BY <2>2, <2>3, <2>4, <2>5, <2>6, <2>7
<1>6. Right(N)
  <2>1. N \in 0..N
    OBVIOUS
  <2>2. \A n \in 0..N : n \in good
    <3> HIDE DEF good
    <3> QED
      BY <1>4, <1>5, UpTo
  <2> HIDE DEF Right
  <2> QED
    BY <2>1, <2>2
<1>7. PICK w \in Seq(T) : w = k[N]
  BY <1>1
<1>8. Len(w) = Len(list) /\ \A i \in 1..Len(list) : w[i] = list[i]
  BY <1>1, <1>6, <1>7
<1>9. w = list
  BY <1>8, SeqEqual, Zenon
<1> QED
  BY <1>3, <1>7, <1>9

LEMMA OnlyAppend ==
    ASSUME NEW T, NEW list \in Seq(T), NEW x \in T, NEW S
    PROVE  Only(Append(list, x), S) =
            IF x \in S THEN Append(Only(list, S), x) ELSE Only(list, S)
<1>1. PICK N \in Nat : N = Len(list) /\ DOMAIN list = 1..N
  OBVIOUS
<1>2. PICK k \in [0..N -> Seq(T)] :
        /\ k[0] = <<>> /\ Only(list, S) = k[N]
        /\ \A n \in 1..N : k[n] = IF list[n] \in S THEN Append(k[n - 1], list[n]) ELSE k[n - 1]
  <2>1. \E k : Keeping(T, list, S, N, k)
    BY <1>1, OnlySteps, Zenon
  <2> QED
    BY <2>1 DEF Keeping
<1>3. PICK longer \in Seq(T) : longer = Append(list, x)
  BY AppendIs, Zenon
<1>4. PICK M \in Nat : M = N + 1 /\ M = Len(longer)
  BY <1>1, <1>3, AppendIs
<1>5. (\A i \in 1..N : longer[i] = list[i]) /\ longer[M] = x
  BY <1>1, <1>3, <1>4, AppendIs
<1>6. PICK h \in [0..M -> Seq(T)] :
        /\ h[0] = <<>> /\ Only(longer, S) = h[M]
        /\ \A n \in 1..M : h[n] = IF longer[n] \in S THEN Append(h[n - 1], longer[n]) ELSE h[n - 1]
  <2>1. \E h : Keeping(T, longer, S, M, h)
    BY <1>4, OnlySteps, Zenon
  <2> QED
    BY <2>1 DEF Keeping
<1>7. \A n \in 0..N : h[n] = k[n]
  <2> DEFINE good == {n \in 0..N : h[n] = k[n]}
  <2>1. 0 \in good
    BY <1>2, <1>6
  <2>2. \A n \in 1..N : n - 1 \in good => n \in good
    <3> SUFFICES ASSUME NEW n \in 1..N, h[n - 1] = k[n - 1]
                 PROVE  h[n] = k[n]
      OBVIOUS
    <3>1. n \in 1..M
      BY <1>4
    <3> QED
      BY <1>2, <1>5, <1>6, <3>1
  <2>3. \A n \in 0..N : n \in good
    <3> HIDE DEF good
    <3> QED
      BY <2>1, <2>2, UpTo
  <2> QED
    BY <2>3
<1>8. M \in 1..M /\ M - 1 = N /\ N \in 0..N
  BY <1>4
<1>9. h[M] = IF x \in S THEN Append(k[N], x) ELSE k[N]
  BY <1>5, <1>6, <1>7, <1>8
<1> QED
  BY <1>2, <1>3, <1>6, <1>9

-----------------------------------------------------------------------------
(* What abk_enable_lsm writes.                                             *)

LEMMA AcceptableIs ==
    ASSUME NEW list \in Seq(Name)
    PROVE  Acceptable(list) <=>
            /\ Empty \notin Members(list)
            /\ NoDuplicates(list)
            /\ Selinux \in Members(list)
<1>1. \A x : Contains(list, x) <=> x \in Members(list)
  BY DEF Contains, Members
<1>2. list = <<>> => Members(list) = {}
  BY DEF Members
<1> QED
  BY <1>1, <1>2 DEF Acceptable

LEMMA NormalizedIs ==
    ASSUME NEW list \in Seq(Name)
    PROVE  /\ Without(list, Sandbox) \in Seq(Name) /\ Normalized(list) \in Seq(Name)
           /\ Members(Without(list, Sandbox)) = Members(list) \ {Sandbox}
           /\ Members(Normalized(list)) = Members(list) \cup {Sandbox}
           /\ Normalized(list)[Len(Normalized(list))] = Sandbox
           /\ Len(Normalized(list)) > 0
           /\ NoDuplicates(list) => NoDuplicates(Normalized(list))
           /\ Without(Normalized(list), Sandbox) = Without(list, Sandbox)
           /\ Normalized(Normalized(list)) = Normalized(list)
<1>1. Sandbox \in Name
  BY OrderConstants
<1>2. PICK S : S = Name \ {Sandbox}
  OBVIOUS
<1>3. PICK w : w = Without(list, Sandbox)
  OBVIOUS
<1>4. w = Only(list, S)
  BY <1>2, <1>3 DEF Without
<1>5. Members(list) \subseteq Name
  BY DEF Members
<1>6. w \in Seq(Name) /\ Members(w) = Members(list) \cap S
  BY <1>4, OnlyMembers
<1>7. Members(w) = Members(list) \ {Sandbox}
  BY <1>2, <1>5, <1>6
<1>8. PICK v : v = Append(w, Sandbox)
  OBVIOUS
<1>9. v = Normalized(list)
  BY <1>3, <1>8 DEF Normalized
<1>10. /\ v \in Seq(Name) /\ Len(v) = Len(w) + 1 /\ v[Len(w) + 1] = Sandbox
  BY <1>1, <1>6, <1>8, AppendIs
<1>11. Members(v) = Members(w) \cup {Sandbox}
  BY <1>1, <1>6, <1>8, MembersAppend
<1>12. NoDuplicates(list) => NoDuplicates(v)
  <2> SUFFICES ASSUME NoDuplicates(list) PROVE NoDuplicates(v)
    OBVIOUS
  <2>1. NoDuplicates(w)
    BY <1>4, OnlyMembers
  <2>2. Sandbox \notin Members(w)
    BY <1>7
  <2> QED
    BY <1>1, <1>6, <1>8, <2>1, <2>2, NoDuplicatesAppend, Zenon
<1>13. Only(v, S) = w
  <2>1. Sandbox \notin S /\ Members(w) \subseteq S
    BY <1>2, <1>6
  <2>2. Only(w, S) = w
    BY <1>6, <2>1, OnlyAll, Zenon
  <2>3. Only(Append(w, Sandbox), S) = IF Sandbox \in S THEN Append(Only(w, S), Sandbox) ELSE Only(w, S)
    BY <1>1, <1>6, OnlyAppend, Zenon
  <2> QED
    BY <1>8, <2>1, <2>2, <2>3
<1>14. Without(v, Sandbox) = w
  BY <1>2, <1>13 DEF Without
<1>15. Normalized(v) = v
  BY <1>8, <1>14 DEF Normalized
<1>16. Len(v) > 0
  BY <1>6, <1>10
<1>17. Members(v) = Members(list) \cup {Sandbox}
  BY <1>7, <1>11
<1> QED
  BY <1>3, <1>6, <1>7, <1>9, <1>10, <1>12, <1>14, <1>15, <1>16, <1>17

-----------------------------------------------------------------------------
(* The loop of abk_lsm_order_is_safe.                                      *)

Scans(T) == [ok : BOOLEAN, seen : SUBSET T, prevSandbox : BOOLEAN,
             lastSandbox : BOOLEAN, lastKsu : BOOLEAN, sandboxes : Nat, ksus : Nat]

LEMMA ScanTyped ==
    ASSUME NEW T
    PROVE  ScanStart \in Scans(T) /\ \A s \in Scans(T), x \in T : ScanName(s, x) \in Scans(T)
<1>1. ScanStart \in Scans(T)
  BY DEF ScanStart, Scans
<1>2. ASSUME NEW s \in Scans(T), NEW x \in T
      PROVE  ScanName(s, x) \in Scans(T)
  <2>1. s.sandboxes \in Nat /\ s.ksus \in Nat /\ s.seen \in SUBSET T /\ s.lastSandbox \in BOOLEAN
    BY DEF Scans
  <2>2. /\ s.sandboxes + (IF x = Sandbox THEN 1 ELSE 0) \in Nat
        /\ s.ksus + (IF x = Ksu THEN 1 ELSE 0) \in Nat
        /\ s.seen \cup {x} \in SUBSET T
    BY <2>1
  <2> QED
    BY <2>1, <2>2, Zenon DEF ScanName, Scans
<1> QED
  BY <1>1, <1>2

\* s holds what the loop has after every number of names.
Scanning(list, s) ==
    s = [n \in 0..Len(list) |-> IF n = 0 THEN ScanStart ELSE ScanName(s[n - 1], list[n])]

LEMMA ScannedIs ==
    ASSUME NEW list
    PROVE  Scanned(list) = (CHOOSE s : Scanning(list, s))[Len(list)]
BY Zenon DEF Scanned, Scanning

Scan(T, list, N, s) ==
    /\ s \in [0..N -> Scans(T)] /\ s[0] = ScanStart /\ Scanned(list) = s[N]
    /\ \A n \in 1..N : s[n] = ScanName(s[n - 1], list[n])

LEMMA ScanSteps ==
    ASSUME NEW T, NEW list \in Seq(T)
    PROVE  \E s : Scan(T, list, Len(list), s)
<1>1. PICK N \in Nat : N = Len(list)
  OBVIOUS
<1>2. \A n \in 1..N : list[n] \in T
  BY <1>1
<1>3. PICK F : F = [n \in 1..N |-> [w \in Scans(T) |-> ScanName(w, list[n])]]
  OBVIOUS
<1>4. F \in Turns(Scans(T), N)
  <2>1. \A n \in 1..N : \A w \in Scans(T) : ScanName(w, list[n]) \in Scans(T)
    BY <1>2, ScanTyped
  <2> QED
    BY <1>3, <2>1 DEF Turns
<1>5. ScanStart \in Scans(T)
  BY ScanTyped
<1>6. PICK r : Course(Scans(T), ScanStart, N, F, r)
  BY <1>4, <1>5, Iterates, Zenon
<1>7. r \in [0..N -> Scans(T)] /\ r[0] = ScanStart
  BY <1>6 DEF Course
<1>8. \A n \in 1..N : r[n] = ScanName(r[n - 1], list[n])
  <2> SUFFICES ASSUME NEW n \in 1..N
               PROVE  r[n] = ScanName(r[n - 1], list[n])
    OBVIOUS
  <2>1. n - 1 \in 0..N
    OBVIOUS
  <2>2. PICK w \in Scans(T) : w = r[n - 1]
    BY <1>7, <2>1
  <2>3. F[n][w] = ScanName(w, list[n])
    BY <1>3
  <2> QED
    BY <1>6, <2>2, <2>3 DEF Course
<1>9. Scanning(list, r)
  <2>1. r = [n \in 0..N |-> r[n]]
    BY <1>7
  <2>2. \A n \in 0..N : n # 0 => n \in 1..N
    OBVIOUS
  <2>3. \A n \in 0..N : r[n] = IF n = 0 THEN ScanStart ELSE ScanName(r[n - 1], list[n])
    BY <1>7, <1>8, <2>2
  <2> QED
    BY <1>1, <2>1, <2>3, Zenon DEF Scanning
<1>10. PICK s : s = (CHOOSE h : Scanning(list, h))
  OBVIOUS
<1>11. Scanning(list, s) /\ Scanned(list) = s[N]
  BY <1>1, <1>9, <1>10, ScannedIs, Zenon
<1>12. s = [n \in 0..N |-> IF n = 0 THEN ScanStart ELSE ScanName(s[n - 1], list[n])]
  BY <1>1, <1>11, Zenon DEF Scanning
<1>13. s[0] = ScanStart
  <2>1. 0 \in 0..N
    OBVIOUS
  <2> QED
    BY <1>12, <2>1, Zenon
<1>14. \A n \in 1..N : s[n] = ScanName(s[n - 1], list[n])
  <2> SUFFICES ASSUME NEW n \in 1..N
               PROVE  s[n] = ScanName(s[n - 1], list[n])
    OBVIOUS
  <2>1. n \in 0..N /\ n # 0
    OBVIOUS
  <2> QED
    BY <1>12, <2>1, Zenon
<1>15. \A n \in 0..N : s[n] \in Scans(T)
  <2> DEFINE good == {n \in 0..N : s[n] \in Scans(T)}
  <2>1. 0 \in good
    BY <1>5, <1>13
  <2>2. \A n \in 1..N : n - 1 \in good => n \in good
    <3> SUFFICES ASSUME NEW n \in 1..N, s[n - 1] \in Scans(T)
                 PROVE  s[n] \in Scans(T)
      OBVIOUS
    <3> QED
      BY <1>2, <1>14, ScanTyped
  <2>3. \A n \in 0..N : n \in good
    <3> HIDE DEF good
    <3> QED
      BY <2>1, <2>2, UpTo
  <2> QED
    BY <2>3
<1>16. s \in [0..N -> Scans(T)]
  <2>1. s = [n \in 0..N |-> s[n]]
    BY <1>12
  <2> QED
    BY <1>15, <2>1
<1> QED
  BY <1>1, <1>11, <1>13, <1>14, <1>16 DEF Scan

LEMMA ScanFields ==
    ASSUME NEW s, NEW x
    PROVE  LET t == ScanName(s, x) IN
           /\ t.ok <=> s.ok /\ x # Empty /\ x \notin s.seen
           /\ t.seen = s.seen \cup {x}
           /\ t.prevSandbox = s.lastSandbox
           /\ t.lastSandbox <=> x = Sandbox
           /\ t.lastKsu <=> x = Ksu
           /\ t.sandboxes = s.sandboxes + (IF x = Sandbox THEN 1 ELSE 0)
           /\ t.ksus = s.ksus + (IF x = Ksu THEN 1 ELSE 0)
BY Zenon DEF ScanName

LEMMA StartFields ==
    /\ ScanStart.ok /\ ScanStart.seen = {} /\ ScanStart.sandboxes = 0 /\ ScanStart.ksus = 0
    /\ ~ScanStart.prevSandbox /\ ~ScanStart.lastSandbox /\ ~ScanStart.lastKsu
BY Zenon DEF ScanStart

\* The names up to the n-th.
Clean(list, n) ==
    /\ \A i \in 1..n : list[i] # Empty
    /\ \A i, j \in 1..n : list[i] = list[j] => i = j

Before(list, n) == {list[i] : i \in 1..n}

LEMMA CleanSteps ==
    ASSUME NEW list, NEW n \in Nat \ {0}
    PROVE  /\ Before(list, n) = Before(list, n - 1) \cup {list[n]}
           /\ Clean(list, n) <=> /\ Clean(list, n - 1)
                                 /\ list[n] # Empty /\ list[n] \notin Before(list, n - 1)
<1>1. \A i \in 1..n : i \in 1..(n - 1) \/ i = n
  OBVIOUS
<1>2. 1..(n - 1) \subseteq 1..n /\ n \in 1..n /\ n \notin 1..(n - 1)
  OBVIOUS
<1>3. Before(list, n) = Before(list, n - 1) \cup {list[n]}
  BY <1>1, <1>2 DEF Before
<1>4. ASSUME Clean(list, n)
      PROVE  Clean(list, n - 1) /\ list[n] # Empty /\ list[n] \notin Before(list, n - 1)
  BY <1>2, <1>4 DEF Clean, Before
<1>5. ASSUME Clean(list, n - 1), list[n] # Empty, list[n] \notin Before(list, n - 1)
      PROVE  Clean(list, n)
  <2>1. \A i \in 1..(n - 1) : list[i] # list[n]
    BY <1>5 DEF Before
  <2> QED
    BY <1>1, <1>5, <2>1 DEF Clean
<1> QED
  BY <1>3, <1>4, <1>5

\* What scan e says of the names up to the n-th.
Tells(list, n, e) ==
    /\ e.seen = Before(list, n)
    /\ e.ok <=> Clean(list, n)
    /\ e.ok => /\ e.sandboxes = IF Sandbox \in Before(list, n) THEN 1 ELSE 0
               /\ e.ksus = IF Ksu \in Before(list, n) THEN 1 ELSE 0

LEMMA ScanMeans ==
    ASSUME NEW T, NEW list \in Seq(T), NEW N \in Nat, NEW s, Scan(T, list, N, s)
    PROVE  \A n \in 0..N : Tells(list, n, s[n])
<1> DEFINE Right(n) == Tells(list, n, s[n])
           good == {n \in 0..N : Right(n)}
<1> USE DEF Tells
<1>1. s[0] = ScanStart /\ \A n \in 1..N : s[n] = ScanName(s[n - 1], list[n])
  BY DEF Scan
<1>2. 0 \in good
  <2>1. 0 \in 0..N /\ 1..0 = {}
    OBVIOUS
  <2>2. Before(list, 0) = {} /\ Clean(list, 0)
    BY <2>1 DEF Before, Clean
  <2>3. Right(0)
    BY <1>1, <2>2, StartFields, Zenon
  <2> HIDE DEF Right
  <2> QED
    BY <2>1, <2>3
<1>3. \A n \in 1..N : n - 1 \in good => n \in good
  <2> SUFFICES ASSUME NEW n \in 1..N, Right(n - 1)
               PROVE  Right(n)
    <3>1. 1..N \subseteq 0..N
      OBVIOUS
    <3> HIDE DEF Right
    <3> QED
      BY <3>1
  <2>1. PICK p : p = s[n - 1]
    OBVIOUS
  <2>2. PICK x : x = list[n]
    OBVIOUS
  <2>3. PICK t : t = s[n]
    OBVIOUS
  <2>4. t = ScanName(p, x)
    BY <1>1, <2>1, <2>2, <2>3
  <2>5. /\ t.ok <=> p.ok /\ x # Empty /\ x \notin p.seen
        /\ t.seen = p.seen \cup {x}
        /\ t.sandboxes = p.sandboxes + (IF x = Sandbox THEN 1 ELSE 0)
        /\ t.ksus = p.ksus + (IF x = Ksu THEN 1 ELSE 0)
    BY <2>4, ScanFields, Zenon
  <2>6. PICK B : B = Before(list, n - 1)
    OBVIOUS
  <2>7. /\ p.seen = B /\ (p.ok <=> Clean(list, n - 1))
        /\ p.ok => /\ p.sandboxes = IF Sandbox \in B THEN 1 ELSE 0
                   /\ p.ksus = IF Ksu \in B THEN 1 ELSE 0
    BY <2>1, <2>6, Zenon
  <2>8. n \in Nat \ {0}
    OBVIOUS
  <2>9. /\ Before(list, n) = B \cup {x}
        /\ Clean(list, n) <=> Clean(list, n - 1) /\ x # Empty /\ x \notin B
    BY <2>2, <2>6, <2>8, CleanSteps, Zenon
  <2>10. t.seen = Before(list, n)
    BY <2>5, <2>7, <2>9
  <2>11. t.ok <=> Clean(list, n)
    BY <2>5, <2>7, <2>9, Zenon
  <2>12. ASSUME t.ok
         PROVE  /\ t.sandboxes = IF Sandbox \in Before(list, n) THEN 1 ELSE 0
                /\ t.ksus = IF Ksu \in Before(list, n) THEN 1 ELSE 0
    <3>1. p.ok /\ x \notin B
      BY <2>5, <2>7, <2>12, Zenon
    <3>2. /\ p.sandboxes = IF Sandbox \in B THEN 1 ELSE 0
          /\ p.ksus = IF Ksu \in B THEN 1 ELSE 0
      BY <2>7, <3>1, Zenon
    <3> QED
      BY <2>5, <2>9, <3>1, <3>2
  <2> QED
    BY <2>3, <2>10, <2>11, <2>12, Zenon
<1>4. \A n \in 0..N : n \in good
  <2> HIDE DEF good
  <2> QED
    BY <1>2, <1>3, UpTo
<1> QED
  BY <1>4, Zenon

\* The list abk_lsm_order_is_safe accepts: every name once, and after the
\* sandbox nothing but KernelSU, where that is allowed.
LEMMA SafeIs ==
    ASSUME NEW T, NEW list \in Seq(T), NEW t \in BOOLEAN, Empty \notin Members(list)
    PROVE  OrderIsSafe(list, t) <=>
            /\ NoDuplicates(list)
            /\ \E i \in DOMAIN list :
                /\ list[i] = Sandbox
                /\ SubSeq(list, i + 1, Len(list)) \in {<<>>} \cup (IF t THEN {<<Ksu>>} ELSE {})
<1>1. PICK N \in Nat : N = Len(list) /\ DOMAIN list = 1..N
  OBVIOUS
<1>2. PICK s : Scan(T, list, N, s)
  BY <1>1, ScanSteps, Zenon
<1>3. PICK e : e = s[N]
  OBVIOUS
<1>4. e = Scanned(list)
  BY <1>2, <1>3 DEF Scan
<1>5. Members(list) = Before(list, N)
  BY <1>1 DEF Members, Before
<1>6. Clean(list, N) <=> NoDuplicates(list)
  BY <1>1 DEF Clean, NoDuplicates, Members
<1>7. /\ e.ok <=> NoDuplicates(list)
      /\ e.ok => /\ e.sandboxes = IF Sandbox \in Members(list) THEN 1 ELSE 0
                 /\ e.ksus = IF Ksu \in Members(list) THEN 1 ELSE 0
  <2>1. N \in 0..N
    OBVIOUS
  <2>2. \A n \in 0..N : Tells(list, n, s[n])
    BY <1>2, ScanMeans, Zenon
  <2>3. Tells(list, N, e)
    BY <1>3, <2>1, <2>2
  <2> QED
    BY <1>5, <1>6, <2>3, Zenon DEF Tells
<1>8. s[0] = ScanStart /\ \A n \in 1..N : s[n] = ScanName(s[n - 1], list[n])
  BY <1>2 DEF Scan
<1>9. \A n \in 1..N : /\ s[n].lastSandbox <=> list[n] = Sandbox
                      /\ s[n].lastKsu <=> list[n] = Ksu
                      /\ s[n].prevSandbox = s[n - 1].lastSandbox
  <2> SUFFICES ASSUME NEW n \in 1..N
               PROVE  /\ s[n].lastSandbox <=> list[n] = Sandbox
                      /\ s[n].lastKsu <=> list[n] = Ksu
                      /\ s[n].prevSandbox = s[n - 1].lastSandbox
    OBVIOUS
  <2>1. s[n] = ScanName(s[n - 1], list[n])
    BY <1>8
  <2>2. /\ ScanName(s[n - 1], list[n]).lastSandbox <=> list[n] = Sandbox
        /\ ScanName(s[n - 1], list[n]).lastKsu <=> list[n] = Ksu
        /\ ScanName(s[n - 1], list[n]).prevSandbox = s[n - 1].lastSandbox
    BY ScanFields, Zenon
  <2> QED
    BY <2>1, <2>2, Zenon
<1>10. ~s[0].lastSandbox
  BY <1>8, StartFields, Zenon
<1>11. OrderIsSafe(list, t) <=>
        /\ list # <<>> /\ e.ok /\ e.sandboxes = 1 /\ e.ksus <= 1
        /\ e.lastSandbox \/ (t /\ e.lastKsu /\ e.prevSandbox /\ e.ksus = 1)
  BY <1>4, Zenon DEF OrderIsSafe
<1>12. list # <<>> <=> N > 0
  BY <1>1, EmptySeq
<1> DEFINE Ends(i) == SubSeq(list, i + 1, N) \in {<<>>} \cup (IF t THEN {<<Ksu>>} ELSE {})
<1>13. ASSUME NEW i \in 1..N
       PROVE  Ends(i) <=> i = N \/ (t /\ i = N - 1 /\ list[N] = Ksu)
  <2>1. PICK w : w = SubSeq(list, i + 1, N)
    OBVIOUS
  <2>2. w \in Seq(T) /\ Len(w) = N - i /\ \A j \in 1..(N - i) : w[j] = list[i + j]
    BY <1>1, <2>1
  <2>3. w = <<>> <=> i = N
    <3>1. w = <<>> <=> Len(w) = 0
      BY <2>2, EmptySeq
    <3> QED
      BY <2>2, <3>1
  <2>4. w = <<Ksu>> <=> i = N - 1 /\ list[N] = Ksu
    <3>1. Len(<<Ksu>>) = 1 /\ <<Ksu>>[1] = Ksu
      OBVIOUS
    <3>2. ASSUME w = <<Ksu>>
          PROVE  i = N - 1 /\ list[N] = Ksu
      <4>1. i = N - 1
        BY <2>2, <3>1, <3>2
      <4>2. w[1] = list[i + 1] /\ i + 1 = N
        BY <2>2, <4>1
      <4> QED
        BY <3>1, <3>2, <4>1, <4>2
    <3>3. ASSUME i = N - 1, list[N] = Ksu
          PROVE  w = <<Ksu>>
      <4>1. Len(w) = 1 /\ w[1] = Ksu
        BY <2>2, <3>3
      <4>2. Ksu \in T
        BY <1>1, <3>3
      <4>3. PICK one : one = <<Ksu>>
        OBVIOUS
      <4>4. one \in Seq(T) /\ Len(one) = 1 /\ one[1] = Ksu
        BY <4>2, <4>3
      <4>5. Len(w) = Len(one) /\ \A j \in 1..Len(w) : w[j] = one[j]
        BY <4>1, <4>4
      <4>6. w = one
        BY <2>2, <4>4, <4>5, SeqEqual, Zenon
      <4> QED
        BY <4>3, <4>6
    <3> QED
      BY <3>2, <3>3
  <2> QED
    BY <2>1, <2>3, <2>4
<1> HIDE DEF Ends
<1>14. ASSUME OrderIsSafe(list, t)
       PROVE  NoDuplicates(list) /\ \E i \in 1..N : list[i] = Sandbox /\ Ends(i)
  <2>1. e.ok /\ N > 0
    BY <1>11, <1>12, <1>14
  <2>2. NoDuplicates(list)
    BY <1>7, <2>1
  <2>3. CASE e.lastSandbox
    <3>1. N \in 1..N
      BY <2>1
    <3>2. list[N] = Sandbox /\ Ends(N)
      BY <1>3, <1>9, <1>13, <2>3, <3>1
    <3> QED
      BY <2>2, <3>1, <3>2
  <2>4. CASE t /\ e.lastKsu /\ e.prevSandbox
    <3>1. N \in 1..N
      BY <2>1
    <3>2. list[N] = Ksu /\ s[N - 1].lastSandbox
      BY <1>3, <1>9, <2>4, <3>1, Zenon
    <3>3. N - 1 \in 1..N
      <4>1. N - 1 # 0
        BY <1>10, <3>2
      <4> QED
        BY <3>1, <4>1
    <3>4. list[N - 1] = Sandbox /\ Ends(N - 1)
      BY <1>9, <1>13, <2>4, <3>2, <3>3
    <3> QED
      BY <2>2, <3>3, <3>4
  <2> QED
    BY <1>11, <1>14, <2>3, <2>4
<1>15. ASSUME NoDuplicates(list), NEW i \in 1..N, list[i] = Sandbox, Ends(i)
       PROVE  OrderIsSafe(list, t)
  <2>1. e.ok /\ N > 0 /\ N \in 1..N
    BY <1>7, <1>15
  <2>2. Sandbox \in Members(list)
    BY <1>1, <1>15 DEF Members
  <2>3. e.sandboxes = 1 /\ e.ksus <= 1
    BY <1>7, <2>1, <2>2
  <2>4. CASE i = N
    <3>1. e.lastSandbox
      BY <1>3, <1>9, <1>15, <2>1, <2>4
    <3> QED
      BY <1>11, <1>12, <2>1, <2>3, <3>1
  <2>5. CASE t /\ i = N - 1 /\ list[N] = Ksu
    <3>1. e.lastKsu /\ e.prevSandbox
      <4>1. s[N].lastKsu /\ s[N].prevSandbox = s[N - 1].lastSandbox
        BY <1>9, <2>1, <2>5, Zenon
      <4>2. s[N - 1].lastSandbox
        BY <1>9, <1>15, <2>5
      <4> QED
        BY <1>3, <4>1, <4>2, Zenon
    <3>2. e.ksus = 1
      <4>1. Ksu \in Members(list)
        BY <1>1, <2>1, <2>5 DEF Members
      <4> QED
        BY <1>7, <2>1, <4>1
    <3> QED
      BY <1>11, <1>12, <2>1, <2>3, <2>5, <3>1, <3>2
  <2> QED
    BY <1>13, <1>15, <2>4, <2>5
<1>16. OrderIsSafe(list, t) <=>
        NoDuplicates(list) /\ \E i \in 1..N : list[i] = Sandbox /\ Ends(i)
  BY <1>14, <1>15
<1> USE DEF Ends
<1> QED
  BY <1>1, <1>16, Zenon

-----------------------------------------------------------------------------
(* From the defconfig to the running kernel.                               *)

\* The three stages of a list: enabled, validated, and the names the kernel
\* has.  The original is kept: the list that is written is a function of it.
Chain ==
    /\ tailOk \in BOOLEAN /\ conf \in Seq(Name) /\ original \in Seq(Name)
    /\ stage = "enabled" =>
        lines = 1 /\ Acceptable(original) /\ conf = Normalized(original)
    /\ stage = "validated" =>
        Empty \notin Members(conf) /\ Selinux \in Members(conf)
    /\ stage \in {"booted", "running"} =>
        /\ names \in Seq(Name \cup {Capability})
        /\ Empty \notin Members(names) /\ Selinux \in Members(names)
    /\ stage = "running" => ready = (Contains(names, Selinux) /\ OrderIsSafe(names, tailOk))

LEMMA WrittenValidates ==
    ASSUME NEW list \in Seq(Name), Acceptable(list)
    PROVE  Acceptable(Normalized(list)) /\ Validates(Normalized(list))
<1>1. PICK v : v = Normalized(list)
  OBVIOUS
<1>2. /\ v \in Seq(Name) /\ Members(v) = Members(list) \cup {Sandbox}
      /\ v[Len(v)] = Sandbox /\ Len(v) > 0 /\ NoDuplicates(v)
  BY <1>1, NormalizedIs DEF Acceptable
<1>3. Empty \notin Members(list) /\ Selinux \in Members(list)
  BY AcceptableIs
<1>4. Empty \notin Members(v) /\ Selinux \in Members(v)
  BY <1>2, <1>3, OrderConstants
<1>5. Acceptable(v)
  BY <1>2, <1>4, AcceptableIs
<1>6. Count(v, Sandbox) = 1
  <2>1. PICK N \in Nat : N = Len(v) /\ DOMAIN v = 1..N /\ N \in 1..N
    BY <1>2
  <2>2. \A i \in 1..N : v[i] = Sandbox => i = N
    BY <1>2, <2>1 DEF NoDuplicates
  <2>3. {i \in DOMAIN v : v[i] = Sandbox} = {N}
    BY <1>2, <2>1, <2>2
  <2> QED
    BY <2>3, FS_Singleton DEF Count
<1> QED
  BY <1>1, <1>2, <1>5, <1>6 DEF Acceptable, Validates

LEMMA BootedNames ==
    ASSUME NEW list \in Seq(Name), NEW built, NEW tail \in Tails, Selinux \in built,
           Empty \notin Members(list), Selinux \in Members(list)
    PROVE  LET booted == <<Capability>> \o Only(list, built) \o tail
           IN  /\ booted \in Seq(Name \cup {Capability})
               /\ Empty \notin Members(booted) /\ Selinux \in Members(booted)
<1>1. PICK C : C = Name \cup {Capability}
  OBVIOUS
<1>2. PICK w : w = Only(list, built)
  OBVIOUS
<1>3. w \in Seq(Name) /\ Members(w) = Members(list) \cap built
  BY <1>2, OnlyMembers
<1>4. PICK booted : booted = <<Capability>> \o w \o tail
  OBVIOUS
<1>5. tail \in Seq(Name \ {Empty})
  BY OrderConstants
<1>6. PICK A \in Nat : A = Len(w) /\ DOMAIN w = 1..A
  BY <1>3
<1>7. PICK B \in Nat : B = Len(tail) /\ \A i \in 1..B : tail[i] \in Name \ {Empty}
  BY <1>5
<1>8. \A i \in 1..A : w[i] \in Name /\ w[i] \in Members(w)
  BY <1>3, <1>6 DEF Members
<1>9. PICK front : front = <<Capability>> \o w
  OBVIOUS
<1>10. <<Capability>> \in Seq(C) /\ w \in Seq(C) /\ tail \in Seq(C)
  <2>1. Capability \in C /\ Name \subseteq C
    BY <1>1
  <2>2. w \in Seq(C)
    BY <1>3, <2>1
  <2>3. tail \in Seq(C)
    BY <1>5, <2>1
  <2> QED
    BY <2>1, <2>2, <2>3
<1>11. /\ front \in Seq(C) /\ Len(front) = A + 1 /\ front[1] = Capability
       /\ \A i \in 1..A : front[i + 1] = w[i]
  BY <1>6, <1>9, <1>10
<1>12. /\ booted \in Seq(C) /\ Len(booted) = A + 1 + B
       /\ \A i \in 1..(A + 1) : booted[i] = front[i]
       /\ \A i \in 1..B : booted[A + 1 + i] = tail[i]
  <2>1. booted = front \o tail
    BY <1>4, <1>9
  <2>2. /\ front \o tail \in Seq(C) /\ Len(front \o tail) = Len(front) + Len(tail)
        /\ \A i \in 1..Len(front) : (front \o tail)[i] = front[i]
        /\ \A i \in 1..Len(tail) : (front \o tail)[Len(front) + i] = tail[i]
    <3>1. front \in Seq(C) /\ tail \in Seq(C)
      BY <1>10, <1>11
    <3> QED
      BY <3>1
  <2>3. Len(front) = A + 1 /\ Len(tail) = B
    BY <1>7, <1>11
  <2> QED
    BY <2>1, <2>2, <2>3
<1>13. ASSUME NEW i \in 1..(A + 1 + B)
       PROVE  booted[i] # Empty
  <2>1. CASE i = 1
    BY <1>11, <1>12, <2>1, OrderConstants
  <2>2. CASE i \in 2..(A + 1)
    <3>1. PICK j \in 1..A : i = j + 1
      <4>1. i - 1 \in 1..A /\ i = (i - 1) + 1
        BY <2>2
      <4> QED
        BY <4>1
    <3>2. booted[i] = w[j]
      BY <1>11, <1>12, <2>2, <3>1
    <3> QED
      BY <1>3, <1>8, <3>1, <3>2
  <2>3. CASE i \in (A + 2)..(A + 1 + B)
    <3>1. PICK j \in 1..B : i = A + 1 + j
      <4>1. i - A - 1 \in 1..B /\ i = A + 1 + (i - A - 1)
        BY <2>3
      <4> QED
        BY <4>1
    <3> QED
      BY <1>7, <1>12, <3>1
  <2> QED
    BY <2>1, <2>2, <2>3
<1>14. Empty \notin Members(booted)
  BY <1>12, <1>13 DEF Members
<1>15. PICK j \in 1..A : w[j] = Selinux
  BY <1>3, <1>6 DEF Members
<1>16. booted[j + 1] = Selinux /\ j + 1 \in 1..(A + 1 + B)
  BY <1>11, <1>12, <1>15
<1>17. Selinux \in Members(booted)
  BY <1>12, <1>16 DEF Members
<1> QED
  BY <1>1, <1>2, <1>4, <1>12, <1>14, <1>17

LEMMA ChainInit == Init => Chain
<1> SUFFICES ASSUME Init PROVE Chain
  OBVIOUS
<1>1. conf \in Seq(Name)
  <2>1. PICK n \in 0..MaxLen : conf \in [1..n -> Name]
    BY OrderConstants DEF Init, BoundedSeq, SeqOf
  <2> QED
    BY <2>1, OrderConstants
<1> QED
  BY <1>1 DEF Init, Chain

LEMMA ChainNext == Chain /\ [Next]_vars => Chain'
<1> SUFFICES ASSUME Chain, [Next]_vars PROVE Chain'
  OBVIOUS
<1>1. CASE EnableLsm
  <2>1. PICK value \in Seq(Name) :
            /\ value = IF lines = 0 THEN KconfigDefault ELSE conf
            /\ Acceptable(value) /\ conf' = Normalized(value)
            /\ original' = IF stage = "defconfig" THEN value ELSE original
    BY <1>1, OrderConstants DEF EnableLsm, Chain
  <2>2. conf' \in Seq(Name) /\ lines' = 1 /\ stage' = "enabled" /\ tailOk' = tailOk
    BY <1>1, <2>1, NormalizedIs DEF EnableLsm
  <2>3. Acceptable(original') /\ original' \in Seq(Name) /\ conf' = Normalized(original')
    <3>1. CASE stage = "defconfig"
      BY <2>1, <3>1
    <3>2. CASE stage = "enabled"
      <4>1. value = Normalized(original) /\ original' = original
        BY <2>1, <3>2 DEF Chain
      <4> QED
        BY <2>1, <3>2, <4>1, NormalizedIs DEF Chain
    <3> QED
      BY <1>1, <3>1, <3>2 DEF EnableLsm
  <2> QED
    BY <2>2, <2>3 DEF Chain
<1>2. CASE EnableDies
  BY <1>2 DEF EnableDies, Chain
<1>3. CASE ValidateDefconfig
  <2>1. stage' = "validated" => Empty \notin Members(conf) /\ Selinux \in Members(conf)
    BY <1>3 DEF ValidateDefconfig, Validates, Chain, Contains, Members
  <2> QED
    BY <1>3, <2>1 DEF ValidateDefconfig, Chain
<1>4. CASE Boot
  <2>1. PICK built \in SUBSET Name, tail \in Tails :
            /\ {Sandbox, Selinux} \subseteq built
            /\ names' = <<Capability>> \o Only(conf, built) \o tail
    BY <1>4 DEF Boot
  <2>2. conf \in Seq(Name) /\ Empty \notin Members(conf) /\ Selinux \in Members(conf)
    BY <1>4 DEF Boot, Chain
  <2>3. /\ names' \in Seq(Name \cup {Capability})
        /\ Empty \notin Members(names') /\ Selinux \in Members(names')
    BY <2>1, <2>2, BootedNames
  <2> QED
    BY <1>4, <2>3 DEF Boot, Chain, Members
<1>5. CASE Finalize
  BY <1>5 DEF Finalize, Chain
<1>6. CASE UNCHANGED vars
  BY <1>6 DEF vars, Chain
<1> QED
  BY <1>1, <1>2, <1>3, <1>4, <1>5, <1>6 DEF Next

\* The relation between the list that was found, the one that was written, the
\* one that was validated and the names of the kernel, in every state.
THEOREM ChainHolds == Spec => []Chain
BY ChainInit, ChainNext, PTL DEF Spec

LEMMA EnabledFollows == Chain => EnabledValidates
<1> SUFFICES ASSUME Chain, stage = "enabled"
             PROVE  /\ lines = 1 /\ Validates(conf)
                    /\ Without(conf, Sandbox) = Without(original, Sandbox)
  BY DEF EnabledValidates
<1>1. original \in Seq(Name) /\ Acceptable(original) /\ conf = Normalized(original) /\ lines = 1
  BY DEF Chain
<1> QED
  BY <1>1, WrittenValidates, NormalizedIs

LEMMA ReadyFollows == Chain => ReadyMeansLast
<1> SUFFICES ASSUME Chain, stage = "running"
             PROVE  ready <=>
                /\ NoDuplicates(names)
                /\ \E i \in DOMAIN names :
                    /\ names[i] = Sandbox
                    /\ SubSeq(names, i + 1, Len(names)) \in
                            {<<>>} \cup (IF tailOk THEN {<<Ksu>>} ELSE {})
  BY DEF ReadyMeansLast
<1>1. /\ names \in Seq(Name \cup {Capability}) /\ tailOk \in BOOLEAN
      /\ Empty \notin Members(names) /\ Selinux \in Members(names)
      /\ ready = (Contains(names, Selinux) /\ OrderIsSafe(names, tailOk))
  BY DEF Chain
<1>2. Contains(names, Selinux)
  BY <1>1 DEF Contains, Members
<1>3. ready <=> OrderIsSafe(names, tailOk)
  BY <1>1, <1>2, Zenon
<1> QED
  BY <1>1, <1>3, SafeIs, Zenon

\* EnabledValidates: whatever list of whatever length the defconfig holds, what
\* abk_enable_lsm writes passes validate_defconfig, and the other LSMs keep
\* their order.
THEOREM EnabledAccepted == Spec => []EnabledValidates
BY ChainHolds, EnabledFollows, PTL

\* ReadyMeansLast: abk_lsm_finalize enables entry exactly when each name is
\* there once and nothing but an allowed KernelSU follows the sandbox.
THEOREM ReadyExact == Spec => []ReadyMeansLast
BY ChainHolds, ReadyFollows, PTL

\* EnableIdempotent: abk_enable_lsm run on its own output leaves it as it is.
THEOREM EnableAgain == Spec => EnableIdempotent
<1>1. ASSUME Chain, [Next]_vars
      PROVE  [stage = "enabled" /\ stage' = "enabled" => conf' = conf]_vars
  <2> SUFFICES ASSUME stage = "enabled", stage' = "enabled"
               PROVE  conf' = conf
    OBVIOUS
  <2>1. CASE EnableLsm
    <3>1. conf' = Normalized(conf) /\ conf = Normalized(original) /\ original \in Seq(Name)
      BY <1>1, <2>1 DEF EnableLsm, Chain
    <3> QED
      BY <3>1, NormalizedIs
  <2>2. CASE ~EnableLsm
    BY <1>1, <2>2 DEF Next, EnableDies, ValidateDefconfig, Boot, Finalize, vars
  <2> QED
    BY <2>1, <2>2
<1> QED
  BY <1>1, ChainHolds, PTL DEF Spec, EnableIdempotent

=============================================================================
