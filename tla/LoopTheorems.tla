---------------------------- MODULE LoopTheorems ----------------------------
(***************************************************************************)
(* Loops over the N items of a list, as recursive functions of the number  *)
(* of items seen: that such a function exists, and induction on the        *)
(* number.  The induction is stated of a set, the numbers for which what   *)
(* is to be shown is true.                                                 *)
(***************************************************************************)
EXTENDS Integers, WellFoundedInduction, TLAPS

LEMMA UpTo ==
    ASSUME NEW N \in Nat, NEW good, 0 \in good,
           \A n \in 1..N : n - 1 \in good => n \in good
    PROVE  \A n \in 0..N : n \in good
<1> DEFINE bad == {n \in 0..N : n \notin good}
<1> SUFFICES ASSUME bad # {} PROVE FALSE
  OBVIOUS
<1>1. bad \subseteq Nat
  OBVIOUS
<1>2. PICK n \in bad : \A m \in bad : ~(<<m, n>> \in OpToRel(<, Nat))
  <2> HIDE DEF bad
  <2> QED
    BY <1>1, WFMin, NatLessThanWellFounded, Zenon
<1>3. \A m \in bad : ~(m < n)
  BY <1>1, <1>2 DEF OpToRel
<1>4. n \in 1..N
  OBVIOUS
<1>5. n - 1 \in 0..N /\ n - 1 < n
  BY <1>4
<1>6. n - 1 \in good
  BY <1>3, <1>5
<1> QED
  BY <1>4, <1>6

\* F[n] is what the loop over N items does with the n-th one, s the values
\* it goes through.
Turns(X, N) == [1..N -> [X -> X]]

Course(X, b, N, F, s) ==
    /\ s \in [0..N -> X]
    /\ s[0] = b /\ \A n \in 1..N : s[n] = F[n][s[n - 1]]

LEMMA Iterates ==
    ASSUME NEW X, NEW b \in X, NEW N \in Nat, NEW F \in Turns(X, N)
    PROVE  \E s : Course(X, b, N, F, s)
<1> USE DEF Turns
<1> DEFINE Upto(m) == \E s \in [0..m -> X] : s[0] = b /\ \A n \in 1..m : s[n] = F[n][s[n - 1]]
           good == {m \in 0..N : Upto(m)}
<1>1. 0 \in good
  <2>1. PICK r : r = [i \in 0..0 |-> b]
    OBVIOUS
  <2>2. r \in [0..0 -> X] /\ r[0] = b
    BY <2>1
  <2>3. \A n \in 1..0 : r[n] = F[n][r[n - 1]]
    OBVIOUS
  <2>4. Upto(0)
    BY <2>2, <2>3
  <2> QED
    BY <2>4
<1>2. \A m \in 1..N : m - 1 \in good => m \in good
  <2> SUFFICES ASSUME NEW m \in 1..N, m - 1 \in good
               PROVE  Upto(m)
    <3>1. 1..N \subseteq 0..N
      OBVIOUS
    <3> HIDE DEF Upto
    <3> QED
      BY <3>1
  <2>1. PICK s \in [0..m - 1 -> X] : s[0] = b /\ \A n \in 1..m - 1 : s[n] = F[n][s[n - 1]]
    OBVIOUS
  <2>2. s[m - 1] \in X /\ F[m][s[m - 1]] \in X
    OBVIOUS
  <2>3. PICK r : r = [i \in 0..m |-> IF i = m THEN F[m][s[m - 1]] ELSE s[i]]
    OBVIOUS
  <2>4. r \in [0..m -> X]
    BY <2>2, <2>3
  <2>5. r[0] = b
    BY <2>1, <2>3
  <2>6. ASSUME NEW n \in 1..m
        PROVE  r[n] = F[n][r[n - 1]]
    <3>1. r[n - 1] = s[n - 1]
      BY <2>3
    <3>2. CASE n = m
      BY <2>3, <3>1, <3>2
    <3>3. CASE n # m
      <4>1. n \in 1..m - 1
        BY <3>3
      <4>2. r[n] = s[n]
        BY <2>3, <3>3
      <4> QED
        BY <2>1, <3>1, <4>1, <4>2
    <3> QED
      BY <3>2, <3>3
  <2> QED
    BY <2>4, <2>5, <2>6
<1>3. N \in good
  <2>1. N \in 0..N
    OBVIOUS
  <2> HIDE DEF good
  <2>2. \A n \in 0..N : n \in good
    BY <1>1, <1>2, UpTo
  <2> QED
    BY <2>1, <2>2
<1> QED
  BY <1>3 DEF Course

=============================================================================
