--------------------------- MODULE CSource_proofs ---------------------------
(***************************************************************************)
(* The scanners of the installer for texts of any length.                  *)
(*                                                                         *)
(* mask_c_definitely_inactive keeps a stack; the reference counts #if and  *)
(* #endif lines.  Both are tied together by the list of the conditionals   *)
(* that are open (Opening): the k-th entry of the stack tells of the k-th  *)
(* of them whether the code around it can be kept and whether one of its   *)
(* branches so far certainly is.                                           *)
(*                                                                         *)
(* extract_resukisu_modern_lsm_branch follows one conditional (Follows).   *)
(* preprocessor_integer_truth is a recursion over shorter expressions: the *)
(* function exists because each length rests on the one before.            *)
(* c_scope_bounds keeps a stack of braces whose depth is their distance    *)
(* from its top (Stacked); of two blocks that overlap one lies in the      *)
(* other, so the one that opens first is the function.                     *)
(***************************************************************************)
EXTENDS CSource, LoopTheorems, FiniteSetTheorems, SequenceTheorems, TLAPS

-----------------------------------------------------------------------------
(* Counting conditionals.                                                  *)

LEMMA LineIs ==
    \A l \in Line : l.d \in {"code", "if", "elif", "else", "endif"}
BY DEF Line

\* What line l adds to the number of open conditionals.
Adds(l) == IF l.d = "if" THEN 1 ELSE IF l.d = "endif" THEN -1 ELSE 0

LEMMA CountSteps ==
    ASSUME NEW a \in Nat \ {0}, NEW n \in Nat, n >= a, NEW P
    PROVE  /\ Cardinality({i \in a..n : i \in P}) \in Nat
           /\ Cardinality({i \in a..n : i \in P}) =
                Cardinality({i \in a..(n - 1) : i \in P}) + (IF n \in P THEN 1 ELSE 0)
<1>1. PICK S : S = {i \in a..(n - 1) : i \in P}
  OBVIOUS
<1>2. PICK R : R = {i \in a..n : i \in P}
  OBVIOUS
<1>3. IsFiniteSet(S) /\ n \notin S
  <2>1. IsFiniteSet(a..(n - 1))
    BY FS_Interval
  <2>2. S \subseteq a..(n - 1)
    BY <1>1
  <2> QED
    BY <1>1, <2>1, <2>2, FS_Subset
<1>4. R = IF n \in P THEN S \cup {n} ELSE S
  BY <1>1, <1>2
<1>5. Cardinality(S) \in Nat /\ Cardinality(S \cup {n}) = Cardinality(S) + 1
  BY <1>3, FS_AddElement, FS_CardinalityType
<1>6. Cardinality(R) \in Nat /\ Cardinality(R) = Cardinality(S) + (IF n \in P THEN 1 ELSE 0)
  <2>1. CASE n \in P
    <3>1. R = S \cup {n}
      BY <1>4, <2>1
    <3> QED
      BY <1>5, <2>1, <3>1
  <2>2. CASE n \notin P
    <3>1. R = S
      BY <1>4, <2>2
    <3> QED
      BY <1>5, <2>2, <3>1
  <2> QED
    BY <2>1, <2>2
<1> QED
  BY <1>1, <1>2, <1>6, Zenon

LEMMA DepthSteps ==
    ASSUME NEW t, NEW a \in Nat \ {0}, NEW n \in Nat, n >= a
    PROVE  /\ Depth(t, a, n) \in Int /\ Depth(t, a, n - 1) \in Int
           /\ Depth(t, a, n) = Depth(t, a, n - 1) + Adds(t[n])
<1>1. PICK P : P = {i \in a..n : t[i].d = "if"}
  OBVIOUS
<1>2. PICK Q : Q = {i \in a..n : t[i].d = "endif"}
  OBVIOUS
<1>3. a..(n - 1) \subseteq a..n /\ n \in a..n
  OBVIOUS
<1>4. /\ Ifs(t, a, n) = {i \in a..n : i \in P} /\ Ifs(t, a, n - 1) = {i \in a..(n - 1) : i \in P}
      /\ Endifs(t, a, n) = {i \in a..n : i \in Q} /\ Endifs(t, a, n - 1) = {i \in a..(n - 1) : i \in Q}
  BY <1>1, <1>2, <1>3 DEF Ifs, Endifs, Opens
<1>5. /\ Cardinality(Ifs(t, a, n)) \in Nat
      /\ Cardinality(Ifs(t, a, n)) = Cardinality(Ifs(t, a, n - 1)) + (IF n \in P THEN 1 ELSE 0)
  BY <1>4, CountSteps
<1>6. /\ Cardinality(Endifs(t, a, n)) \in Nat
      /\ Cardinality(Endifs(t, a, n)) = Cardinality(Endifs(t, a, n - 1)) + (IF n \in Q THEN 1 ELSE 0)
  BY <1>4, CountSteps
<1>7. Cardinality(Ifs(t, a, n - 1)) \in Nat /\ Cardinality(Endifs(t, a, n - 1)) \in Nat
  <2>1. IsFiniteSet(a..(n - 1))
    BY FS_Interval
  <2>2. Ifs(t, a, n - 1) \subseteq a..(n - 1) /\ Endifs(t, a, n - 1) \subseteq a..(n - 1)
    BY DEF Ifs, Endifs
  <2> QED
    BY <2>1, <2>2, FS_Subset, FS_CardinalityType
<1>8. (n \in P <=> t[n].d = "if") /\ (n \in Q <=> t[n].d = "endif")
  BY <1>1, <1>2, <1>3
<1> QED
  BY <1>5, <1>6, <1>7, <1>8 DEF Depth, Adds

LEMMA DepthStart ==
    ASSUME NEW t, NEW a \in Nat \ {0}
    PROVE  Depth(t, a, a - 1) = 0
<1>1. Ifs(t, a, a - 1) = {} /\ Endifs(t, a, a - 1) = {}
  BY DEF Ifs, Endifs
<1> QED
  BY <1>1, FS_EmptySet DEF Depth

-----------------------------------------------------------------------------
(* Groups and branches.                                                    *)

LEMMA WithinSteps ==
    ASSUME NEW t, NEW n \in Nat \ {0}, NEW i \in 1..n
    PROVE  Within(t, i, n + 1) <=>
            IF i = n THEN Opens(t[n]) ELSE Within(t, i, n) /\ Depth(t, i, n) > 0
<1>1. (n + 1) - 1 = n /\ \A j \in i..n : j \in i..(n - 1) \/ j = n
  OBVIOUS
<1>2. i..(n - 1) \subseteq i..n /\ n \in i..n
  OBVIOUS
<1>3. CASE i = n
  <2>1. Opens(t[n]) => Depth(t, n, n) = 1
    BY DepthSteps, DepthStart DEF Opens, Adds
  <2>2. i..n = {n}
    BY <1>3
  <2> QED
    BY <1>1, <1>3, <2>1, <2>2 DEF Within
<1>4. CASE i # n
  BY <1>1, <1>2, <1>4 DEF Within
<1> QED
  BY <1>3, <1>4

\* Line n starts a branch of the group opened at i.
Starts(t, i, n) == t[n].d \in {"elif", "else"} /\ Depth(t, i, n) = 1 /\ Within(t, i, n)

LEMMA BranchSteps ==
    ASSUME NEW t, NEW n \in Nat \ {0}, NEW i \in 1..n
    PROVE  Branches(t, i, n) = IF i = n THEN {n}
                               ELSE IF Starts(t, i, n) THEN Branches(t, i, n - 1) \cup {n}
                               ELSE Branches(t, i, n - 1)
<1>1. \A j \in i..n : j \in i..(n - 1) \/ j = n
  OBVIOUS
<1>2. i..(n - 1) \subseteq i..n /\ n \in i..n
  OBVIOUS
<1>3. CASE i = n
  <2>1. i..n = {n}
    BY <1>3
  <2> QED
    BY <1>3, <2>1 DEF Branches
<1>4. CASE i # n
  <2>1. Branches(t, i, n) = {j \in i..n : j = i \/ Starts(t, i, j)}
    BY DEF Branches, Starts
  <2>2. Branches(t, i, n - 1) = {j \in i..(n - 1) : j = i \/ Starts(t, i, j)}
    BY DEF Branches, Starts
  <2> QED
    BY <1>1, <1>2, <1>4, <2>1, <2>2
<1> QED
  BY <1>3, <1>4

-----------------------------------------------------------------------------
(* A turn of the scanner.                                                  *)

Entry == [parent : BOOLEAN, taken : BOOLEAN]

States == [stack : Seq(Entry), possible : BOOLEAN, masked : SUBSET Nat, n : Nat, error : BOOLEAN]

LEMMA StateFields ==
    ASSUME NEW e \in States
    PROVE  /\ e.stack \in Seq(Entry) /\ e.possible \in BOOLEAN /\ e.error \in BOOLEAN
           /\ e.n \in Nat /\ e.masked \in SUBSET Nat /\ Len(e.stack) \in Nat
           /\ \A k \in 1..Len(e.stack) : e.stack[k] \in Entry
<1>1. e.possible \in BOOLEAN /\ e.error \in BOOLEAN
  BY Zenon DEF States
<1>2. e.stack \in Seq(Entry) /\ e.n \in Nat /\ e.masked \in SUBSET Nat
  BY DEF States
<1> QED
  BY <1>1, <1>2

LEMMA EntryFields ==
    ASSUME NEW x \in Entry
    PROVE  x.parent \in BOOLEAN /\ x.taken \in BOOLEAN
BY Zenon DEF Entry

LEMMA BranchFields ==
    ASSUME NEW l \in Line, NEW top \in Entry
    PROVE  /\ BranchAfter(l, top).possible \in BOOLEAN /\ BranchAfter(l, top).taken \in BOOLEAN
           /\ l.d = "elif" =>
                /\ BranchAfter(l, top).possible <=> top.parent /\ ~top.taken /\ l.v # "0"
                /\ BranchAfter(l, top).taken <=> top.taken \/ l.v = "1"
           /\ l.d = "else" =>
                /\ BranchAfter(l, top).possible <=> top.parent /\ ~top.taken
                /\ BranchAfter(l, top).taken
<1>1. PICK b : b = BranchAfter(l, top)
  OBVIOUS
<1>2. CASE l.d = "elif"
  <2>1. b = [possible |-> top.parent /\ ~top.taken /\ l.v # "0", taken |-> top.taken \/ l.v = "1"]
    BY <1>1, <1>2 DEF BranchAfter
  <2>2. /\ b.possible = (top.parent /\ ~top.taken /\ l.v # "0")
        /\ b.taken = (top.taken \/ l.v = "1")
    BY <2>1, Zenon
  <2>3. b.possible \in BOOLEAN /\ b.taken \in BOOLEAN
    BY <2>2, Zenon
  <2>4. l.d # "else"
    BY <1>2
  <2> QED
    BY <1>1, <2>2, <2>3, <2>4, Zenon
<1>3. CASE l.d # "elif"
  <2>1. b = [possible |-> top.parent /\ ~top.taken, taken |-> TRUE]
    BY <1>1, <1>3 DEF BranchAfter
  <2>2. b.possible = (top.parent /\ ~top.taken) /\ b.taken = TRUE
    BY <2>1, Zenon
  <2>3. b.possible \in BOOLEAN /\ b.taken \in BOOLEAN
    BY <2>2, Zenon
  <2> QED
    BY <1>1, <1>3, <2>2, <2>3, Zenon
<1> QED
  BY <1>2, <1>3, Zenon

\* What a directive does, one conjunct per kind of line.
Turn(e, l, r) ==
    /\ e.error => r.error
    /\ ~e.error =>
        /\ r.error <=> Len(e.stack) = 0 /\ l.d \in {"elif", "else", "endif"}
        /\ l.d = "code" => r.stack = e.stack /\ (r.possible <=> e.possible)
        /\ l.d = "if" =>
            /\ r.stack = Append(e.stack, [parent |-> e.possible, taken |-> l.v = "1"])
            /\ r.possible <=> e.possible /\ l.v # "0"
        /\ l.d \in {"elif", "else"} /\ Len(e.stack) > 0 =>
            /\ r.stack = [e.stack EXCEPT ![Len(e.stack)] =
                    [parent |-> e.stack[Len(e.stack)].parent,
                     taken |-> BranchAfter(l, e.stack[Len(e.stack)]).taken]]
            /\ r.possible <=> BranchAfter(l, e.stack[Len(e.stack)]).possible
        /\ l.d = "endif" /\ Len(e.stack) > 0 =>
            /\ r.stack = SubSeq(e.stack, 1, Len(e.stack) - 1)
            /\ r.possible <=> e.stack[Len(e.stack)].parent

LEMMA DirectiveTurn ==
    ASSUME NEW e \in States, NEW l \in Line
    PROVE  LET d == Directive(e, l) IN
           d.stack \in Seq(Entry) /\ d.possible \in BOOLEAN /\ d.error \in BOOLEAN /\ Turn(e, l, d)
<1>1. PICK d : d = Directive(e, l)
  OBVIOUS
<1>2. PICK k \in Nat : k = Len(e.stack)
  BY StateFields
<1>3. /\ e.stack \in Seq(Entry) /\ e.possible \in BOOLEAN /\ e.error \in BOOLEAN
      /\ \A i \in 1..k : e.stack[i] \in Entry
  BY <1>2, StateFields
<1>4. l.d \in {"code", "if", "elif", "else", "endif"}
  BY LineIs
<1>5. CASE e.error \/ l.d = "code"
  <2>1. d = Conditional(e.stack, e.possible, e.error)
    BY <1>1, <1>5, Zenon DEF Directive
  <2>2. d.stack = e.stack /\ d.possible = e.possible /\ d.error = e.error
    BY <2>1, Zenon DEF Conditional
  <2>3. e.error \/ (l.d # "if" /\ l.d \notin {"elif", "else", "endif"} /\ l.d # "endif" /\ l.d \notin {"elif", "else"})
    BY <1>5
  <2>4. Turn(e, l, d)
    BY <1>3, <2>2, <2>3, Zenon DEF Turn
  <2> QED
    BY <1>1, <1>3, <2>2, <2>4, Zenon
<1>6. CASE ~e.error /\ l.d = "if"
  <2>1. PICK w : w = Append(e.stack, [parent |-> e.possible, taken |-> l.v = "1"])
    OBVIOUS
  <2>2. w \in Seq(Entry)
    <3>1. PICK x : x = [parent |-> e.possible, taken |-> l.v = "1"]
      OBVIOUS
    <3>2. x \in Entry
      BY <1>3, <3>1, Zenon DEF Entry
    <3> QED
      BY <1>3, <2>1, <3>1, <3>2
  <2>3. l.d # "code" /\ l.d \notin {"elif", "else", "endif"} /\ l.d # "endif" /\ l.d \notin {"elif", "else"}
    BY <1>6
  <2>4. d = Conditional(w, e.possible /\ l.v # "0", FALSE)
    BY <1>1, <1>6, <2>1, <2>3, Zenon DEF Directive
  <2>5. d.stack = w /\ d.possible = (e.possible /\ l.v # "0") /\ d.error = FALSE
    BY <2>4, Zenon DEF Conditional
  <2>6. Turn(e, l, d)
    BY <1>6, <2>1, <2>3, <2>5, Zenon DEF Turn
  <2> QED
    BY <1>1, <2>2, <2>5, <2>6, Zenon
<1>7. CASE ~e.error /\ l.d \in {"elif", "else", "endif"} /\ k = 0
  <2>1. l.d # "code" /\ l.d # "if" /\ ~(Len(e.stack) > 0) /\ Len(e.stack) = 0
    BY <1>2, <1>7
  <2>2. d = Conditional(e.stack, e.possible, TRUE)
    BY <1>1, <1>7, <2>1, Zenon DEF Directive
  <2>3. d.stack = e.stack /\ d.possible = e.possible /\ d.error = TRUE
    BY <2>2, Zenon DEF Conditional
  <2>4. Turn(e, l, d)
    BY <1>7, <2>1, <2>3, Zenon DEF Turn
  <2> QED
    BY <1>1, <1>3, <2>3, <2>4, Zenon
<1>8. CASE ~e.error /\ l.d \in {"elif", "else"} /\ k > 0
  <2>1. PICK top \in Entry : top = e.stack[k]
    BY <1>3, <1>8
  <2>2. PICK b : b = BranchAfter(l, top)
    OBVIOUS
  <2>3. b.taken \in BOOLEAN /\ b.possible \in BOOLEAN
    BY <2>2, BranchFields, Zenon
  <2>4. PICK x : x = [parent |-> top.parent, taken |-> b.taken]
    OBVIOUS
  <2>5. x \in Entry
    BY <2>3, <2>4, EntryFields, Zenon DEF Entry
  <2>6. PICK w : w = [e.stack EXCEPT ![k] = x]
    OBVIOUS
  <2>7. w \in Seq(Entry)
    BY <1>2, <1>3, <1>8, <2>5, <2>6, ExceptSeq
  <2>8. l.d # "code" /\ l.d # "if" /\ l.d # "endif" /\ k # 0
    BY <1>8
  <2>9. d = Conditional(w, b.possible, FALSE)
    BY <1>1, <1>2, <1>8, <2>1, <2>2, <2>4, <2>6, <2>8, Zenon DEF Directive
  <2>10. d.stack = w /\ d.possible = b.possible /\ d.error = FALSE
    BY <2>9, Zenon DEF Conditional
  <2>11. Turn(e, l, d)
    BY <1>2, <1>8, <2>1, <2>2, <2>4, <2>6, <2>8, <2>10, Zenon DEF Turn
  <2> QED
    BY <1>1, <2>3, <2>7, <2>10, <2>11, Zenon
<1>9. CASE ~e.error /\ l.d = "endif" /\ k > 0
  <2>1. PICK w : w = SubSeq(e.stack, 1, k - 1)
    OBVIOUS
  <2>2. w \in Seq(Entry)
    BY <1>2, <1>3, <1>9, <2>1
  <2>3. e.stack[k].parent \in BOOLEAN
    <3>1. e.stack[k] \in Entry
      BY <1>3, <1>9
    <3> QED
      BY <3>1, EntryFields, Zenon
  <2>4. l.d # "code" /\ l.d # "if" /\ l.d \notin {"elif", "else"} /\ k # 0
    BY <1>9
  <2>5. d = Conditional(w, e.stack[k].parent, FALSE)
    BY <1>1, <1>2, <1>9, <2>1, <2>4, Zenon DEF Directive
  <2>6. d.stack = w /\ d.possible = e.stack[k].parent /\ d.error = FALSE
    BY <2>5, Zenon DEF Conditional
  <2>7. Turn(e, l, d)
    BY <1>2, <1>9, <2>1, <2>4, <2>6, Zenon DEF Turn
  <2> QED
    BY <1>1, <2>2, <2>3, <2>6, <2>7, Zenon
<1>10. k = 0 \/ k > 0
  OBVIOUS
<1> QED
  BY <1>4, <1>5, <1>6, <1>7, <1>8, <1>9, <1>10

LEMMA ScanTurn ==
    ASSUME NEW e \in States, NEW l \in Line
    PROVE  LET r == Scan(e, l) IN
           /\ r \in States /\ Turn(e, l, r) /\ r.n = e.n + 1
           /\ r.masked = IF r.possible \/ l.d = "endif" THEN e.masked ELSE e.masked \cup {e.n + 1}
<1>1. PICK d : d = Directive(e, l)
  OBVIOUS
<1>2. d.stack \in Seq(Entry) /\ d.possible \in BOOLEAN /\ d.error \in BOOLEAN /\ Turn(e, l, d)
  BY <1>1, DirectiveTurn, Zenon
<1>3. PICK m : m = IF d.possible \/ l.d = "endif" THEN e.masked ELSE e.masked \cup {e.n + 1}
  OBVIOUS
<1>4. e.n + 1 \in Nat /\ m \in SUBSET Nat
  BY <1>3, StateFields
<1>5. PICK r : r = [stack |-> d.stack, possible |-> d.possible, error |-> d.error,
                    n |-> e.n + 1, masked |-> m]
  OBVIOUS
<1>6. Scan(e, l) = r
  BY <1>1, <1>3, <1>5, Zenon DEF Scan
<1>7. /\ r.stack = d.stack /\ r.possible = d.possible /\ r.error = d.error
      /\ r.n = e.n + 1 /\ r.masked = m
  BY <1>5, Zenon
<1>8. r \in States
  BY <1>2, <1>4, <1>5, Zenon DEF States
<1>9. Turn(e, l, r)
  BY <1>2, <1>7, Zenon DEF Turn
<1> QED
  BY <1>3, <1>6, <1>7, <1>8, <1>9, Zenon

-----------------------------------------------------------------------------
(* The run of the scanner over a text.                                     *)

LEMMA ScanStarts ==
    /\ ScanStart \in States /\ ScanStart.stack = <<>> /\ ScanStart.n = 0
    /\ ScanStart.possible /\ ~ScanStart.error /\ ScanStart.masked = {}
<1>1. <<>> \in Seq(Entry) /\ 0 \in Nat /\ {} \in SUBSET Nat
  OBVIOUS
<1>2. ScanStart \in States
  BY <1>1, Zenon DEF ScanStart, States
<1> QED
  BY <1>2, Zenon DEF ScanStart

\* s holds what the loop has after every number of lines.
Scanning(t, s) ==
    s = [n \in 0..Len(t) |-> IF n = 0 THEN ScanStart ELSE Scan(s[n - 1], t[n])]

LEMMA ScannedIs ==
    ASSUME NEW t
    PROVE  Scanned(t) = (CHOOSE s : Scanning(t, s))[Len(t)]
BY Zenon DEF Scanned, Scanning

Run(t, N, s) ==
    /\ s \in [0..N -> States] /\ s[0] = ScanStart /\ Scanned(t) = s[N]
    /\ \A n \in 1..N : s[n] = Scan(s[n - 1], t[n])

LEMMA ScanSteps ==
    ASSUME NEW t \in Seq(Line)
    PROVE  \E s : Run(t, Len(t), s)
<1>1. PICK N \in Nat : N = Len(t)
  OBVIOUS
<1>2. \A n \in 1..N : t[n] \in Line
  BY <1>1
<1>3. PICK F : F = [n \in 1..N |-> [w \in States |-> Scan(w, t[n])]]
  OBVIOUS
<1>4. F \in Turns(States, N)
  <2>1. \A n \in 1..N : \A w \in States : Scan(w, t[n]) \in States
    BY <1>2, ScanTurn
  <2> QED
    BY <1>3, <2>1 DEF Turns
<1>5. ScanStart \in States
  BY ScanStarts
<1>6. PICK r : Course(States, ScanStart, N, F, r)
  BY <1>4, <1>5, Iterates, Zenon
<1>7. r \in [0..N -> States] /\ r[0] = ScanStart
  BY <1>6 DEF Course
<1>8. \A n \in 1..N : r[n] = Scan(r[n - 1], t[n])
  <2> SUFFICES ASSUME NEW n \in 1..N
               PROVE  r[n] = Scan(r[n - 1], t[n])
    OBVIOUS
  <2>1. n - 1 \in 0..N
    OBVIOUS
  <2>2. PICK w \in States : w = r[n - 1]
    BY <1>7, <2>1
  <2>3. F[n][w] = Scan(w, t[n])
    BY <1>3
  <2> QED
    BY <1>6, <2>2, <2>3 DEF Course
<1>9. Scanning(t, r)
  <2>1. r = [n \in 0..N |-> r[n]]
    BY <1>7
  <2>2. \A n \in 0..N : n # 0 => n \in 1..N
    OBVIOUS
  <2>3. \A n \in 0..N : r[n] = IF n = 0 THEN ScanStart ELSE Scan(r[n - 1], t[n])
    BY <1>7, <1>8, <2>2
  <2> QED
    BY <1>1, <2>1, <2>3, Zenon DEF Scanning
<1>10. PICK s : s = (CHOOSE h : Scanning(t, h))
  OBVIOUS
<1>11. Scanning(t, s) /\ Scanned(t) = s[N]
  BY <1>1, <1>9, <1>10, ScannedIs, Zenon
<1>12. s = [n \in 0..N |-> IF n = 0 THEN ScanStart ELSE Scan(s[n - 1], t[n])]
  BY <1>1, <1>11, Zenon DEF Scanning
<1>13. s[0] = ScanStart
  <2>1. 0 \in 0..N
    OBVIOUS
  <2> QED
    BY <1>12, <2>1, Zenon
<1>14. \A n \in 1..N : s[n] = Scan(s[n - 1], t[n])
  <2> SUFFICES ASSUME NEW n \in 1..N
               PROVE  s[n] = Scan(s[n - 1], t[n])
    OBVIOUS
  <2>1. n \in 0..N /\ n # 0
    OBVIOUS
  <2> QED
    BY <1>12, <2>1, Zenon
<1>15. \A n \in 0..N : s[n] \in States
  <2> DEFINE good == {n \in 0..N : s[n] \in States}
  <2>1. 0 \in good
    BY <1>5, <1>13
  <2>2. \A n \in 1..N : n - 1 \in good => n \in good
    <3> SUFFICES ASSUME NEW n \in 1..N, s[n - 1] \in States
                 PROVE  s[n] \in States
      OBVIOUS
    <3> QED
      BY <1>2, <1>14, ScanTurn
  <2>3. \A n \in 0..N : n \in good
    <3> HIDE DEF good
    <3> QED
      BY <2>1, <2>2, UpTo
  <2> QED
    BY <2>3
<1>16. s \in [0..N -> States]
  <2>1. s = [n \in 0..N |-> s[n]]
    BY <1>12
  <2> QED
    BY <1>15, <2>1
<1> QED
  BY <1>1, <1>11, <1>13, <1>14, <1>16 DEF Run

-----------------------------------------------------------------------------
(* The open conditionals.                                                  *)

\* The condition of line l is true, or may be, whatever the unknown ones are.
Certain(l) == l.d = "else" \/ l.v = "1"
May(l) == l.d = "else" \/ l.v # "0"

\* The last of branches B can be the first one that holds.
Live(t, B) ==
    \E last \in B : /\ \A j \in B : j <= last
                    /\ May(t[last])
                    /\ \A j \in B \ {last} : ~Certain(t[j])

\* o lists the conditionals that are open after n lines, outermost first.
Lists(t, n, K, o) ==
    /\ o \in [1..K -> 1..n]
    /\ \A i \in 1..n : Within(t, i, n + 1) <=> \E k \in 1..K : o[k] = i
    /\ \A k \in 1..K : Depth(t, o[k], n) = K - k + 1

\* C has their branches, and the stack tells of each what it has to: whether
\* a branch of it certainly holds, whether the code around it can be kept.
Tells(t, K, C, e) ==
    /\ \A k, m \in 1..K : k # m => C[k] \cap C[m] = {}
    /\ \A k \in 1..K : e.stack[k].taken <=> \E j \in C[k] : Certain(t[j])
    /\ \A k \in 1..K : e.stack[k].parent <=> \A m \in 1..(k - 1) : Live(t, C[m])
    /\ e.possible <=> \A m \in 1..K : Live(t, C[m])

Opening(t, n, K, o, C, e) ==
    /\ K \in Nat /\ K = Len(e.stack) /\ Depth(t, 1, n) = K
    /\ Lists(t, n, K, o)
    /\ C = [k \in 1..K |-> Branches(t, o[k], n)]
    /\ Tells(t, K, C, e)

LEMMA BranchesIn ==
    ASSUME NEW t, NEW i, NEW n
    PROVE  Branches(t, i, n) \subseteq i..n
BY DEF Branches

\* What line n does to a conditional that was open before it.
LEMMA OpenGroup ==
    ASSUME NEW t, NEW n \in Nat \ {0}, NEW i \in 1..(n - 1), Within(t, i, n),
           Depth(t, i, n - 1) \in Nat \ {0}
    PROVE  /\ Depth(t, i, n) = Depth(t, i, n - 1) + Adds(t[n])
           /\ Within(t, i, n + 1) <=> Depth(t, i, n) > 0
           /\ Branches(t, i, n) =
                IF t[n].d \in {"elif", "else"} /\ Depth(t, i, n - 1) = 1
                THEN Branches(t, i, n - 1) \cup {n} ELSE Branches(t, i, n - 1)
           /\ Branches(t, i, n - 1) \subseteq 1..(n - 1)
<1>1. i \in Nat \ {0} /\ n >= i /\ i # n /\ i \in 1..n
  OBVIOUS
<1>2. Depth(t, i, n) = Depth(t, i, n - 1) + Adds(t[n])
  BY <1>1, DepthSteps
<1>3. Within(t, i, n + 1) <=> Depth(t, i, n) > 0
  BY <1>1, WithinSteps
<1>4. t[n].d \in {"elif", "else"} => Depth(t, i, n) = Depth(t, i, n - 1)
  BY <1>2 DEF Adds
<1>5. Branches(t, i, n) = IF Starts(t, i, n) THEN Branches(t, i, n - 1) \cup {n}
                          ELSE Branches(t, i, n - 1)
  BY <1>1, BranchSteps
<1>6. Starts(t, i, n) <=> t[n].d \in {"elif", "else"} /\ Depth(t, i, n - 1) = 1
  BY <1>4 DEF Starts
<1>7. Branches(t, i, n - 1) \subseteq 1..(n - 1)
  BY BranchesIn
<1> QED
  BY <1>2, <1>3, <1>5, <1>6, <1>7

\* The same for all of them.  No other conditional is open, unless it is
\* opened on the line.
Passed(t, n, K, o, B) ==
    /\ \A k \in 1..K :
        /\ o[k] \in 1..n /\ o[k] # n
        /\ Depth(t, o[k], n) = K - k + 1 + Adds(t[n])
        /\ Within(t, o[k], n + 1) <=> Depth(t, o[k], n) > 0
        /\ Branches(t, o[k], n) =
            IF t[n].d \in {"elif", "else"} /\ k = K THEN B[k] \cup {n} ELSE B[k]
        /\ B[k] \subseteq 1..(n - 1)
    /\ \A i \in 1..n : Within(t, i, n + 1) =>
            (i = n /\ Opens(t[n])) \/ \E k \in 1..K : o[k] = i

LEMMA OpenGroups ==
    ASSUME NEW t, NEW n \in Nat \ {0}, NEW K \in Nat, NEW o, Lists(t, n - 1, K, o),
           NEW B, B = [k \in 1..K |-> Branches(t, o[k], n - 1)]
    PROVE  Passed(t, n, K, o, B)
<1>1. /\ o \in [1..K -> 1..(n - 1)]
      /\ \A i \in 1..(n - 1) : Within(t, i, n) <=> \E k \in 1..K : o[k] = i
      /\ \A k \in 1..K : Depth(t, o[k], n - 1) = K - k + 1
  <2>1. (n - 1) + 1 = n
    OBVIOUS
  <2> QED
    BY <2>1, Zenon DEF Lists
<1>2. ASSUME NEW k \in 1..K
      PROVE  /\ o[k] \in 1..n /\ o[k] # n
             /\ Depth(t, o[k], n) = K - k + 1 + Adds(t[n])
             /\ Within(t, o[k], n + 1) <=> Depth(t, o[k], n) > 0
             /\ Branches(t, o[k], n) =
                    IF t[n].d \in {"elif", "else"} /\ k = K THEN B[k] \cup {n} ELSE B[k]
             /\ B[k] \subseteq 1..(n - 1)
  <2>1. PICK i \in 1..(n - 1) : i = o[k]
    BY <1>1
  <2>2. Within(t, i, n) /\ Depth(t, i, n - 1) = K - k + 1
    BY <1>1, <2>1
  <2>3. K - k + 1 \in Nat \ {0} /\ (K - k + 1 = 1 <=> k = K)
    OBVIOUS
  <2>4. /\ Depth(t, i, n) = Depth(t, i, n - 1) + Adds(t[n])
        /\ Within(t, i, n + 1) <=> Depth(t, i, n) > 0
        /\ Branches(t, i, n) =
                IF t[n].d \in {"elif", "else"} /\ Depth(t, i, n - 1) = 1
                THEN Branches(t, i, n - 1) \cup {n} ELSE Branches(t, i, n - 1)
        /\ Branches(t, i, n - 1) \subseteq 1..(n - 1)
    BY <2>2, <2>3, OpenGroup
  <2>5. i \in 1..n /\ i # n
    OBVIOUS
  <2>6. B[k] = Branches(t, i, n - 1)
    BY <2>1
  <2> QED
    BY <2>1, <2>2, <2>3, <2>4, <2>5, <2>6
<1>3. ASSUME NEW i \in 1..n, Within(t, i, n + 1)
      PROVE  (i = n /\ Opens(t[n])) \/ \E k \in 1..K : o[k] = i
  <2>1. IF i = n THEN Opens(t[n]) ELSE Within(t, i, n) /\ Depth(t, i, n) > 0
    BY <1>3, WithinSteps
  <2>2. i # n => i \in 1..(n - 1)
    OBVIOUS
  <2> QED
    BY <1>1, <2>1, <2>2
<1> QED
  BY <1>2, <1>3 DEF Passed

LEMMA OpeningStep ==
    ASSUME NEW t, NEW n \in Nat \ {0}, t[n] \in Line, NEW e \in States, NEW r \in States,
           Turn(e, t[n], r), ~e.error, ~r.error,
           NEW K, NEW o, NEW B, Opening(t, n - 1, K, o, B, e)
    PROVE  \E M, u, C : Opening(t, n, M, u, C, r)
<1>1. K \in Nat /\ K = Len(e.stack) /\ Depth(t, 1, n - 1) = K
  BY DEF Opening
<1>2. PICK l \in Line : l = t[n]
  OBVIOUS
<1>3. Passed(t, n, K, o, B) /\ o \in [1..K -> 1..(n - 1)]
  BY <1>1, OpenGroups DEF Opening, Lists
<1>4. Tells(t, K, B, e)
  BY DEF Opening
<1>5. \A k \in 1..K : /\ o[k] \in 1..n /\ o[k] # n
                      /\ Depth(t, o[k], n) = K - k + 1 + Adds(l)
                      /\ Within(t, o[k], n + 1) <=> Depth(t, o[k], n) > 0
                      /\ Branches(t, o[k], n) = IF l.d \in {"elif", "else"} /\ k = K
                                                THEN B[k] \cup {n} ELSE B[k]
                      /\ B[k] \subseteq 1..(n - 1)
  BY <1>2, <1>3 DEF Passed
<1>6. \A i \in 1..n : Within(t, i, n + 1) => (i = n /\ Opens(l)) \/ \E k \in 1..K : o[k] = i
  BY <1>2, <1>3 DEF Passed
<1>7. Depth(t, 1, n) = K + Adds(l)
  <2>1. Depth(t, 1, n) = Depth(t, 1, n - 1) + Adds(t[n])
    BY DepthSteps
  <2> QED
    BY <1>1, <1>2, <2>1
<1>8. Turn(e, l, r) /\ ~e.error /\ ~r.error
  BY <1>2
<1>9. CASE l.d = "code"
  <2>1. Len(r.stack) = K /\ r.stack = e.stack /\ (r.possible <=> e.possible)
    BY <1>1, <1>8, <1>9 DEF Turn
  <2>2. \A k \in 1..K : Depth(t, o[k], n) = K - k + 1 /\ Branches(t, o[k], n) = B[k] /\ o[k] \in 1..n
    BY <1>1, <1>5, <1>9 DEF Adds
  <2>3. Lists(t, n, K, o)
    <3>1. \A k \in 1..K : Depth(t, o[k], n) > 0
      BY <1>1, <2>2
    <3>2. o \in [1..K -> 1..n]
      BY <1>3, <2>2
    <3> QED
      BY <1>5, <1>6, <1>9, <2>2, <3>1, <3>2 DEF Opens, Lists
  <2>4. B = [k \in 1..K |-> Branches(t, o[k], n)]
    BY <2>2 DEF Opening
  <2>5. Tells(t, K, B, r)
    BY <1>4, <2>1, Zenon DEF Tells
  <2>6. Depth(t, 1, n) = K
    BY <1>1, <1>7, <1>9 DEF Adds
  <2> QED
    BY <1>1, <2>1, <2>3, <2>4, <2>5, <2>6, Zenon DEF Opening
<1>10. CASE l.d = "if"
  <2>1. PICK M \in Nat : M = K + 1
    BY <1>1
  <2>2. PICK u : u = [k \in 1..M |-> IF k = M THEN n ELSE o[k]]
    OBVIOUS
  <2>3. PICK C : C = [k \in 1..M |-> IF k = M THEN {n} ELSE B[k]]
    OBVIOUS
  <2>4. \A k \in 1..M : k \in 1..K \/ k = M
    BY <1>1, <2>1
  <2>5. 1..K \subseteq 1..M /\ M \in 1..M /\ M \notin 1..K
    BY <1>1, <2>1
  <2>6. Depth(t, n, n) = 1 /\ Branches(t, n, n) = {n} /\ Within(t, n, n + 1)
    <3>1. Depth(t, n, n - 1) = 0 /\ Depth(t, n, n) = Depth(t, n, n - 1) + Adds(t[n])
      BY DepthStart, DepthSteps
    <3>2. n \in 1..n
      OBVIOUS
    <3>3. Within(t, n, n + 1)
      BY <1>2, <1>10, <3>2, WithinSteps DEF Opens
    <3>4. Branches(t, n, n) = {n}
      BY <3>2, BranchSteps
    <3> QED
      BY <1>2, <1>10, <3>1, <3>3, <3>4 DEF Adds
  <2>7. \A k \in 1..K : /\ u[k] = o[k] /\ C[k] = B[k] /\ Depth(t, o[k], n) = M - k + 1
                        /\ Branches(t, o[k], n) = B[k] /\ Within(t, o[k], n + 1)
    <3> SUFFICES ASSUME NEW k \in 1..K
                 PROVE  /\ u[k] = o[k] /\ C[k] = B[k] /\ Depth(t, o[k], n) = M - k + 1
                        /\ Branches(t, o[k], n) = B[k] /\ Within(t, o[k], n + 1)
      OBVIOUS
    <3>1. u[k] = o[k] /\ C[k] = B[k]
      BY <2>2, <2>3, <2>5
    <3>2. Depth(t, o[k], n) = K - k + 1 + 1
      BY <1>5, <1>10 DEF Adds
    <3>3. M - k + 1 = K - k + 1 + 1 /\ K - k + 1 + 1 > 0
      BY <1>1, <2>1
    <3>4. Branches(t, o[k], n) = B[k]
      BY <1>5, <1>10
    <3> QED
      BY <1>5, <3>1, <3>2, <3>3, <3>4
  <2>8. u[M] = n /\ C[M] = {n}
    BY <2>2, <2>3, <2>5
  <2>9. Lists(t, n, M, u)
    <3>1. u \in [1..M -> 1..n]
      <4>1. \A k \in 1..M : u[k] \in 1..n
        <5>1. n \in 1..n
          OBVIOUS
        <5> QED
          BY <1>5, <2>4, <2>7, <2>8, <5>1
      <4> QED
        BY <2>2, <4>1
    <3>2. \A i \in 1..n : Within(t, i, n + 1) <=> \E k \in 1..M : u[k] = i
      <4>1. \A k \in 1..M : Within(t, u[k], n + 1)
        BY <2>4, <2>6, <2>7, <2>8
      <4>2. \A i \in 1..n : Within(t, i, n + 1) => \E k \in 1..M : u[k] = i
        BY <1>6, <2>5, <2>7, <2>8, Zenon
      <4> QED
        BY <4>1, <4>2, Zenon
    <3>3. M - M + 1 = 1
      BY <2>1
    <3>4. \A k \in 1..M : Depth(t, u[k], n) = M - k + 1
      BY <2>4, <2>6, <2>7, <2>8, <3>3
    <3> QED
      BY <3>1, <3>2, <3>4 DEF Lists
  <2>10. C = [k \in 1..M |-> Branches(t, u[k], n)]
    <3>1. \A k \in 1..M : C[k] = Branches(t, u[k], n)
      BY <2>4, <2>6, <2>7, <2>8
    <3> QED
      BY <2>3, <3>1
  <2>11. PICK x : x = [parent |-> e.possible, taken |-> l.v = "1"]
    OBVIOUS
  <2>12. x.parent = e.possible /\ x.taken = (l.v = "1")
    BY <2>11, Zenon
  <2>13. x \in Entry
    BY <2>11, StateFields, Zenon DEF Entry
  <2>14. /\ r.stack = Append(e.stack, x) /\ (r.possible <=> e.possible /\ l.v # "0")
    BY <1>8, <1>10, <2>11, Zenon DEF Turn
  <2>15. Len(r.stack) = M /\ (\A k \in 1..K : r.stack[k] = e.stack[k]) /\ r.stack[M] = x
    BY <1>1, <2>1, <2>13, <2>14, StateFields
  <2>16. Tells(t, M, C, r)
    <3>1. \A k, m \in 1..M : k # m => C[k] \cap C[m] = {}
      <4>1. \A k \in 1..K : n \notin B[k]
        <5>1. n \notin 1..(n - 1)
          OBVIOUS
        <5> QED
          BY <1>5, <5>1
      <4>2. \A k, m \in 1..K : k # m => B[k] \cap B[m] = {}
        BY <1>4 DEF Tells
      <4> QED
        BY <2>4, <2>7, <2>8, <4>1, <4>2
    <3>2. (Certain(l) <=> l.v = "1") /\ (May(l) <=> l.v # "0")
      BY <1>10 DEF Certain, May
    <3>3. Live(t, C[M]) <=> l.v # "0"
      BY <1>2, <2>8, <3>2 DEF Live
    <3>4. \A k \in 1..M : r.stack[k].taken <=> \E j \in C[k] : Certain(t[j])
      <4>1. r.stack[M].taken <=> l.v = "1"
        BY <2>12, <2>15, Zenon
      <4>2. (\E j \in C[M] : Certain(t[j])) <=> l.v = "1"
        BY <1>2, <2>8, <3>2
      <4>3. \A k \in 1..K : r.stack[k].taken <=> \E j \in C[k] : Certain(t[j])
        BY <1>4, <2>7, <2>15, Zenon DEF Tells
      <4> QED
        BY <2>4, <4>1, <4>2, <4>3, Zenon
    <3>5. e.possible <=> \A m \in 1..K : Live(t, C[m])
      BY <1>4, <2>7, Zenon DEF Tells
    <3>6. \A k \in 1..M : r.stack[k].parent <=> \A m \in 1..(k - 1) : Live(t, C[m])
      <4>1. M - 1 = K
        BY <1>1, <2>1
      <4>2. r.stack[M].parent <=> \A m \in 1..(M - 1) : Live(t, C[m])
        BY <2>12, <2>15, <3>5, <4>1, Zenon
      <4>3. \A k \in 1..K : 1..(k - 1) \subseteq 1..K
        BY <1>1
      <4>4. \A k \in 1..K : r.stack[k].parent <=> \A m \in 1..(k - 1) : Live(t, C[m])
        BY <1>4, <2>7, <2>15, <4>3, Zenon DEF Tells
      <4> QED
        BY <2>4, <4>2, <4>4, Zenon
    <3>7. r.possible <=> \A m \in 1..M : Live(t, C[m])
      BY <2>4, <2>5, <2>14, <3>3, <3>5, Zenon
    <3> QED
      BY <3>1, <3>4, <3>6, <3>7, Zenon DEF Tells
  <2>17. Depth(t, 1, n) = M
    BY <1>7, <1>10, <2>1 DEF Adds
  <2> QED
    BY <2>9, <2>10, <2>15, <2>16, <2>17, Zenon DEF Opening
<1>11. CASE l.d \in {"elif", "else"}
  <2>1. K > 0 /\ K \in 1..K
    <3>1. K # 0
      BY <1>1, <1>8, <1>11 DEF Turn
    <3> QED
      BY <1>1, <3>1
  <2>2. PICK C : C = [k \in 1..K |-> IF k = K THEN B[K] \cup {n} ELSE B[k]]
    OBVIOUS
  <2>3. \A k \in 1..K : /\ Depth(t, o[k], n) = K - k + 1 /\ Depth(t, o[k], n) > 0
                        /\ Branches(t, o[k], n) = C[k] /\ o[k] \in 1..n
    <3>1. Adds(l) = 0
      BY <1>11 DEF Adds
    <3>2. \A k \in 1..K : K - k + 1 + 0 = K - k + 1 /\ K - k + 1 > 0
      BY <1>1
    <3> QED
      BY <1>5, <1>11, <2>2, <3>1, <3>2
  <2>4. Lists(t, n, K, o)
    <3>1. o \in [1..K -> 1..n]
      BY <1>3, <2>3
    <3> QED
      BY <1>5, <1>6, <1>11, <2>3, <3>1 DEF Opens, Lists
  <2>5. C = [k \in 1..K |-> Branches(t, o[k], n)]
    BY <2>2, <2>3
  <2>6. PICK top \in Entry : top = e.stack[K]
    BY <1>1, <2>1, StateFields
  <2>7. PICK b : b = BranchAfter(l, top)
    OBVIOUS
  <2>8. /\ b.possible \in BOOLEAN /\ b.taken \in BOOLEAN
        /\ b.possible <=> top.parent /\ ~top.taken /\ May(l)
        /\ b.taken <=> top.taken \/ Certain(l)
    <3>1. l.d = "elif" => (Certain(l) <=> l.v = "1") /\ (May(l) <=> l.v # "0")
      BY DEF Certain, May
    <3>2. l.d = "else" => Certain(l) /\ May(l)
      BY DEF Certain, May
    <3>3. l.d = "elif" \/ l.d = "else"
      BY <1>11
    <3> QED
      BY <2>7, <3>1, <3>2, <3>3, BranchFields, Zenon
  <2>9. PICK x : x = [parent |-> top.parent, taken |-> b.taken]
    OBVIOUS
  <2>10. x \in Entry /\ x.parent = top.parent /\ x.taken = b.taken
    BY <2>8, <2>9, EntryFields, Zenon DEF Entry
  <2>11. r.stack = [e.stack EXCEPT ![K] = x] /\ (r.possible <=> b.possible)
    BY <1>1, <1>8, <1>11, <2>1, <2>6, <2>7, <2>9, Zenon DEF Turn
  <2>12. /\ Len(r.stack) = K /\ r.stack[K] = x
         /\ \A k \in 1..K : k # K => r.stack[k] = e.stack[k]
    BY <1>1, <2>1, <2>10, <2>11, StateFields, ExceptSeq
  <2>13. Tells(t, K, C, r)
    <3>1. C[K] = B[K] \cup {n} /\ \A k \in 1..K : k # K => C[k] = B[k]
      BY <2>1, <2>2
    <3>2. \A k \in 1..K : n \notin B[k] /\ \A j \in B[k] : j <= n /\ j # n
      <4>1. \A j \in 1..(n - 1) : j <= n /\ j # n
        OBVIOUS
      <4> QED
        BY <1>5, <4>1
    <3>3. \A k, m \in 1..K : k # m => C[k] \cap C[m] = {}
      <4>1. \A k, m \in 1..K : k # m => B[k] \cap B[m] = {}
        BY <1>4 DEF Tells
      <4> QED
        BY <3>1, <3>2, <4>1
    <3>4. \A k \in 1..K : r.stack[k].taken <=> \E j \in C[k] : Certain(t[j])
      <4>1. top.taken <=> \E j \in B[K] : Certain(t[j])
        BY <1>4, <2>1, <2>6, Zenon DEF Tells
      <4>2. r.stack[K].taken <=> \E j \in C[K] : Certain(t[j])
        BY <1>2, <2>8, <2>10, <2>12, <3>1, <4>1, Zenon
      <4> QED
        BY <1>4, <2>12, <3>1, <4>2, Zenon DEF Tells
    <3>5. \A k \in 1..K : r.stack[k].parent <=> \A m \in 1..(k - 1) : Live(t, C[m])
      <4>1. \A k \in 1..K : \A m \in 1..(k - 1) : m \in 1..K /\ m # K
        BY <1>1
      <4>2. \A k \in 1..K : r.stack[k].parent = e.stack[k].parent
        BY <2>6, <2>10, <2>12, Zenon
      <4> QED
        BY <1>4, <3>1, <4>1, <4>2, Zenon DEF Tells
    <3>6. Live(t, C[K]) <=> May(l) /\ ~top.taken
      <4>1. top.taken <=> \E j \in B[K] : Certain(t[j])
        BY <1>4, <2>1, <2>6, Zenon DEF Tells
      <4>2. n <= n
        OBVIOUS
      <4>3. \A j \in C[K] : (\A i \in C[K] : i <= j) => j = n
        <5>1. \A j \in 1..(n - 1) : ~(n <= j)
          OBVIOUS
        <5>2. B[K] \subseteq 1..(n - 1)
          BY <1>5, <2>1
        <5> QED
          BY <3>1, <5>1, <5>2
      <4>4. n \in C[K] /\ C[K] \ {n} = B[K] /\ \A j \in C[K] : j <= n
        BY <2>1, <3>1, <3>2, <4>2
      <4>5. Live(t, C[K]) <=> May(t[n]) /\ \A j \in C[K] \ {n} : ~Certain(t[j])
        BY <4>3, <4>4, Zenon DEF Live
      <4> QED
        BY <1>2, <4>1, <4>4, <4>5, Zenon
    <3>7. r.possible <=> \A m \in 1..K : Live(t, C[m])
      <4>1. top.parent <=> \A m \in 1..(K - 1) : Live(t, B[m])
        BY <1>4, <2>1, <2>6, Zenon DEF Tells
      <4>2. \A m \in 1..K : m \in 1..(K - 1) \/ m = K
        BY <1>1
      <4>3. \A m \in 1..(K - 1) : m \in 1..K /\ m # K
        BY <1>1
      <4>4. top.parent <=> \A m \in 1..(K - 1) : Live(t, C[m])
        BY <3>1, <4>1, <4>3, Zenon
      <4> QED
        BY <2>1, <2>8, <2>11, <3>6, <4>2, <4>3, <4>4, Zenon
    <3> QED
      BY <3>3, <3>4, <3>5, <3>7, Zenon DEF Tells
  <2>14. Depth(t, 1, n) = K
    <3>1. Adds(l) = 0
      BY <1>11 DEF Adds
    <3> QED
      BY <1>1, <1>7, <3>1
  <2> QED
    BY <1>1, <2>4, <2>5, <2>12, <2>13, <2>14, Zenon DEF Opening
<1>12. CASE l.d = "endif"
  <2>1. K > 0 /\ K \in 1..K
    <3>1. K # 0
      BY <1>1, <1>8, <1>12 DEF Turn
    <3> QED
      BY <1>1, <3>1
  <2>2. PICK M \in Nat : M = K - 1
    BY <1>1, <2>1
  <2>3. PICK u : u = [k \in 1..M |-> o[k]]
    OBVIOUS
  <2>4. PICK C : C = [k \in 1..M |-> B[k]]
    OBVIOUS
  <2>5. 1..M \subseteq 1..K /\ \A k \in 1..K : k \in 1..M \/ k = K
    BY <1>1, <2>2
  <2>6. \A k \in 1..K : Depth(t, o[k], n) = M - k + 1 /\ Branches(t, o[k], n) = B[k]
    <3>1. Adds(l) = -1
      BY <1>12 DEF Adds
    <3>2. \A k \in 1..K : K - k + 1 + (-1) = M - k + 1
      BY <1>1, <2>2
    <3> QED
      BY <1>5, <1>12, <3>1, <3>2
  <2>7. \A k \in 1..M : u[k] = o[k] /\ C[k] = B[k] /\ Depth(t, o[k], n) > 0
    <3>1. \A k \in 1..M : M - k + 1 > 0
      OBVIOUS
    <3> QED
      BY <2>3, <2>4, <2>5, <2>6, <3>1
  <2>8. Lists(t, n, M, u)
    <3>1. u \in [1..M -> 1..n]
      BY <1>5, <2>3, <2>5
    <3>2. ~Within(t, o[K], n + 1)
      <4>1. ~(M - K + 1 > 0)
        BY <1>1, <2>2
      <4> QED
        BY <1>5, <2>1, <2>6, <4>1
    <3>3. ~Opens(l)
      BY <1>12 DEF Opens
    <3>4. \A i \in 1..n : Within(t, i, n + 1) => \E k \in 1..M : u[k] = i
      BY <1>6, <2>5, <2>7, <3>2, <3>3
    <3>5. \A k \in 1..M : Within(t, u[k], n + 1) /\ Depth(t, u[k], n) = M - k + 1
      BY <1>5, <2>5, <2>6, <2>7
    <3> QED
      BY <3>1, <3>4, <3>5, Zenon DEF Lists
  <2>9. C = [k \in 1..M |-> Branches(t, u[k], n)]
    BY <2>4, <2>5, <2>6, <2>7
  <2>10. r.stack = SubSeq(e.stack, 1, M) /\ (r.possible <=> e.stack[K].parent)
    BY <1>1, <1>8, <1>12, <2>1, <2>2 DEF Turn
  <2>11. Len(r.stack) = M /\ \A k \in 1..M : r.stack[k] = e.stack[k]
    BY <1>1, <2>2, <2>10, StateFields
  <2>12. Tells(t, M, C, r)
    <3>1. \A k, m \in 1..M : k # m => C[k] \cap C[m] = {}
      BY <1>4, <2>5, <2>7 DEF Tells
    <3>2. \A k \in 1..M : r.stack[k].taken <=> \E j \in C[k] : Certain(t[j])
      BY <1>4, <2>5, <2>7, <2>11, Zenon DEF Tells
    <3>3. \A k \in 1..M : 1..(k - 1) \subseteq 1..M
      OBVIOUS
    <3>4. \A k \in 1..M : r.stack[k].parent <=> \A m \in 1..(k - 1) : Live(t, C[m])
      BY <1>4, <2>5, <2>7, <2>11, <3>3, Zenon DEF Tells
    <3>5. e.stack[K].parent <=> \A m \in 1..(K - 1) : Live(t, B[m])
      BY <1>4, <2>1, Zenon DEF Tells
    <3>6. r.possible <=> \A m \in 1..M : Live(t, C[m])
      BY <2>2, <2>7, <2>10, <3>5, Zenon
    <3> QED
      BY <3>1, <3>2, <3>4, <3>6, Zenon DEF Tells
  <2>13. Depth(t, 1, n) = M
    BY <1>1, <1>7, <1>12, <2>2 DEF Adds
  <2> QED
    BY <2>8, <2>9, <2>11, <2>12, <2>13, Zenon DEF Opening
<1>13. l.d \in {"code", "if", "elif", "else", "endif"}
  BY LineIs
<1> QED
  BY <1>9, <1>10, <1>11, <1>12, <1>13

-----------------------------------------------------------------------------
(* The text so far.                                                        *)

Formed(t, n) ==
    \A m \in 1..n :
        /\ Depth(t, 1, m) >= 0
        /\ t[m].d \in {"elif", "else"} => Depth(t, 1, m) > 0

\* What the scanner knows after n lines.
Reads(t, n, e) ==
    /\ e.n = n
    /\ e.error <=> ~Formed(t, n)
    /\ Formed(t, n) => \E K, o, C : Opening(t, n, K, o, C, e)

LEMMA FormedSteps ==
    ASSUME NEW t, NEW n \in Nat \ {0}
    PROVE  Formed(t, n) <=> /\ Formed(t, n - 1) /\ Depth(t, 1, n) >= 0
                            /\ t[n].d \in {"elif", "else"} => Depth(t, 1, n) > 0
<1>1. \A m \in 1..n : m \in 1..(n - 1) \/ m = n
  OBVIOUS
<1>2. 1..(n - 1) \subseteq 1..n /\ n \in 1..n
  OBVIOUS
<1> QED
  BY <1>1, <1>2, Zenon DEF Formed

LEMMA ReadsStart ==
    ASSUME NEW t
    PROVE  Reads(t, 0, ScanStart)
<1>1. PICK o : o = [k \in 1..0 |-> 0]
  OBVIOUS
<1>2. PICK C : C = [k \in 1..0 |-> Branches(t, o[k], 0)]
  OBVIOUS
<1>3. 1..0 = {}
  OBVIOUS
<1>4. Depth(t, 1, 0) = 0
  <2>1. Depth(t, 1, 1 - 1) = 0
    BY DepthStart
  <2> QED
    BY <2>1
<1>5. Lists(t, 0, 0, o)
  BY <1>1, <1>3 DEF Lists
<1>6. Tells(t, 0, C, ScanStart)
  BY <1>3, ScanStarts, Zenon DEF Tells
<1>7. 0 \in Nat /\ Len(ScanStart.stack) = 0
  BY ScanStarts
<1>8. Opening(t, 0, 0, o, C, ScanStart)
  BY <1>2, <1>4, <1>5, <1>6, <1>7, Zenon DEF Opening
<1>9. Formed(t, 0)
  BY <1>3 DEF Formed
<1> QED
  BY <1>8, <1>9, ScanStarts, Zenon DEF Reads

LEMMA ReadsStep ==
    ASSUME NEW t, NEW n \in Nat \ {0}, t[n] \in Line, NEW e \in States, Reads(t, n - 1, e)
    PROVE  Reads(t, n, Scan(e, t[n]))
<1>1. PICK r \in States : r = Scan(e, t[n])
  BY ScanTurn, Zenon
<1>2. Turn(e, t[n], r) /\ r.n = e.n + 1
  BY <1>1, ScanTurn, Zenon
<1>3. r.n = n
  <2>1. e.n = n - 1
    BY DEF Reads
  <2> QED
    BY <1>2, <2>1
<1>4. CASE e.error
  <2>1. r.error
    BY <1>2, <1>4, Zenon DEF Turn
  <2>2. ~Formed(t, n - 1)
    BY <1>4, Zenon DEF Reads
  <2>3. ~Formed(t, n)
    BY <2>2, FormedSteps
  <2> QED
    BY <1>1, <1>3, <2>1, <2>3, Zenon DEF Reads
<1>5. CASE ~e.error
  <2>1. Formed(t, n - 1)
    BY <1>5, Zenon DEF Reads
  <2>2. PICK K, o, B : Opening(t, n - 1, K, o, B, e)
    BY <2>1, Zenon DEF Reads
  <2>3. K \in Nat /\ K = Len(e.stack) /\ Depth(t, 1, n - 1) = K
    BY <2>2 DEF Opening
  <2>4. Depth(t, 1, n) = K + Adds(t[n])
    BY <2>3, DepthSteps
  <2>5. r.error <=> K = 0 /\ t[n].d \in {"elif", "else", "endif"}
    BY <1>2, <1>5, <2>3, Zenon DEF Turn
  <2>6. t[n].d \in {"code", "if", "elif", "else", "endif"}
    BY LineIs
  <2>7. Formed(t, n) <=> Depth(t, 1, n) >= 0 /\ (t[n].d \in {"elif", "else"} => Depth(t, 1, n) > 0)
    BY <2>1, FormedSteps
  <2>8. Formed(t, n) <=> ~(K = 0 /\ t[n].d \in {"elif", "else", "endif"})
    <3>1. /\ t[n].d = "code" \/ t[n].d \in {"elif", "else"} => Depth(t, 1, n) = K
          /\ t[n].d = "if" => Depth(t, 1, n) = K + 1
          /\ t[n].d = "endif" => Depth(t, 1, n) = K - 1
      <4>1. /\ t[n].d = "code" \/ t[n].d \in {"elif", "else"} => Adds(t[n]) = 0
            /\ t[n].d = "if" => Adds(t[n]) = 1
            /\ t[n].d = "endif" => Adds(t[n]) = -1
        BY DEF Adds
      <4> QED
        BY <2>3, <2>4, <4>1
    <3> QED
      BY <2>3, <2>6, <2>7, <3>1
  <2>9. r.error <=> ~Formed(t, n)
    BY <2>5, <2>8, Zenon
  <2>10. ASSUME Formed(t, n)
         PROVE  \E M, u, C : Opening(t, n, M, u, C, r)
    <3>1. ~r.error
      BY <2>9, <2>10, Zenon
    <3> QED
      BY <1>2, <1>5, <2>2, <3>1, OpeningStep, Zenon
  <2> QED
    BY <1>1, <1>3, <2>9, <2>10, Zenon DEF Reads
<1> QED
  BY <1>4, <1>5

LEMMA RunReads ==
    ASSUME NEW t \in Seq(Line), NEW N \in Nat, N = Len(t), NEW s, Run(t, N, s)
    PROVE  \A n \in 0..N : Reads(t, n, s[n])
<1> DEFINE good == {n \in 0..N : Reads(t, n, s[n])}
<1>1. s \in [0..N -> States] /\ s[0] = ScanStart /\ \A n \in 1..N : s[n] = Scan(s[n - 1], t[n])
  BY DEF Run
<1>2. 0 \in good
  <2>1. 0 \in 0..N
    OBVIOUS
  <2> QED
    BY <1>1, <2>1, ReadsStart
<1>3. \A n \in 1..N : n - 1 \in good => n \in good
  <2> SUFFICES ASSUME NEW n \in 1..N, Reads(t, n - 1, s[n - 1])
               PROVE  Reads(t, n, s[n])
    OBVIOUS
  <2>1. n - 1 \in 0..N /\ n \in Nat \ {0} /\ t[n] \in Line
    OBVIOUS
  <2>2. s[n - 1] \in States
    BY <1>1, <2>1
  <2>3. Reads(t, n, Scan(s[n - 1], t[n]))
    BY <2>1, <2>2, ReadsStep, Zenon
  <2> QED
    BY <1>1, <2>3
<1>4. \A n \in 0..N : n \in good
  <2> HIDE DEF good
  <2> QED
    BY <1>2, <1>3, UpTo
<1> QED
  BY <1>4

-----------------------------------------------------------------------------
(* The texts that are refused.                                             *)

LEMMA RefusedRight ==
    ASSUME NEW t \in Seq(Line)
    PROVE  MaskRefuses(t) <=> ~WellFormed(t) \/ Depth(t, 1, Len(t)) # 0
<1>1. PICK N \in Nat : N = Len(t) /\ DOMAIN t = 1..N
  OBVIOUS
<1>2. PICK s : Run(t, N, s)
  BY <1>1, ScanSteps, Zenon
<1>3. PICK e \in States : e = Scanned(t) /\ Reads(t, N, e)
  <2>1. N \in 0..N
    OBVIOUS
  <2>2. \A n \in 0..N : Reads(t, n, s[n])
    BY <1>1, <1>2, RunReads, Zenon
  <2>3. s[N] \in States /\ s[N] = Scanned(t)
    BY <1>2, <2>1 DEF Run
  <2> QED
    BY <2>1, <2>2, <2>3
<1>4. WellFormed(t) <=> Formed(t, N)
  BY <1>1 DEF WellFormed, Formed
<1>5. MaskRefuses(t) <=> e.error \/ e.stack # <<>>
  BY <1>3, Zenon DEF MaskRefuses
<1>6. CASE ~Formed(t, N)
  <2>1. e.error
    BY <1>3, <1>6, Zenon DEF Reads
  <2> QED
    BY <1>4, <1>5, <1>6, <2>1, Zenon
<1>7. CASE Formed(t, N)
  <2>1. ~e.error
    BY <1>3, <1>7, Zenon DEF Reads
  <2>2. PICK K, o, C : Opening(t, N, K, o, C, e)
    BY <1>3, <1>7, Zenon DEF Reads
  <2>3. Depth(t, 1, N) = Len(e.stack)
    BY <2>2 DEF Opening
  <2>4. e.stack # <<>> <=> Len(e.stack) # 0
    BY StateFields, EmptySeq
  <2> QED
    BY <1>1, <1>4, <1>5, <1>7, <2>1, <2>3, <2>4, Zenon
<1> QED
  BY <1>6, <1>7

-----------------------------------------------------------------------------
(* The lines that are masked.                                              *)

Masks(t, n, s) ==
    /\ s[n].masked \subseteq 1..n
    /\ \A j \in 1..n : j \in s[n].masked <=> ~(s[j].possible \/ t[j].d = "endif")

LEMMA RunMasks ==
    ASSUME NEW t \in Seq(Line), NEW N \in Nat, N = Len(t), NEW s, Run(t, N, s)
    PROVE  \A n \in 0..N : Masks(t, n, s)
<1> DEFINE good == {n \in 0..N : Masks(t, n, s)}
<1>1. s \in [0..N -> States] /\ s[0] = ScanStart /\ \A n \in 1..N : s[n] = Scan(s[n - 1], t[n])
  BY DEF Run
<1>2. 0 \in good
  <2>1. 0 \in 0..N /\ 1..0 = {}
    OBVIOUS
  <2> QED
    BY <1>1, <2>1, ScanStarts, Zenon DEF Masks
<1>3. \A n \in 1..N : n - 1 \in good => n \in good
  <2> SUFFICES ASSUME NEW n \in 1..N, Masks(t, n - 1, s)
               PROVE  Masks(t, n, s)
    OBVIOUS
  <2>1. n - 1 \in 0..N /\ t[n] \in Line
    OBVIOUS
  <2>2. PICK e \in States : e = s[n - 1]
    BY <1>1, <2>1
  <2>3. PICK r : r = s[n]
    OBVIOUS
  <2>4. r.masked = IF r.possible \/ t[n].d = "endif" THEN e.masked ELSE e.masked \cup {e.n + 1}
    <3>1. r = Scan(e, t[n])
      BY <1>1, <2>2, <2>3
    <3> QED
      BY <2>1, <3>1, ScanTurn, Zenon
  <2>5. e.n + 1 = n
    <3>1. Reads(t, n - 1, s[n - 1])
      BY <2>1, RunReads, Zenon
    <3>2. e.n = n - 1
      BY <2>2, <3>1 DEF Reads
    <3> QED
      BY <3>2
  <2>6. \A j \in 1..n : j \in 1..(n - 1) \/ j = n
    OBVIOUS
  <2>7. 1..(n - 1) \subseteq 1..n /\ n \in 1..n /\ n \notin 1..(n - 1)
    OBVIOUS
  <2>8. /\ e.masked \subseteq 1..(n - 1)
        /\ \A j \in 1..(n - 1) : j \in e.masked <=> ~(s[j].possible \/ t[j].d = "endif")
    BY <2>2, Zenon DEF Masks
  <2>9. CASE r.possible \/ t[n].d = "endif"
    <3>1. r.masked = e.masked
      BY <2>4, <2>9, Zenon
    <3> QED
      BY <2>3, <2>6, <2>7, <2>8, <2>9, <3>1, Zenon DEF Masks
  <2>10. CASE ~(r.possible \/ t[n].d = "endif")
    <3>1. r.masked = e.masked \cup {n}
      BY <2>4, <2>5, <2>10, Zenon
    <3>2. \A j \in 1..n : j \in r.masked <=> ~(s[j].possible \/ t[j].d = "endif")
      BY <2>3, <2>6, <2>7, <2>8, <2>10, <3>1, Zenon
    <3>3. r.masked \subseteq 1..n
      BY <2>7, <2>8, <3>1, Zenon
    <3> QED
      BY <2>3, <3>2, <3>3, Zenon DEF Masks
  <2> QED
    BY <2>9, <2>10
<1>4. \A n \in 0..N : n \in good
  <2> HIDE DEF good
  <2> QED
    BY <1>2, <1>3, UpTo
<1> QED
  BY <1>4

LEMMA Greatest ==
    ASSUME NEW N \in Nat, NEW S, S \subseteq 0..N, S # {}
    PROVE  \E x \in S : \A y \in S : y <= x
<1> DEFINE Has(n) == \A R \in SUBSET (0..n) : R # {} => \E x \in R : \A y \in R : y <= x
           good == {n \in 0..N : Has(n)}
<1>1. 0 \in good
  <2>1. 0..0 = {0} /\ 0 \in 0..N
    OBVIOUS
  <2>2. Has(0)
    <3> SUFFICES ASSUME NEW R \in SUBSET (0..0), R # {}
                 PROVE  \E x \in R : \A y \in R : y <= x
      OBVIOUS
    <3>1. \A x \in R : x = 0
      BY <2>1
    <3>2. PICK x : x \in R
      OBVIOUS
    <3>3. 0 <= 0
      OBVIOUS
    <3> QED
      BY <3>1, <3>2, <3>3
  <2> HIDE DEF Has
  <2> QED
    BY <2>1, <2>2
<1>2. \A n \in 1..N : n - 1 \in good => n \in good
  <2> SUFFICES ASSUME NEW n \in 1..N, Has(n - 1)
               PROVE  Has(n)
    <3>1. 1..N \subseteq 0..N
      OBVIOUS
    <3> HIDE DEF Has
    <3> QED
      BY <3>1
  <2> SUFFICES ASSUME NEW R \in SUBSET (0..n), R # {}
               PROVE  \E x \in R : \A y \in R : y <= x
    OBVIOUS
  <2>1. \A y \in 0..n : y <= n /\ (y \in 0..(n - 1) \/ y = n)
    OBVIOUS
  <2>2. CASE n \in R
    BY <2>1, <2>2
  <2>3. CASE n \notin R
    <3>1. R \in SUBSET (0..(n - 1))
      BY <2>1, <2>3
    <3> QED
      BY <3>1
  <2> QED
    BY <2>2, <2>3
<1>3. Has(N)
  <2>1. N \in 0..N
    OBVIOUS
  <2>2. \A n \in 0..N : n \in good
    <3> HIDE DEF good
    <3> QED
      BY <1>1, <1>2, UpTo
  <2> HIDE DEF Has
  <2> QED
    BY <2>1, <2>2
<1> QED
  BY <1>3

\* A line that starts a branch, and what a value of the unknown conditions
\* makes of it.
LEMMA HoldsIs ==
    ASSUME NEW t \in Seq(Line), NEW j \in DOMAIN t, t[j].d \in {"if", "elif", "else"}, NEW val
    PROVE  /\ Certain(t[j]) => Holds(t, j, val)
           /\ ~May(t[j]) => ~Holds(t, j, val)
           /\ ~Certain(t[j]) /\ May(t[j]) => j \in Unknown(t) /\ (Holds(t, j, val) <=> val[j])
<1>1. PICK l \in Line : l = t[j]
  OBVIOUS
<1>2. l.d = "else" \/ l.v \in {"0", "1", "target", "?"}
  BY <1>1 DEF Line
<1>3. l.d = "else" => l.v = "-"
  BY DEF Line
<1>4. CASE l.d = "else"
  <2>1. l.v # "1" /\ l.v # "0"
    BY <1>3, <1>4
  <2>2. Holds(t, j, val)
    BY <1>1, <1>4, <2>1 DEF Holds
  <2> QED
    BY <1>1, <1>4, <2>2 DEF Certain, May
<1>5. CASE l.d # "else" /\ l.v = "1"
  <2>1. Holds(t, j, val)
    BY <1>1, <1>5 DEF Holds
  <2> QED
    BY <1>1, <1>5, <2>1 DEF Certain, May
<1>6. CASE l.d # "else" /\ l.v = "0"
  <2>1. ~Holds(t, j, val)
    BY <1>1, <1>6 DEF Holds
  <2> QED
    BY <1>1, <1>6, <2>1 DEF Certain, May
<1>7. CASE l.d # "else" /\ l.v \in {"target", "?"}
  <2>1. Holds(t, j, val) <=> val[j]
    BY <1>1, <1>7 DEF Holds
  <2>2. j \in Unknown(t)
    BY <1>1, <1>7 DEF Unknown
  <2> QED
    BY <1>1, <1>7, <2>1, <2>2 DEF Certain, May
<1> QED
  BY <1>2, <1>4, <1>5, <1>6, <1>7

\* The preprocessor can keep line n exactly when every conditional around it
\* is live: one value of the unknown conditions makes the branch it is in the
\* first one that holds, in all of them, because no line is a branch of two.
LEMMA KeptIs ==
    ASSUME NEW t \in Seq(Line), NEW n \in DOMAIN t,
           NEW K, NEW o, NEW C, NEW e, Opening(t, n - 1, K, o, C, e)
    PROVE  (\E val \in [Unknown(t) -> BOOLEAN] : Kept(t, n, val)) <=>
                \A k \in 1..K : Live(t, C[k])
<1>1. PICK N \in Nat : N = Len(t) /\ DOMAIN t = 1..N
  OBVIOUS
<1>2. n \in 1..N /\ n - 1 \in Nat /\ (n - 1) + 1 = n /\ 1..(n - 1) \subseteq 1..N
  BY <1>1
<1>3. /\ o \in [1..K -> 1..(n - 1)]
      /\ \A i \in 1..(n - 1) : Within(t, i, n) <=> \E k \in 1..K : o[k] = i
  BY <1>2, Zenon DEF Opening, Lists
<1>4. \A k, m \in 1..K : k # m => C[k] \cap C[m] = {}
  BY DEF Opening, Tells
<1>5. \A k \in 1..K : /\ o[k] \in 1..(n - 1) /\ Within(t, o[k], n)
                      /\ C[k] = Branches(t, o[k], n - 1)
  <2>1. C = [k \in 1..K |-> Branches(t, o[k], n - 1)]
    BY DEF Opening
  <2> QED
    BY <1>3, <2>1
<1>6. ASSUME NEW k \in 1..K
      PROVE  /\ C[k] \subseteq DOMAIN t /\ C[k] \subseteq Nat
             /\ \A j \in C[k] : t[j].d \in {"if", "elif", "else"}
             /\ Max(C[k]) \in C[k] /\ \A j \in C[k] : j <= Max(C[k])
  <2>1. PICK i \in 1..(n - 1) : i = o[k] /\ Within(t, i, n) /\ C[k] = Branches(t, i, n - 1)
    BY <1>5
  <2>2. i..(n - 1) \subseteq 1..(n - 1) /\ i \in i..(n - 1) /\ 1..(n - 1) \subseteq 0..(n - 1)
    BY <1>2
  <2>3. C[k] \subseteq 1..(n - 1) /\ i \in C[k]
    BY <2>1, <2>2 DEF Branches
  <2>4. \A j \in C[k] : t[j].d \in {"if", "elif", "else"}
    <3>1. t[i].d = "if"
      BY <2>1 DEF Within, Opens
    <3> QED
      BY <2>1, <3>1 DEF Branches
  <2>5. PICK S : S = C[k]
    OBVIOUS
  <2>6. \E x \in S : \A y \in S : y <= x
    <3>1. S \subseteq 0..(n - 1) /\ S # {}
      BY <2>2, <2>3, <2>5
    <3> QED
      BY <1>2, <3>1, Greatest, Zenon
  <2>7. S \subseteq Nat
    BY <2>3, <2>5
  <2>8. \E x \in S : \A y \in S : x >= y
    BY <2>6, <2>7
  <2>9. Max(S) \in S /\ \A y \in S : Max(S) >= y
    BY <2>8, Zenon DEF Max
  <2>10. \A y \in S : y <= Max(S)
    BY <2>7, <2>9
  <2> QED
    BY <1>1, <1>2, <2>3, <2>4, <2>5, <2>7, <2>9, <2>10
<1>7. \A k \in 1..K : Live(t, C[k]) <=>
            May(t[Max(C[k])]) /\ \A j \in C[k] \ {Max(C[k])} : ~Certain(t[j])
  <2> SUFFICES ASSUME NEW k \in 1..K
               PROVE  Live(t, C[k]) <=>
                        May(t[Max(C[k])]) /\ \A j \in C[k] \ {Max(C[k])} : ~Certain(t[j])
    OBVIOUS
  <2>1. PICK x : x = Max(C[k])
    OBVIOUS
  <2>2. x \in C[k] /\ C[k] \subseteq Nat /\ \A j \in C[k] : j <= x
    BY <1>6, <2>1
  <2>3. \A y \in C[k] : (\A j \in C[k] : j <= y) => y = x
    BY <2>2
  <2> QED
    BY <2>1, <2>2, <2>3, Zenon DEF Live
<1>8. \A val : Kept(t, n, val) <=>
            \A k \in 1..K : /\ Holds(t, Max(C[k]), val)
                            /\ \A j \in C[k] \ {Max(C[k])} : ~Holds(t, j, val)
  <2>1. TAKE val
  <2>2. Kept(t, n, val) <=>
            \A i \in 1..(n - 1) : Within(t, i, n) =>
                /\ Holds(t, Max(Branches(t, i, n - 1)), val)
                /\ \A j \in Branches(t, i, n - 1) \ {Max(Branches(t, i, n - 1))} : ~Holds(t, j, val)
    BY Zenon DEF Kept
  <2> QED
    BY <1>3, <1>5, <2>2, Zenon
<1>9. ASSUME NEW val \in [Unknown(t) -> BOOLEAN], Kept(t, n, val), NEW k \in 1..K
      PROVE  Live(t, C[k])
  <2>1. PICK x : x = Max(C[k])
    OBVIOUS
  <2>2. Holds(t, x, val) /\ \A j \in C[k] \ {x} : ~Holds(t, j, val)
    BY <1>8, <1>9, <2>1, Zenon
  <2>3. \A j \in C[k] : /\ j \in DOMAIN t /\ t[j].d \in {"if", "elif", "else"}
    BY <1>6, Zenon
  <2>4. x \in C[k]
    BY <1>6, <2>1
  <2>5. \A j \in C[k] : (Certain(t[j]) => Holds(t, j, val)) /\ (~May(t[j]) => ~Holds(t, j, val))
    BY <2>3, HoldsIs, Zenon
  <2> QED
    BY <1>7, <2>1, <2>2, <2>4, <2>5, Zenon
<1>10. ASSUME \A k \in 1..K : Live(t, C[k])
       PROVE  \E val \in [Unknown(t) -> BOOLEAN] : Kept(t, n, val)
  <2>1. PICK val : val = [j \in Unknown(t) |-> \E k \in 1..K : j = Max(C[k])]
    OBVIOUS
  <2>2. val \in [Unknown(t) -> BOOLEAN]
    BY <2>1, Zenon
  <2>3. \A j \in Unknown(t) : val[j] <=> \E k \in 1..K : j = Max(C[k])
    BY <2>1, Zenon
  <2>4. ASSUME NEW k \in 1..K
        PROVE  /\ Holds(t, Max(C[k]), val)
               /\ \A j \in C[k] \ {Max(C[k])} : ~Holds(t, j, val)
    <3>1. PICK x : x = Max(C[k])
      OBVIOUS
    <3>2. x \in C[k] /\ \A j \in C[k] : j \in DOMAIN t /\ t[j].d \in {"if", "elif", "else"}
      BY <1>6, <3>1, Zenon
    <3>3. May(t[x]) /\ \A j \in C[k] \ {x} : ~Certain(t[j])
      BY <1>7, <1>10, <3>1, Zenon
    <3>4. \A j \in C[k] :
            /\ Certain(t[j]) => Holds(t, j, val)
            /\ ~May(t[j]) => ~Holds(t, j, val)
            /\ ~Certain(t[j]) /\ May(t[j]) => j \in Unknown(t) /\ (Holds(t, j, val) <=> val[j])
      BY <3>2, HoldsIs, Zenon
    <3>5. Holds(t, x, val)
      BY <2>3, <3>1, <3>2, <3>3, <3>4, Zenon
    <3>6. ASSUME NEW j \in C[k], j # x
          PROVE  ~Holds(t, j, val)
      <4>1. \A m \in 1..K : j # Max(C[m])
        <5>1. ASSUME NEW m \in 1..K, j = Max(C[m])
              PROVE  FALSE
          <6>1. j \in C[m]
            BY <1>6, <5>1
          <6>2. m # k
            BY <3>1, <3>6, <5>1
          <6> QED
            BY <1>4, <3>6, <6>1, <6>2
        <5> QED
          BY <5>1
      <4>2. ~Certain(t[j])
        BY <3>3, <3>6, Zenon
      <4> QED
        BY <2>3, <3>4, <3>6, <4>1, <4>2, Zenon
    <3> QED
      BY <3>1, <3>5, <3>6, Zenon
  <2>5. Kept(t, n, val)
    BY <1>8, <2>4, Zenon
  <2> QED
    BY <2>2, <2>5, Zenon
<1> QED
  BY <1>9, <1>10, Zenon

LEMMA MaskRight ==
    ASSUME NEW t \in Seq(Line), WellFormed(t), NEW n \in DOMAIN t, t[n].d = "code"
    PROVE  n \in Scanned(t).masked <=> \A val \in [Unknown(t) -> BOOLEAN] : ~Kept(t, n, val)
<1>1. PICK N \in Nat : N = Len(t) /\ DOMAIN t = 1..N
  OBVIOUS
<1>2. PICK s : Run(t, N, s)
  BY <1>1, ScanSteps, Zenon
<1>3. n \in 1..N /\ N \in 0..N /\ n \in 0..N /\ n - 1 \in 0..N /\ n \in Nat \ {0}
  BY <1>1
<1>4. n \in Scanned(t).masked <=> ~s[n].possible
  <2>1. Masks(t, N, s) /\ Scanned(t) = s[N]
    BY <1>1, <1>2, <1>3, RunMasks DEF Run
  <2>2. t[n].d # "endif"
    OBVIOUS
  <2> QED
    BY <1>3, <2>1, <2>2, Zenon DEF Masks
<1>5. Formed(t, n - 1) /\ Formed(t, n)
  <2>1. 1..n \subseteq 1..N /\ 1..(n - 1) \subseteq 1..N
    BY <1>3
  <2> QED
    BY <1>1, <2>1 DEF WellFormed, Formed
<1>6. PICK e \in States : e = s[n - 1] /\ Reads(t, n - 1, e)
  <2>1. s[n - 1] \in States
    BY <1>2, <1>3 DEF Run
  <2>2. Reads(t, n - 1, s[n - 1])
    BY <1>1, <1>2, <1>3, RunReads
  <2> QED
    BY <2>1, <2>2
<1>7. ~e.error
  BY <1>5, <1>6, Zenon DEF Reads
<1>8. PICK K, o, C : Opening(t, n - 1, K, o, C, e)
  BY <1>5, <1>6, Zenon DEF Reads
<1>9. s[n].possible <=> e.possible
  <2>1. s[n] = Scan(e, t[n]) /\ t[n] \in Line
    BY <1>1, <1>2, <1>3, <1>6 DEF Run
  <2>2. Turn(e, t[n], s[n])
    BY <2>1, ScanTurn, Zenon
  <2> QED
    BY <1>7, <2>2, Zenon DEF Turn
<1>10. e.possible <=> \A k \in 1..K : Live(t, C[k])
  BY <1>8, Zenon DEF Opening, Tells
<1>11. (\E val \in [Unknown(t) -> BOOLEAN] : Kept(t, n, val)) <=> \A k \in 1..K : Live(t, C[k])
  BY <1>8, KeptIs, Zenon
<1> QED
  BY <1>4, <1>9, <1>10, <1>11, Zenon

-----------------------------------------------------------------------------
(* A turn of the scanner for the first branch.                             *)

BStates == [n : Nat, nested : Int, end : Nat, state : {"in", "closed", "refused"}]

\* What a line does while the conditional is open, one conjunct per kind.
BranchTurn(e, l, r) ==
    /\ e.state # "in" => r = e
    /\ e.state = "in" =>
        /\ r.state # "refused" => r.n = e.n + 1
        /\ l.d = "if" => r.nested = e.nested + 1 /\ r.end = e.end /\ r.state = "in"
        /\ l.d = "endif" => /\ r.nested = e.nested - 1 /\ r.end = e.end
                            /\ r.state = IF e.nested = 1 THEN "closed" ELSE "in"
        /\ l.d = "else" /\ e.nested = 1 =>
            IF e.end # 0 THEN r.state = "refused"
            ELSE r.nested = e.nested /\ r.end = e.n + 1 /\ r.state = "in"
        /\ l.d = "elif" /\ e.nested = 1 => r.state = "refused"
        /\ l.d = "code" \/ (l.d \in {"elif", "else"} /\ e.nested # 1) =>
            r.nested = e.nested /\ r.end = e.end /\ r.state = "in"

LEMMA BranchScanTurn ==
    ASSUME NEW e \in BStates, NEW l \in Line
    PROVE  BranchScan(e, l) \in BStates /\ BranchTurn(e, l, BranchScan(e, l))
<1>1. l.d \in {"code", "if", "elif", "else", "endif"}
  BY LineIs
<1>2. e.n \in Nat /\ e.nested \in Int /\ e.end \in Nat /\ e.state \in {"in", "closed", "refused"}
  BY DEF BStates
<1>3. PICK r : r = BranchScan(e, l)
  OBVIOUS
<1>4. CASE e.state # "in"
  BY <1>4 DEF BranchScan, BranchTurn
<1>5. CASE e.state = "in" /\ l.d = "if"
  <2>1. r = [e EXCEPT !.n = @ + 1, !.nested = @ + 1]
    BY <1>3, <1>5 DEF BranchScan, Opens
  <2>2. r \in BStates
    <3>1. e.n + 1 \in Nat /\ e.nested + 1 \in Int /\ e.nested - 1 \in Int
      BY <1>2
    <3>2. \A x \in Nat, y \in Int, z \in Nat, w \in {"in", "closed", "refused"} :
            [n |-> x, nested |-> y, end |-> z, state |-> w] \in BStates
      BY DEF BStates
    <3>3. e = [n |-> e.n, nested |-> e.nested, end |-> e.end, state |-> e.state]
      BY DEF BStates
    <3>4. r = [n |-> r.n, nested |-> r.nested, end |-> r.end, state |-> r.state]
      BY <2>1, <3>3
    <3>5. r.n \in Nat /\ r.nested \in Int /\ r.end \in Nat /\ r.state \in {"in", "closed", "refused"}
      BY <1>2, <2>1, <3>1 DEF BStates
    <3> QED
      BY <3>2, <3>4, <3>5
  <2>3. r.n = e.n + 1 /\ r.nested = e.nested + 1 /\ r.end = e.end /\ r.state = e.state
    BY <1>2, <2>1 DEF BStates
  <2>4. l.d # "endif" /\ l.d # "else" /\ l.d # "elif" /\ l.d # "code"
    BY <1>5
  <2> QED
    BY <1>2, <1>3, <1>5, <2>2, <2>3, <2>4 DEF BranchTurn
<1>6. CASE e.state = "in" /\ l.d = "endif"
  <2>1. r = [e EXCEPT !.n = @ + 1, !.nested = @ - 1,
                      !.state = IF e.nested = 1 THEN "closed" ELSE "in"]
    BY <1>3, <1>6 DEF BranchScan, Opens
  <2>2. r \in BStates
    <3>1. e.n + 1 \in Nat /\ e.nested + 1 \in Int /\ e.nested - 1 \in Int
      BY <1>2
    <3>2. \A x \in Nat, y \in Int, z \in Nat, w \in {"in", "closed", "refused"} :
            [n |-> x, nested |-> y, end |-> z, state |-> w] \in BStates
      BY DEF BStates
    <3>3. e = [n |-> e.n, nested |-> e.nested, end |-> e.end, state |-> e.state]
      BY DEF BStates
    <3>4. r = [n |-> r.n, nested |-> r.nested, end |-> r.end, state |-> r.state]
      BY <2>1, <3>3
    <3>5. r.n \in Nat /\ r.nested \in Int /\ r.end \in Nat /\ r.state \in {"in", "closed", "refused"}
      BY <1>2, <2>1, <3>1 DEF BStates
    <3> QED
      BY <3>2, <3>4, <3>5
  <2>3. /\ r.n = e.n + 1 /\ r.nested = e.nested - 1 /\ r.end = e.end
        /\ r.state = IF e.nested = 1 THEN "closed" ELSE "in"
    BY <1>2, <2>1 DEF BStates
  <2>4. l.d # "if" /\ l.d # "else" /\ l.d # "elif" /\ l.d # "code"
    BY <1>6
  <2> QED
    BY <1>2, <1>3, <1>6, <2>2, <2>3, <2>4 DEF BranchTurn
<1>7. CASE e.state = "in" /\ l.d = "else" /\ e.nested = 1
  <2>1. r = IF e.end # 0 THEN [e EXCEPT !.state = "refused"]
            ELSE [e EXCEPT !.n = @ + 1, !.end = e.n + 1]
    BY <1>3, <1>7 DEF BranchScan, Opens
  <2>2. r \in BStates
    <3>1. e.n + 1 \in Nat /\ e.nested + 1 \in Int /\ e.nested - 1 \in Int
      BY <1>2
    <3>2. \A x \in Nat, y \in Int, z \in Nat, w \in {"in", "closed", "refused"} :
            [n |-> x, nested |-> y, end |-> z, state |-> w] \in BStates
      BY DEF BStates
    <3>3. e = [n |-> e.n, nested |-> e.nested, end |-> e.end, state |-> e.state]
      BY DEF BStates
    <3>4. r = [n |-> r.n, nested |-> r.nested, end |-> r.end, state |-> r.state]
      BY <2>1, <3>3
    <3>5. r.n \in Nat /\ r.nested \in Int /\ r.end \in Nat /\ r.state \in {"in", "closed", "refused"}
      BY <1>2, <2>1, <3>1 DEF BStates
    <3> QED
      BY <3>2, <3>4, <3>5
  <2>3. IF e.end # 0 THEN r.state = "refused"
        ELSE r.n = e.n + 1 /\ r.nested = e.nested /\ r.end = e.n + 1 /\ r.state = e.state
    BY <1>2, <2>1 DEF BStates
  <2>4. l.d # "if" /\ l.d # "endif" /\ l.d # "elif" /\ l.d # "code"
    BY <1>7
  <2> QED
    BY <1>2, <1>3, <1>7, <2>2, <2>3, <2>4 DEF BranchTurn
<1>8. CASE e.state = "in" /\ l.d = "elif" /\ e.nested = 1
  <2>1. r = [e EXCEPT !.state = "refused"]
    BY <1>3, <1>8 DEF BranchScan, Opens
  <2> QED
    BY <1>2, <1>3, <1>8, <2>1 DEF BStates, BranchTurn
<1>9. CASE e.state = "in" /\ (l.d = "code" \/ (l.d \in {"elif", "else"} /\ e.nested # 1))
  <2>1. r = [e EXCEPT !.n = @ + 1]
    BY <1>3, <1>9 DEF BranchScan, Opens
  <2> QED
    BY <1>2, <1>3, <1>9, <2>1 DEF BStates, BranchTurn
<1> QED
  BY <1>1, <1>4, <1>5, <1>6, <1>7, <1>8, <1>9

BranchStart(i) == [n |-> i, nested |-> 1, end |-> 0, state |-> "in"]

\* s holds what the loop has after every number of lines from line i on.
BranchScanning(t, i, s) ==
    s = [n \in 0..Len(t) - i |-> IF n = 0 THEN BranchStart(i) ELSE BranchScan(s[n - 1], t[i + n])]

LEMMA BranchScannedIs ==
    ASSUME NEW t, NEW i
    PROVE  BranchScanned(t, i) = (CHOOSE s : BranchScanning(t, i, s))[Len(t) - i]
BY Zenon DEF BranchScanned, BranchScanning, BranchStart

BranchRun(t, i, N, s) ==
    /\ s \in [0..N -> BStates] /\ s[0] = BranchStart(i) /\ BranchScanned(t, i) = s[N]
    /\ \A n \in 1..N : s[n] = BranchScan(s[n - 1], t[i + n])

LEMMA BranchScanSteps ==
    ASSUME NEW t \in Seq(Line), NEW i \in 1..Len(t)
    PROVE  \E s : BranchRun(t, i, Len(t) - i, s)
<1>1. PICK N \in Nat : N = Len(t) - i
  OBVIOUS
<1>2. \A n \in 1..N : t[i + n] \in Line
  BY <1>1
<1>3. PICK F : F = [n \in 1..N |-> [w \in BStates |-> BranchScan(w, t[i + n])]]
  OBVIOUS
<1>4. F \in Turns(BStates, N)
  <2>1. \A n \in 1..N : \A w \in BStates : BranchScan(w, t[i + n]) \in BStates
    BY <1>2, BranchScanTurn
  <2> QED
    BY <1>3, <2>1 DEF Turns
<1>5. BranchStart(i) \in BStates
  BY DEF BranchStart, BStates
<1>6. PICK r : Course(BStates, BranchStart(i), N, F, r)
  BY <1>4, <1>5, Iterates, Zenon
<1>7. r \in [0..N -> BStates] /\ r[0] = BranchStart(i)
  BY <1>6 DEF Course
<1>8. \A n \in 1..N : r[n] = BranchScan(r[n - 1], t[i + n])
  <2> SUFFICES ASSUME NEW n \in 1..N
               PROVE  r[n] = BranchScan(r[n - 1], t[i + n])
    OBVIOUS
  <2>1. n - 1 \in 0..N
    OBVIOUS
  <2>2. PICK w \in BStates : w = r[n - 1]
    BY <1>7, <2>1
  <2>3. F[n][w] = BranchScan(w, t[i + n])
    BY <1>3
  <2> QED
    BY <1>6, <2>2, <2>3 DEF Course
<1>9. BranchScanning(t, i, r)
  <2>1. r = [n \in 0..N |-> r[n]]
    BY <1>7
  <2>2. \A n \in 0..N : n # 0 => n \in 1..N
    OBVIOUS
  <2>3. \A n \in 0..N : r[n] = IF n = 0 THEN BranchStart(i) ELSE BranchScan(r[n - 1], t[i + n])
    BY <1>7, <1>8, <2>2
  <2> QED
    BY <1>1, <2>1, <2>3, Zenon DEF BranchScanning
<1>10. PICK s : s = (CHOOSE h : BranchScanning(t, i, h))
  OBVIOUS
<1>11. BranchScanning(t, i, s) /\ BranchScanned(t, i) = s[N]
  BY <1>1, <1>9, <1>10, BranchScannedIs, Zenon
<1>12. s = [n \in 0..N |-> IF n = 0 THEN BranchStart(i) ELSE BranchScan(s[n - 1], t[i + n])]
  BY <1>1, <1>11, Zenon DEF BranchScanning
<1>13. s[0] = BranchStart(i)
  <2>1. 0 \in 0..N
    OBVIOUS
  <2> QED
    BY <1>12, <2>1, Zenon
<1>14. \A n \in 1..N : s[n] = BranchScan(s[n - 1], t[i + n])
  <2> SUFFICES ASSUME NEW n \in 1..N
               PROVE  s[n] = BranchScan(s[n - 1], t[i + n])
    OBVIOUS
  <2>1. n \in 0..N /\ n # 0
    OBVIOUS
  <2> QED
    BY <1>12, <2>1, Zenon
<1>15. \A n \in 0..N : s[n] \in BStates
  <2> DEFINE good == {n \in 0..N : s[n] \in BStates}
  <2>1. 0 \in good
    BY <1>5, <1>13
  <2>2. \A n \in 1..N : n - 1 \in good => n \in good
    <3> SUFFICES ASSUME NEW n \in 1..N, s[n - 1] \in BStates
                 PROVE  s[n] \in BStates
      OBVIOUS
    <3> QED
      BY <1>2, <1>14, BranchScanTurn
  <2>3. \A n \in 0..N : n \in good
    <3> HIDE DEF good
    <3> QED
      BY <2>1, <2>2, UpTo
  <2> QED
    BY <2>3
<1>16. s \in [0..N -> BStates]
  <2>1. s = [n \in 0..N |-> s[n]]
    BY <1>12
  <2> QED
    BY <1>15, <2>1
<1> QED
  BY <1>1, <1>11, <1>13, <1>14, <1>16 DEF BranchRun

\* The branches of the conditional at i up to line m, if x is what end holds.
FirstTwo(t, i, m, x) ==
    IF x = 0 THEN Branches(t, i, m) = {i} ELSE x \in (i + 1)..m /\ Branches(t, i, m) = {i, x}

\* What the state e after line m says of the conditional opened at i.
Follows(t, i, m, e) ==
    /\ e.state = "in" =>
        /\ e.n = m /\ e.nested = Depth(t, i, m) /\ Depth(t, i, m) > 0 /\ Within(t, i, m + 1)
        /\ FirstTwo(t, i, m, e.end)
    /\ e.state = "closed" => ~Within(t, i, m + 1) /\ FirstTwo(t, i, m, e.end)

LEMMA FollowsStart ==
    ASSUME NEW t \in Seq(Line), NEW i \in 1..Len(t), Opens(t[i])
    PROVE  Follows(t, i, i, BranchStart(i))
<1>1. Depth(t, i, i) = 1
  <2>1. i \in Nat \ {0} /\ i \in Nat /\ i >= i /\ 0 + 1 = 1
    OBVIOUS
  <2>2. Adds(t[i]) = 1
    BY DEF Opens, Adds
  <2>3. Depth(t, i, i) = Depth(t, i, i - 1) + Adds(t[i]) /\ Depth(t, i, i - 1) = 0
    BY <2>1, DepthSteps, DepthStart
  <2> QED
    BY <2>1, <2>2, <2>3
<1>2. i \in Nat \ {0} /\ i \in 1..i
  OBVIOUS
<1>3. Within(t, i, i + 1) /\ Branches(t, i, i) = {i}
  BY <1>2, WithinSteps, BranchSteps
<1> QED
  BY <1>1, <1>3 DEF Follows, BranchStart, FirstTwo

LEMMA FollowsStep ==
    ASSUME NEW t \in Seq(Line), NEW i \in 1..Len(t), NEW m \in (i + 1)..Len(t),
           NEW e \in BStates, Follows(t, i, m - 1, e)
    PROVE  Follows(t, i, m, BranchScan(e, t[m]))
<1>1. PICK r \in BStates : r = BranchScan(e, t[m]) /\ BranchTurn(e, t[m], r)
  BY BranchScanTurn
<1>2. m \in Nat \ {0} /\ i \in 1..m /\ i # m /\ i \in Nat \ {0} /\ m >= i /\ m - 1 \in Nat /\ (m - 1) + 1 = m
  OBVIOUS
<1>3. /\ Depth(t, i, m) \in Int /\ Depth(t, i, m - 1) \in Int
      /\ Depth(t, i, m) = Depth(t, i, m - 1) + Adds(t[m])
  BY <1>2, DepthSteps
<1>4. Within(t, i, m + 1) <=> Within(t, i, m) /\ Depth(t, i, m) > 0
  BY <1>2, WithinSteps
<1>5. Branches(t, i, m) = IF Starts(t, i, m) THEN Branches(t, i, m - 1) \cup {m}
                          ELSE Branches(t, i, m - 1)
  BY <1>2, BranchSteps
<1>6. t[m].d \in {"code", "if", "elif", "else", "endif"}
  BY LineIs
<1>7. ASSUME ~Starts(t, i, m), FirstTwo(t, i, m - 1, e.end), r.end = e.end
      PROVE  FirstTwo(t, i, m, r.end)
  BY <1>5, <1>7 DEF FirstTwo
<1>8. CASE e.state = "refused"
  BY <1>1, <1>8 DEF BranchTurn, Follows
<1>9. CASE e.state = "closed"
  <2>1. r = e /\ ~Within(t, i, m) /\ FirstTwo(t, i, m - 1, e.end)
    BY <1>1, <1>2, <1>9 DEF BranchTurn, Follows
  <2>2. ~Starts(t, i, m)
    BY <2>1 DEF Starts
  <2> QED
    BY <1>1, <1>4, <1>7, <1>9, <2>1, <2>2 DEF Follows
<1>10. CASE e.state = "in"
  <2>1. /\ e.n = m - 1 /\ e.nested = Depth(t, i, m - 1) /\ Depth(t, i, m - 1) > 0
        /\ Within(t, i, m) /\ FirstTwo(t, i, m - 1, e.end)
    BY <1>2, <1>10 DEF Follows
  <2>2. r.state # "refused" => r.n = m
    BY <1>1, <1>2, <1>10, <2>1 DEF BranchTurn
  <2>3. CASE t[m].d = "if"
    <3>1. ~Starts(t, i, m)
      BY <2>3 DEF Starts
    <3>2. Depth(t, i, m) = Depth(t, i, m - 1) + 1
      BY <1>3, <2>3 DEF Adds
    <3>3. r.nested = e.nested + 1 /\ r.end = e.end /\ r.state = "in"
      BY <1>1, <1>10, <2>3 DEF BranchTurn
    <3>4. FirstTwo(t, i, m, r.end)
      BY <1>7, <2>1, <3>1, <3>3
    <3> QED
      BY <1>1, <1>3, <1>4, <2>1, <2>2, <3>2, <3>3, <3>4 DEF Follows
  <2>4. CASE t[m].d = "endif"
    <3>1. ~Starts(t, i, m)
      BY <2>4 DEF Starts
    <3>2. Depth(t, i, m) = Depth(t, i, m - 1) - 1
      BY <1>3, <2>4 DEF Adds
    <3>3. /\ r.nested = e.nested - 1 /\ r.end = e.end
          /\ r.state = IF e.nested = 1 THEN "closed" ELSE "in"
      BY <1>1, <1>10, <2>4 DEF BranchTurn
    <3>4. FirstTwo(t, i, m, r.end)
      BY <1>7, <2>1, <3>1, <3>3
    <3> QED
      BY <1>1, <1>3, <1>4, <2>1, <2>2, <3>2, <3>3, <3>4 DEF Follows
  <2>5. CASE t[m].d \in {"elif", "else"} /\ e.nested = 1
    <3>1. Depth(t, i, m) = 1
      BY <1>3, <2>1, <2>5 DEF Adds
    <3>2. Starts(t, i, m)
      BY <2>1, <2>5, <3>1 DEF Starts
    <3>3. CASE r.state = "refused"
      BY <1>1, <3>3 DEF Follows
    <3>4. CASE r.state # "refused"
      <4>1. e.end = 0 /\ r.nested = e.nested /\ r.end = m /\ r.state = "in"
        BY <1>1, <1>2, <1>10, <2>1, <2>5, <3>4 DEF BranchTurn
      <4>2. Branches(t, i, m) = {i, m} /\ m \in (i + 1)..m /\ m # 0
        BY <1>5, <2>1, <3>2, <4>1 DEF FirstTwo
      <4>3. FirstTwo(t, i, m, r.end)
        BY <4>1, <4>2 DEF FirstTwo
      <4> QED
        BY <1>1, <1>4, <2>1, <2>2, <2>5, <3>1, <4>1, <4>3 DEF Follows
    <3> QED
      BY <3>3, <3>4
  <2>6. CASE t[m].d = "code" \/ (t[m].d \in {"elif", "else"} /\ e.nested # 1)
    <3>1. Depth(t, i, m) = Depth(t, i, m - 1)
      BY <1>3, <2>6 DEF Adds
    <3>2. ~Starts(t, i, m)
      BY <2>1, <2>6, <3>1 DEF Starts
    <3>3. r.nested = e.nested /\ r.end = e.end /\ r.state = "in"
      BY <1>1, <1>10, <2>6 DEF BranchTurn
    <3>4. FirstTwo(t, i, m, r.end)
      BY <1>7, <2>1, <3>2, <3>3
    <3> QED
      BY <1>1, <1>3, <1>4, <2>1, <2>2, <3>1, <3>3, <3>4 DEF Follows
  <2> QED
    BY <1>6, <2>3, <2>4, <2>5, <2>6
<1> QED
  BY <1>8, <1>9, <1>10 DEF BStates


\* The state after the whole loop.
LEMMA BranchFollows ==
    ASSUME NEW t \in Seq(Line), NEW i \in 1..Len(t), Opens(t[i])
    PROVE  BranchScanned(t, i) \in BStates /\ Follows(t, i, Len(t), BranchScanned(t, i))
<1>1. PICK N \in Nat : N = Len(t) - i
  <2>1. Len(t) \in Nat /\ Len(t) - i \in Nat
    OBVIOUS
  <2> QED
    BY <2>1
<1>2. PICK s : BranchRun(t, i, N, s)
  BY <1>1, BranchScanSteps
<1>3. /\ \A n \in 0..N : s[n] \in BStates
      /\ s[0] = BranchStart(i) /\ BranchScanned(t, i) = s[N]
      /\ \A n \in 1..N : s[n] = BranchScan(s[n - 1], t[i + n])
  BY <1>2 DEF BranchRun
<1> DEFINE good == {n \in 0..N : Follows(t, i, i + n, s[n])}
<1>4. 0 \in good
  <2>1. i + 0 = i /\ 0 \in 0..N
    OBVIOUS
  <2> QED
    BY <1>3, <2>1, FollowsStart
<1>5. \A n \in 1..N : n - 1 \in good => n \in good
  <2> SUFFICES ASSUME NEW n \in 1..N, Follows(t, i, i + (n - 1), s[n - 1])
               PROVE  n \in 0..N /\ Follows(t, i, i + n, s[n])
    OBVIOUS
  <2>1. n \in 0..N /\ n - 1 \in 0..N /\ i + n \in (i + 1)..Len(t) /\ i + (n - 1) = (i + n) - 1
    BY <1>1
  <2>2. s[n - 1] \in BStates /\ s[n] = BranchScan(s[n - 1], t[i + n])
    BY <1>3, <2>1
  <2> QED
    BY <2>1, <2>2, FollowsStep
<1>6. \A n \in 0..N : n \in good
  <2> HIDE DEF good
  <2> QED
    BY <1>4, <1>5, UpTo
<1>7. N \in 0..N /\ i + N = Len(t)
  BY <1>1
<1> QED
  BY <1>3, <1>6, <1>7

-----------------------------------------------------------------------------
(* The first branch.                                                       *)

LEMMA DepthSums ==
    ASSUME NEW t, NEW k \in Nat \ {0}, NEW M \in Nat, M >= k - 1
    PROVE  /\ Depth(t, 1, M) \in Int /\ Depth(t, 1, k - 1) \in Int /\ Depth(t, k, M) \in Int
           /\ Depth(t, 1, M) = Depth(t, 1, k - 1) + Depth(t, k, M)
<1>1. PICK N \in Nat : N = M - (k - 1)
  OBVIOUS
<1> DEFINE Sums(n) == /\ Depth(t, 1, (k - 1) + n) \in Int /\ Depth(t, k, (k - 1) + n) \in Int
                      /\ Depth(t, 1, (k - 1) + n) = Depth(t, 1, k - 1) + Depth(t, k, (k - 1) + n)
           good == {n \in 0..N : Sums(n)}
<1>2. Depth(t, 1, k - 1) \in Int
  <2>1. CASE k = 1
    BY <2>1, DepthStart
  <2>2. CASE k # 1
    <3>1. k - 1 \in Nat /\ k - 1 >= 1 /\ 1 \in Nat \ {0}
      BY <2>2
    <3> QED
      BY <3>1, DepthSteps
  <2> QED
    BY <2>1, <2>2
<1>3. 0 \in good
  <2>1. (k - 1) + 0 = k - 1 /\ 0 \in 0..N
    OBVIOUS
  <2>2. Depth(t, k, k - 1) = 0
    BY DepthStart
  <2> QED
    BY <1>2, <2>1, <2>2
<1>4. \A n \in 1..N : n - 1 \in good => n \in good
  <2> SUFFICES ASSUME NEW n \in 1..N, Sums(n - 1)
               PROVE  n \in 0..N /\ Sums(n)
    OBVIOUS
  <2>1. PICK m \in Nat : m = (k - 1) + n
    OBVIOUS
  <2>2. m >= k /\ m >= 1 /\ 1 \in Nat \ {0} /\ (k - 1) + (n - 1) = m - 1
    BY <2>1
  <2>3. Depth(t, 1, m) \in Int /\ Depth(t, 1, m) = Depth(t, 1, m - 1) + Adds(t[m])
    BY <2>2, DepthSteps
  <2>4. Depth(t, k, m) \in Int /\ Depth(t, k, m) = Depth(t, k, m - 1) + Adds(t[m])
    BY <2>2, DepthSteps
  <2>5. Adds(t[m]) \in Int
    BY DEF Adds
  <2>6. /\ Depth(t, 1, m - 1) \in Int /\ Depth(t, k, m - 1) \in Int
        /\ Depth(t, 1, m - 1) = Depth(t, 1, k - 1) + Depth(t, k, m - 1)
    BY <2>2
  <2>7. n \in 0..N
    OBVIOUS
  <2> QED
    BY <1>2, <2>1, <2>3, <2>4, <2>5, <2>6, <2>7
<1>5. Sums(N)
  <2>1. N \in 0..N
    OBVIOUS
  <2>2. \A n \in 0..N : n \in good
    <3> HIDE DEF good
    <3> QED
      BY <1>3, <1>4, UpTo
  <2> QED
    BY <2>1, <2>2
<1>6. (k - 1) + N = M
  BY <1>1
<1> QED
  BY <1>2, <1>5, <1>6

\* A line lies in some group exactly when a conditional is open before it.
LEMMA OpenBefore ==
    ASSUME NEW t, NEW n \in Nat \ {0}, \A m \in 1..(n - 1) : Depth(t, 1, m) >= 0
    PROVE  /\ Depth(t, 1, n - 1) \in Int /\ Depth(t, 1, n - 1) >= 0
           /\ (\E k \in 1..(n - 1) : Within(t, k, n)) <=> Depth(t, 1, n - 1) > 0
<1>1. \A m \in 0..(n - 1) : Depth(t, 1, m) \in Int /\ Depth(t, 1, m) >= 0
  <2> SUFFICES ASSUME NEW m \in 0..(n - 1)
               PROVE  Depth(t, 1, m) \in Int /\ Depth(t, 1, m) >= 0
    OBVIOUS
  <2>1. CASE m = 0
    <3>1. 1 \in Nat \ {0} /\ 1 - 1 = 0
      OBVIOUS
    <3> QED
      BY <2>1, <3>1, DepthStart
  <2>2. CASE m # 0
    <3>1. m \in 1..(n - 1) /\ 1 \in Nat \ {0} /\ m \in Nat /\ m >= 1
      BY <2>2
    <3> QED
      BY <3>1, DepthSteps
  <2> QED
    BY <2>1, <2>2
<1>2. n - 1 \in 0..(n - 1)
  OBVIOUS
<1>3. ASSUME NEW k \in 1..(n - 1), Within(t, k, n)
      PROVE  Depth(t, 1, n - 1) > 0
  <2>1. n - 1 \in k..(n - 1) /\ k - 1 \in 0..(n - 1)
    OBVIOUS
  <2>2. Depth(t, k, n - 1) > 0
    BY <1>3, <2>1 DEF Within
  <2>3. Depth(t, 1, k - 1) \in Int /\ Depth(t, 1, k - 1) >= 0
    BY <1>1, <2>1
  <2>4. /\ Depth(t, k, n - 1) \in Int
        /\ Depth(t, 1, n - 1) = Depth(t, 1, k - 1) + Depth(t, k, n - 1)
    <3>1. k \in Nat \ {0} /\ n - 1 \in Nat /\ n - 1 >= k - 1
      OBVIOUS
    <3> QED
      BY <3>1, DepthSums
  <2> QED
    BY <2>2, <2>3, <2>4
<1>4. ASSUME Depth(t, 1, n - 1) > 0
      PROVE  \E k \in 1..(n - 1) : Within(t, k, n)
  <2>1. PICK S : S = {m \in 0..(n - 1) : Depth(t, 1, m) = 0}
    OBVIOUS
  <2>2. 0 \in S
    <3>1. 1 \in Nat \ {0} /\ 1 - 1 = 0 /\ 0 \in 0..(n - 1)
      OBVIOUS
    <3> QED
      BY <2>1, <3>1, DepthStart
  <2>3. PICK x \in S : \A y \in S : y <= x
    <3>1. n - 1 \in Nat /\ S \subseteq 0..(n - 1) /\ S # {}
      BY <2>1, <2>2
    <3> QED
      BY <3>1, Greatest
  <2>4. x \in 0..(n - 1) /\ Depth(t, 1, x) = 0
    BY <2>1
  <2>5. x # n - 1
    BY <1>4, <2>4
  <2>6. PICK k \in 1..(n - 1) : k = x + 1
    BY <2>4, <2>5
  <2>7. \A j \in k..(n - 1) : Depth(t, k, j) \in Int /\ Depth(t, k, j) > 0
    <3> SUFFICES ASSUME NEW j \in k..(n - 1)
                 PROVE  Depth(t, k, j) \in Int /\ Depth(t, k, j) > 0
      OBVIOUS
    <3>1. j \in 0..(n - 1) /\ ~(j <= x)
      BY <2>4, <2>6
    <3>2. Depth(t, 1, j) # 0
      BY <2>1, <2>3, <3>1
    <3>3. Depth(t, 1, j) \in Int /\ Depth(t, 1, j) > 0
      BY <1>1, <3>1, <3>2
    <3>4. Depth(t, k, j) \in Int /\ Depth(t, 1, j) = Depth(t, 1, k - 1) + Depth(t, k, j)
      <4>1. k \in Nat \ {0} /\ j \in Nat /\ j >= k - 1
        OBVIOUS
      <4> QED
        BY <4>1, DepthSums
    <3>5. k - 1 = x
      BY <2>4, <2>6
    <3> QED
      BY <2>4, <3>3, <3>4, <3>5
  <2>8. Opens(t[k])
    <3>1. Depth(t, k, k) = Depth(t, k, k - 1) + Adds(t[k]) /\ Depth(t, k, k - 1) = 0
      <4>1. k \in Nat \ {0} /\ k \in Nat /\ k >= k
        OBVIOUS
      <4> QED
        BY <4>1, DepthSteps, DepthStart
    <3>2. Depth(t, k, k) > 0
      <4>1. k \in k..(n - 1)
        OBVIOUS
      <4> QED
        BY <2>7, <4>1
    <3> QED
      BY <3>1, <3>2 DEF Adds, Opens
  <2> QED
    BY <2>7, <2>8 DEF Within
<1> QED
  BY <1>1, <1>2, <1>3, <1>4

BranchIs(t, got) ==
    \E i \in DOMAIN t :
        /\ t[i].v = "target" /\ ~\E k \in 1..i - 1 : Within(t, k, i)
        /\ \A n \in DOMAIN t :
                n \in got <=> n > i /\ Within(t, i, n) /\ n < Max(Branches(t, i, Len(t)))
        /\ \A j \in DOMAIN t \ {i} : t[j].v = "target" => \E k \in 1..j - 1 : Within(t, k, j)

LEMMA BranchRight ==
    ASSUME NEW t \in Seq(Line), ExtractBranch(t) # Refused
    PROVE  BranchIs(t, ExtractBranch(t))
<1>1. PICK i : i = CHOOSE x \in Targets(t) : TRUE
  OBVIOUS
<1>2. PICK st : st = BranchScanned(t, i)
  OBVIOUS
<1>3. /\ \A m \in DOMAIN t : ~(Depth(t, 1, m) < 0)
      /\ Cardinality(Targets(t)) = 1 /\ st.state = "closed" /\ st.end # 0
      /\ ExtractBranch(t) = (i + 1)..(st.end - 1)
  BY <1>1, <1>2, Zenon DEF ExtractBranch
<1>4. PICK N \in Nat : N = Len(t) /\ DOMAIN t = 1..N
  OBVIOUS
<1>5. Targets(t) = {i}
  <2>1. IsFiniteSet(Targets(t))
    <3>1. IsFiniteSet(1..N)
      BY FS_Interval
    <3>2. Targets(t) \subseteq 1..N
      BY <1>4 DEF Targets
    <3> QED
      BY <3>1, <3>2, FS_Subset
  <2>2. PICK x : Targets(t) = {x}
    BY <1>3, <2>1, FS_Singleton
  <2> QED
    BY <1>1, <2>2
<1>6. i \in 1..N /\ Opens(t[i]) /\ t[i].v = "target" /\ Depth(t, 1, i - 1) = 0
  BY <1>4, <1>5 DEF Targets
<1>7. \A m \in 1..N : Depth(t, 1, m) >= 0
  <2> SUFFICES ASSUME NEW m \in 1..N PROVE Depth(t, 1, m) >= 0
    OBVIOUS
  <2>1. 1 \in Nat \ {0} /\ m \in Nat /\ m >= 1
    OBVIOUS
  <2>2. Depth(t, 1, m) \in Int
    BY <2>1, DepthSteps
  <2>3. ~(Depth(t, 1, m) < 0)
    BY <1>3, <1>4
  <2> QED
    BY <2>2, <2>3
<1>8. \A n \in 1..N : /\ Depth(t, 1, n - 1) \in Int /\ Depth(t, 1, n - 1) >= 0
                      /\ (\E k \in 1..(n - 1) : Within(t, k, n)) <=> Depth(t, 1, n - 1) > 0
  <2> SUFFICES ASSUME NEW n \in 1..N
               PROVE  /\ Depth(t, 1, n - 1) \in Int /\ Depth(t, 1, n - 1) >= 0
                      /\ (\E k \in 1..(n - 1) : Within(t, k, n)) <=> Depth(t, 1, n - 1) > 0
    OBVIOUS
  <2>1. n \in Nat \ {0} /\ \A m \in 1..(n - 1) : Depth(t, 1, m) >= 0
    BY <1>7
  <2> QED
    BY <2>1, OpenBefore
<1>9. ~\E k \in 1..(i - 1) : Within(t, k, i)
  BY <1>6, <1>8
<1>10. ASSUME NEW j \in 1..N, j # i, t[j].v = "target"
       PROVE  \E k \in 1..(j - 1) : Within(t, k, j)
  <2>1. Opens(t[j])
    <3>1. t[j] \in Line
      BY <1>4
    <3> QED
      BY <1>10, <3>1 DEF Line, Opens
  <2>2. Depth(t, 1, j - 1) # 0
    BY <1>4, <1>5, <1>10, <2>1 DEF Targets
  <2>3. Depth(t, 1, j - 1) \in Int /\ Depth(t, 1, j - 1) >= 0
    BY <1>8
  <2>4. Depth(t, 1, j - 1) > 0
    BY <2>2, <2>3
  <2> QED
    BY <1>8, <2>4
<1>11. st \in BStates /\ Follows(t, i, N, st)
  BY <1>2, <1>4, <1>6, BranchFollows
<1>12. PICK x \in (i + 1)..N : x = st.end /\ Branches(t, i, N) = {i, x}
  BY <1>3, <1>11 DEF Follows, FirstTwo
<1>13. Max(Branches(t, i, N)) = x
  <2>1. x >= i /\ x >= x /\ ~(i >= x)
    BY <1>6
  <2>2. \A z \in {i, x} : (\A y \in {i, x} : z >= y) <=> z = x
    BY <2>1
  <2>3. PICK z : z = Max({i, x})
    OBVIOUS
  <2>4. z = CHOOSE m \in {i, x} : \A y \in {i, x} : m >= y
    BY <2>3 DEF Max
  <2>5. z \in {i, x} /\ \A y \in {i, x} : z >= y
    BY <2>2, <2>4
  <2> QED
    BY <1>12, <2>2, <2>3, <2>5
<1>14. Within(t, i, x)
  <2>1. x \in Branches(t, i, N) /\ x # i
    BY <1>12
  <2> QED
    BY <2>1 DEF Branches
<1>15. ASSUME NEW n \in 1..N
       PROVE  n \in (i + 1)..(x - 1) <=> n > i /\ Within(t, i, n) /\ n < x
  <2>1. ASSUME n \in (i + 1)..(x - 1) PROVE Within(t, i, n)
    <3>1. i..(n - 1) \subseteq i..(x - 1)
      BY <2>1
    <3> QED
      BY <1>14, <3>1 DEF Within
  <2>2. n \in (i + 1)..(x - 1) <=> n > i /\ n < x
    BY <1>6
  <2> QED
    BY <2>1, <2>2
<1>16. ExtractBranch(t) = (i + 1)..(x - 1)
  BY <1>3, <1>12
<1> QED
  BY <1>4, <1>6, <1>9, <1>10, <1>13, <1>15, <1>16, Zenon DEF BranchIs

-----------------------------------------------------------------------------
(* The recursion of preprocessor_integer_truth: an expression of any       *)
(* length is evaluated through shorter ones.                               *)

Value == {"true", "false", "none"}
Expression == Seq(ExprToken)
Inner(t) == SubSeq(t, 2, Len(t) - 1)

\* One call, with h for the calls it makes.
Truth(h, t) ==
    IF t = <<>> THEN "none"
    ELSE IF Wraps(t) THEN h[Inner(t)]
    ELSE IF t[1] = "!" THEN Negated(h[Tail(t)])
    ELSE CASE t = <<"0">> -> "false" [] t = <<"1">> -> "true" [] OTHER -> "none"

LEMMA Shorter ==
    ASSUME NEW t \in Expression, t # <<>>
    PROVE  /\ Len(t) \in Nat \ {0}
           /\ Tail(t) \in Expression /\ Len(Tail(t)) = Len(t) - 1
           /\ \A i \in 1..(Len(t) - 1) : Tail(t)[i] = t[i + 1]
           /\ Wraps(t) => /\ Inner(t) \in Expression /\ Len(t) >= 2 /\ Len(Inner(t)) = Len(t) - 2
                          /\ \A i \in 1..(Len(t) - 2) : Inner(t)[i] = t[i + 1]
<1>1. Len(t) \in Nat \ {0}
  BY DEF Expression
<1>2. /\ Tail(t) \in Expression /\ Len(Tail(t)) = Len(t) - 1
      /\ \A i \in 1..(Len(t) - 1) : Tail(t)[i] = t[i + 1]
  BY DEF Expression
<1>3. ASSUME Wraps(t)
      PROVE  /\ Inner(t) \in Expression /\ Len(t) >= 2 /\ Len(Inner(t)) = Len(t) - 2
             /\ \A i \in 1..(Len(t) - 2) : Inner(t)[i] = t[i + 1]
  <2>1. t[1] = "(" /\ t[Len(t)] = ")"
    BY <1>3 DEF Wraps
  <2>2. Len(t) # 1
    BY <2>1
  <2>3. PICK L \in Nat \ {0} : L = Len(t)
    BY <1>1
  <2>4. L >= 2
    BY <2>2, <2>3
  <2>5. PICK u : u = SubSeq(t, 2, L - 1)
    OBVIOUS
  <2>6. u \in Expression /\ Len(u) = L - 2 /\ \A i \in 1..(L - 2) : u[i] = t[i + 1]
    <3>1. t \in Seq(ExprToken) /\ 2 \in 1..(Len(t) + 1) /\ L - 1 \in (2 - 1)..Len(t)
      BY <2>3, <2>4 DEF Expression
    <3>2. u \in Seq(ExprToken)
      BY <2>5, <3>1, <2>3, <2>4
    <3>3. Len(u) = L - 2
      BY <2>5, <3>1, <2>3, <2>4
    <3>4. \A i \in 1..(L - 2) : u[i] = t[i + 1]
      BY <2>5, <3>1, <2>3, <2>4
    <3> QED
      BY <3>2, <3>3, <3>4 DEF Expression
  <2> QED
    BY <2>3, <2>4, <2>5, <2>6 DEF Inner
<1> QED
  BY <1>1, <1>2, <1>3

\* The two expressions a call may pass on.
LEMMA PassedOn ==
    ASSUME NEW t \in Expression, t # <<>>
    PROVE  /\ Tail(t) \in Expression /\ Len(Tail(t)) < Len(t)
           /\ Wraps(t) => Inner(t) \in Expression /\ Len(Inner(t)) < Len(t)
<1>1. PICK L \in Nat \ {0} : L = Len(t)
  BY Shorter
<1>2. L - 1 < L /\ L - 2 < L
  OBVIOUS
<1> QED
  BY <1>1, <1>2, Shorter

LEMMA TruthAgrees ==
    ASSUME NEW t \in Expression, NEW h, NEW k,
           \A u \in Expression : Len(u) < Len(t) => h[u] = k[u]
    PROVE  Truth(h, t) = Truth(k, t)
<1>1. CASE t = <<>>
  BY <1>1 DEF Truth
<1>2. CASE t # <<>>
  <2>1. h[Tail(t)] = k[Tail(t)]
    BY <1>2, PassedOn
  <2>2. Wraps(t) => h[Inner(t)] = k[Inner(t)]
    BY <1>2, PassedOn
  <2> QED
    BY <1>2, <2>1, <2>2 DEF Truth
<1> QED
  BY <1>1, <1>2

LEMMA TruthValue ==
    ASSUME NEW t \in Expression, NEW h,
           \A u \in Expression : Len(u) < Len(t) => h[u] \in Value
    PROVE  Truth(h, t) \in Value
<1>1. CASE t = <<>>
  BY <1>1 DEF Truth, Value
<1>2. CASE t # <<>>
  <2>1. h[Tail(t)] \in Value
    BY <1>2, PassedOn
  <2>2. Wraps(t) => h[Inner(t)] \in Value
    BY <1>2, PassedOn
  <2>3. Negated(h[Tail(t)]) \in Value
    BY <2>1 DEF Negated, Value
  <2> QED
    BY <1>2, <2>2, <2>3 DEF Truth, Value
<1> QED
  BY <1>1, <1>2

Short(n) == {t \in Expression : Len(t) <= n}

\* h is the function on the expressions of up to n tokens.
UpToLength(h, n) == h \in [Short(n) -> Value] /\ \A t \in Short(n) : h[t] = Truth(h, t)

LEMMA LengthsAgree ==
    ASSUME NEW n \in Nat, NEW m \in Nat, NEW h, NEW k, UpToLength(h, n), UpToLength(k, m),
           NEW t \in Short(n), t \in Short(m)
    PROVE  h[t] = k[t]
<1> DEFINE Same(l) == \A u \in Expression : Len(u) <= l /\ Len(u) <= n /\ Len(u) <= m => h[u] = k[u]
           good == {l \in 0..n : Same(l)}
<1>1. \A u \in Expression : Len(u) \in Nat
  BY DEF Expression
<1>2. \A u \in Expression : Len(u) <= n /\ Len(u) <= m => h[u] = Truth(h, u) /\ k[u] = Truth(k, u)
  BY DEF UpToLength, Short
<1>3. 0 \in good
  <2> SUFFICES ASSUME NEW u \in Expression, Len(u) <= 0, Len(u) <= n, Len(u) <= m
               PROVE  h[u] = k[u]
    OBVIOUS
  <2>1. \A v \in Expression : Len(v) < Len(u) => h[v] = k[v]
    BY <1>1
  <2>2. Truth(h, u) = Truth(k, u)
    BY <2>1, TruthAgrees
  <2> QED
    BY <1>2, <2>2
<1>4. \A l \in 1..n : l - 1 \in good => l \in good
  <2> SUFFICES ASSUME NEW l \in 1..n, Same(l - 1),
                      NEW u \in Expression, Len(u) <= l, Len(u) <= n, Len(u) <= m
               PROVE  h[u] = k[u]
    <3>1. 1..n \subseteq 0..n
      OBVIOUS
    <3> QED
      BY <3>1
  <2>1. \A v \in Expression : Len(v) < Len(u) => h[v] = k[v]
    <3> SUFFICES ASSUME NEW v \in Expression, Len(v) < Len(u) PROVE h[v] = k[v]
      OBVIOUS
    <3>1. Len(v) <= l - 1 /\ Len(v) <= n /\ Len(v) <= m
      BY <1>1
    <3> QED
      BY <3>1
  <2>2. Truth(h, u) = Truth(k, u)
    BY <2>1, TruthAgrees
  <2> QED
    BY <1>2, <2>2
<1>5. Same(n)
  <2>1. \A l \in 0..n : l \in good
    <3> HIDE DEF good
    <3> QED
      BY <1>3, <1>4, UpTo
  <2>2. n \in 0..n
    OBVIOUS
  <2> QED
    BY <2>1, <2>2
<1> QED
  BY <1>5 DEF Short

LEMMA LengthsReached ==
    ASSUME NEW N \in Nat
    PROVE  \E h : UpToLength(h, N)
<1> DEFINE good == {n \in 0..N : \E h : UpToLength(h, n)}
<1>1. \A u \in Expression : Len(u) \in Nat
  BY DEF Expression
<1>2. 0 \in good
  <2>1. PICK h : h = [t \in Short(0) |-> "none"]
    OBVIOUS
  <2>2. \A t \in Short(0) : t = <<>>
    BY DEF Short, Expression
  <2>3. \A t \in Short(0) : h[t] = Truth(h, t)
    BY <2>1, <2>2 DEF Truth
  <2>4. h \in [Short(0) -> Value]
    BY <2>1 DEF Value
  <2>5. UpToLength(h, 0) /\ 0 \in 0..N
    BY <2>3, <2>4 DEF UpToLength
  <2> QED
    BY <2>5
<1>3. \A n \in 1..N : n - 1 \in good => n \in good
  <2> SUFFICES ASSUME NEW n \in 1..N, NEW h, UpToLength(h, n - 1)
               PROVE  n \in 0..N /\ \E k : UpToLength(k, n)
    OBVIOUS
  <2>1. /\ \A t \in Expression : Len(t) <= n - 1 => h[t] = Truth(h, t) /\ h[t] \in Value
    BY DEF UpToLength, Short
  <2>2. PICK k : k = [t \in Short(n) |-> IF Len(t) <= n - 1 THEN h[t] ELSE Truth(h, t)]
    OBVIOUS
  <2>3. \A t \in Short(n) : k[t] = Truth(h, t)
    BY <2>1, <2>2 DEF Short
  <2>4. \A u \in Expression : Len(u) <= n - 1 => k[u] = h[u]
    <3>1. \A u \in Expression : Len(u) <= n - 1 => u \in Short(n)
      BY <1>1 DEF Short
    <3> QED
      BY <2>2, <3>1
  <2>5. ASSUME NEW t \in Short(n)
        PROVE  Truth(h, t) = Truth(k, t) /\ Truth(h, t) \in Value
    <3>1. t \in Expression /\ Len(t) <= n
      BY DEF Short
    <3>2. \A u \in Expression : Len(u) < Len(t) => Len(u) <= n - 1
      BY <1>1, <3>1
    <3>3. \A u \in Expression : Len(u) < Len(t) => h[u] = k[u]
      BY <2>4, <3>2
    <3>4. \A u \in Expression : Len(u) < Len(t) => h[u] \in Value
      BY <2>1, <3>2
    <3> QED
      BY <3>1, <3>3, <3>4, TruthAgrees, TruthValue
  <2>6. k \in [Short(n) -> Value]
    <3>1. \A t \in Short(n) : k[t] \in Value
      BY <2>3, <2>5
    <3> QED
      BY <2>2, <3>1
  <2>7. UpToLength(k, n)
    BY <2>3, <2>5, <2>6 DEF UpToLength
  <2>8. n \in 0..N
    OBVIOUS
  <2> QED
    BY <2>7, <2>8
<1>4. \A n \in 0..N : n \in good
  <2> HIDE DEF good
  <2> QED
    BY <1>2, <1>3, UpTo
<1>5. N \in 0..N
  OBVIOUS
<1> QED
  BY <1>4, <1>5

\* g is a function on all expressions that satisfies the equation.
Evaluates(g) == g = [t \in Expression |-> Truth(g, t)]

LEMMA TruthExists == \E g : Evaluates(g)
<1>1. PICK H : H = [n \in Nat |-> CHOOSE h : UpToLength(h, n)]
  OBVIOUS
<1>2. \A n \in Nat : UpToLength(H[n], n)
  <2> SUFFICES ASSUME NEW n \in Nat PROVE UpToLength(H[n], n)
    OBVIOUS
  <2>1. H[n] = CHOOSE h : UpToLength(h, n)
    BY <1>1
  <2> QED
    BY <2>1, LengthsReached, Zenon
<1>3. \A u \in Expression : Len(u) \in Nat
  BY DEF Expression
<1>4. PICK g : g = [t \in Expression |-> H[Len(t)][t]]
  OBVIOUS
<1>5. ASSUME NEW t \in Expression
      PROVE  g[t] = Truth(g, t)
  <2>1. PICK n \in Nat : n = Len(t)
    BY <1>3
  <2>2. UpToLength(H[n], n) /\ t \in Short(n)
    BY <1>2, <2>1 DEF Short
  <2>3. g[t] = Truth(H[n], t)
    BY <1>4, <2>1, <2>2 DEF UpToLength
  <2>4. \A u \in Expression : Len(u) < Len(t) => H[n][u] = g[u]
    <3> SUFFICES ASSUME NEW u \in Expression, Len(u) < Len(t)
                 PROVE  H[n][u] = g[u]
      OBVIOUS
    <3>1. PICK m \in Nat : m = Len(u)
      BY <1>3
    <3>2. UpToLength(H[m], m) /\ u \in Short(m) /\ u \in Short(n)
      BY <1>2, <2>1, <3>1 DEF Short
    <3>3. H[n][u] = H[m][u]
      BY <2>2, <3>2, LengthsAgree
    <3> QED
      BY <1>4, <3>1, <3>3
  <2>5. Truth(H[n], t) = Truth(g, t)
    BY <2>4, TruthAgrees
  <2> QED
    BY <2>3, <2>5
<1>6. g = [t \in Expression |-> g[t]]
  BY <1>4
<1>7. g = [t \in Expression |-> Truth(g, t)]
  BY <1>5, <1>6
<1> QED
  BY <1>7 DEF Evaluates

LEMMA TruthEquation ==
    \A t \in Expression : IntegerTruth[t] = Truth(IntegerTruth, t)
<1>1. IntegerTruth = CHOOSE g : Evaluates(g)
  BY Zenon DEF IntegerTruth, Evaluates, Truth, Expression, Inner
<1>2. Evaluates(IntegerTruth)
  BY <1>1, TruthExists, Zenon
<1>3. PICK g : g = IntegerTruth
  OBVIOUS
<1>4. g = [t \in Expression |-> Truth(g, t)]
  BY <1>2, <1>3 DEF Evaluates
<1> QED
  BY <1>3, <1>4, Zenon


-----------------------------------------------------------------------------
(* What an expression is worth.                                            *)

Number(t, x, n) == Cardinality({i \in 1..n : t[i] = x})

LEMMA NumberSteps ==
    ASSUME NEW t, NEW x, NEW n \in Nat \ {0}
    PROVE  /\ Number(t, x, n) \in Nat /\ Number(t, x, n - 1) \in Nat
           /\ Number(t, x, n) = Number(t, x, n - 1) + (IF t[n] = x THEN 1 ELSE 0)
<1>1. PICK P : P = {i \in 1..n : t[i] = x}
  OBVIOUS
<1>2. /\ {i \in 1..n : t[i] = x} = {i \in 1..n : i \in P}
      /\ {i \in 1..(n - 1) : t[i] = x} = {i \in 1..(n - 1) : i \in P}
      /\ n \in P <=> t[n] = x
  BY <1>1
<1>3. 1 \in Nat \ {0} /\ n \in Nat /\ n >= 1
  OBVIOUS
<1>4. /\ Number(t, x, n) \in Nat
      /\ Number(t, x, n) = Number(t, x, n - 1) + (IF t[n] = x THEN 1 ELSE 0)
  BY <1>2, <1>3, CountSteps DEF Number
<1>5. Number(t, x, n - 1) \in Nat
  <2>1. IsFiniteSet(1..(n - 1))
    BY FS_Interval
  <2> QED
    BY <2>1, FS_Subset, FS_CardinalityType DEF Number
<1> QED
  BY <1>4, <1>5

LEMMA NumberNone ==
    ASSUME NEW t, NEW x, NEW n \in Nat
    PROVE  Number(t, x, n) \in Nat /\ (Number(t, x, n) = 0 <=> \A i \in 1..n : t[i] # x)
<1>1. PICK S : S = {i \in 1..n : t[i] = x}
  OBVIOUS
<1>2. IsFiniteSet(S)
  <2>1. IsFiniteSet(1..n)
    BY FS_Interval
  <2> QED
    BY <1>1, <2>1, FS_Subset
<1>3. Cardinality(S) \in Nat /\ (Cardinality(S) = 0 <=> S = {})
  BY <1>2, FS_CardinalityType, FS_EmptySet
<1> QED
  BY <1>1, <1>3 DEF Number

\* u is t from its second item on.
LEMMA NumberShift ==
    ASSUME NEW t, NEW u, NEW x, NEW M \in Nat, \A i \in 1..M : u[i] = t[i + 1]
    PROVE  Number(t, x, M + 1) = Number(u, x, M) + (IF t[1] = x THEN 1 ELSE 0)
<1> DEFINE Shifts(m) == Number(t, x, m + 1) = Number(u, x, m) + (IF t[1] = x THEN 1 ELSE 0)
           good == {m \in 0..M : Shifts(m)}
<1>1. 0 \in good
  <2>1. Number(t, x, 1) = Number(t, x, 0) + (IF t[1] = x THEN 1 ELSE 0)
    <3>1. 1 \in Nat \ {0} /\ 1 - 1 = 0
      OBVIOUS
    <3> QED
      BY <3>1, NumberSteps
  <2>2. Number(t, x, 0) = 0 /\ Number(u, x, 0) = 0
    BY NumberNone
  <2>3. 0 + 1 = 1 /\ 0 \in 0..M
    OBVIOUS
  <2> QED
    BY <2>1, <2>2, <2>3
<1>2. \A m \in 1..M : m - 1 \in good => m \in good
  <2> SUFFICES ASSUME NEW m \in 1..M, Shifts(m - 1)
               PROVE  m \in 0..M /\ Shifts(m)
    OBVIOUS
  <2>1. m \in Nat \ {0} /\ m + 1 \in Nat \ {0} /\ (m - 1) + 1 = m /\ (m + 1) - 1 = m /\ m \in 0..M
    OBVIOUS
  <2>2. /\ Number(t, x, m) \in Nat
        /\ Number(t, x, m + 1) = Number(t, x, m) + (IF t[m + 1] = x THEN 1 ELSE 0)
    BY <2>1, NumberSteps
  <2>3. /\ Number(u, x, m - 1) \in Nat
        /\ Number(u, x, m) = Number(u, x, m - 1) + (IF u[m] = x THEN 1 ELSE 0)
    BY <2>1, NumberSteps
  <2>4. u[m] = t[m + 1]
    OBVIOUS
  <2>5. Number(t, x, m) = Number(u, x, m - 1) + (IF t[1] = x THEN 1 ELSE 0)
    BY <2>1
  <2> QED
    BY <2>1, <2>2, <2>3, <2>4, <2>5
<1>3. \A m \in 0..M : m \in good
  <2> HIDE DEF good
  <2> QED
    BY <1>1, <1>2, UpTo
<1>4. M \in 0..M
  OBVIOUS
<1> QED
  BY <1>3, <1>4

LEMMA OccurrencesIs ==
    ASSUME NEW t \in Expression, NEW x
    PROVE  Occurrences(t, x) = Number(t, x, Len(t)) /\ Occurrences(t, x) \in Nat
<1>1. DOMAIN t = 1..Len(t) /\ Len(t) \in Nat
  BY DEF Expression
<1>2. Occurrences(t, x) = Number(t, x, Len(t))
  BY <1>1 DEF Occurrences, Number
<1> QED
  BY <1>1, <1>2, NumberNone

LEMMA OccurrencesTail ==
    ASSUME NEW t \in Expression, t # <<>>, NEW x
    PROVE  Occurrences(t, x) = Occurrences(Tail(t), x) + (IF t[1] = x THEN 1 ELSE 0)
<1>1. PICK L \in Nat \ {0} : L = Len(t)
  BY Shorter
<1>2. PICK u \in Expression : u = Tail(t)
  BY Shorter
<1>3. Len(u) = L - 1 /\ \A i \in 1..(L - 1) : u[i] = t[i + 1]
  BY <1>1, <1>2, Shorter
<1>4. PICK M \in Nat : M = L - 1
  OBVIOUS
<1>5. Number(t, x, M + 1) = Number(u, x, M) + (IF t[1] = x THEN 1 ELSE 0)
  BY <1>3, <1>4, NumberShift
<1>6. M + 1 = L
  BY <1>4
<1>7. Occurrences(t, x) = Number(t, x, L) /\ Occurrences(u, x) = Number(u, x, M)
  BY <1>1, <1>3, <1>4, OccurrencesIs
<1> QED
  BY <1>2, <1>5, <1>6, <1>7

LEMMA OccurrencesInner ==
    ASSUME NEW t \in Expression, t # <<>>, Wraps(t), NEW x
    PROVE  Occurrences(t, x) = Occurrences(Inner(t), x) + (IF x \in {"(", ")"} THEN 1 ELSE 0)
<1>1. PICK L \in Nat \ {0} : L = Len(t)
  BY Shorter
<1>2. PICK u \in Expression : u = Inner(t)
  BY Shorter
<1>3. Len(u) = L - 2 /\ L >= 2 /\ \A i \in 1..(L - 2) : u[i] = t[i + 1]
  BY <1>1, <1>2, Shorter
<1>4. PICK M \in Nat : M = L - 2
  BY <1>3
<1>5. Number(t, x, M + 1) = Number(u, x, M) + (IF t[1] = x THEN 1 ELSE 0)
  BY <1>3, <1>4, NumberShift
<1>6. M + 1 = L - 1
  BY <1>4
<1>7. Occurrences(t, x) = Number(t, x, L) /\ Occurrences(u, x) = Number(u, x, M) /\ Occurrences(u, x) \in Nat
  BY <1>1, <1>3, <1>4, OccurrencesIs
<1>8. Number(t, x, L) = Number(t, x, L - 1) + (IF t[L] = x THEN 1 ELSE 0)
  BY NumberSteps
<1>9. t[1] = "(" /\ t[L] = ")"
  BY <1>1 DEF Wraps
<1> QED
  BY <1>2, <1>5, <1>6, <1>7, <1>8, <1>9

Centre(t, k) ==
    /\ t[k] \in {"0", "1"}
    /\ \A i \in 1..k - 1 : t[i] \in {"(", "!"}
    /\ \A i \in k + 1..Len(t) : t[i] = ")"

LEMMA LiteralIs ==
    ASSUME NEW t \in Expression
    PROVE  Literal(t) <=> /\ \E k \in 1..Len(t) : Centre(t, k)
                          /\ Occurrences(t, "(") = Occurrences(t, ")")
<1>1. DOMAIN t = 1..Len(t)
  BY DEF Expression
<1> QED
  BY <1>1 DEF Literal, Centre

LEMMA LiteralTail ==
    ASSUME NEW t \in Expression, t # <<>>, t[1] = "!"
    PROVE  Literal(t) <=> Literal(Tail(t))
<1>1. PICK L \in Nat \ {0} : L = Len(t)
  BY Shorter
<1>2. PICK u \in Expression : u = Tail(t)
  BY Shorter
<1>3. Len(u) = L - 1 /\ \A i \in 1..(L - 1) : u[i] = t[i + 1]
  BY <1>1, <1>2, Shorter
<1>4. Occurrences(t, "(") = Occurrences(t, ")") <=> Occurrences(u, "(") = Occurrences(u, ")")
  <2>1. Occurrences(u, "(") \in Nat /\ Occurrences(u, ")") \in Nat
    BY OccurrencesIs
  <2>2. Occurrences(t, "(") = Occurrences(u, "(") + 0 /\ Occurrences(t, ")") = Occurrences(u, ")") + 0
    BY <1>2, OccurrencesTail
  <2> QED
    BY <2>1, <2>2
<1>5. ASSUME NEW k \in 1..L, Centre(t, k)
      PROVE  \E j \in 1..(L - 1) : Centre(u, j)
  <2>1. k # 1
    BY <1>5 DEF Centre
  <2>2. PICK j \in 1..(L - 1) : j = k - 1
    BY <2>1
  <2>3. u[j] = t[k]
    BY <1>3, <2>2
  <2>4. \A i \in 1..(j - 1) : u[i] = t[i + 1] /\ i + 1 \in 1..(k - 1)
    BY <1>3, <2>2
  <2>5. \A i \in (j + 1)..(L - 1) : u[i] = t[i + 1] /\ i + 1 \in (k + 1)..L
    BY <1>3, <2>2
  <2>6. Centre(u, j)
    BY <1>1, <1>3, <1>5, <2>3, <2>4, <2>5 DEF Centre
  <2> QED
    BY <2>6
<1>6. ASSUME NEW j \in 1..(L - 1), Centre(u, j)
      PROVE  \E k \in 1..L : Centre(t, k)
  <2>1. PICK k \in 1..L : k = j + 1
    OBVIOUS
  <2>2. u[j] = t[k]
    BY <1>3, <2>1
  <2>3. \A i \in 1..(k - 1) : i = 1 \/ (i - 1 \in 1..(j - 1) /\ t[i] = u[i - 1])
    BY <1>3, <2>1
  <2>4. \A i \in (k + 1)..L : i - 1 \in (j + 1)..(L - 1) /\ t[i] = u[i - 1]
    BY <1>3, <2>1
  <2>5. Centre(t, k)
    BY <1>1, <1>3, <1>6, <2>2, <2>3, <2>4 DEF Centre
  <2> QED
    BY <2>5
<1> QED
  BY <1>1, <1>2, <1>3, <1>4, <1>5, <1>6, LiteralIs

LEMMA LiteralInner ==
    ASSUME NEW t \in Expression, t # <<>>, Wraps(t)
    PROVE  Literal(t) <=> Literal(Inner(t))
<1>1. PICK L \in Nat \ {0} : L = Len(t)
  BY Shorter
<1>2. PICK u \in Expression : u = Inner(t)
  BY Shorter
<1>3. Len(u) = L - 2 /\ L >= 2 /\ \A i \in 1..(L - 2) : u[i] = t[i + 1]
  BY <1>1, <1>2, Shorter
<1>4. Occurrences(t, "(") = Occurrences(t, ")") <=> Occurrences(u, "(") = Occurrences(u, ")")
  <2>1. Occurrences(u, "(") \in Nat /\ Occurrences(u, ")") \in Nat
    BY OccurrencesIs
  <2>2. Occurrences(t, "(") = Occurrences(u, "(") + 1 /\ Occurrences(t, ")") = Occurrences(u, ")") + 1
    BY <1>2, OccurrencesInner
  <2> QED
    BY <2>1, <2>2
<1>5. t[1] = "(" /\ t[L] = ")"
  BY <1>1 DEF Wraps
<1>6. ASSUME NEW k \in 1..L, Centre(t, k)
      PROVE  \E j \in 1..(L - 2) : Centre(u, j)
  <2>1. k # 1 /\ k # L
    BY <1>5, <1>6 DEF Centre
  <2>2. PICK j \in 1..(L - 2) : j = k - 1
    BY <2>1
  <2>3. u[j] = t[k]
    BY <1>3, <2>2
  <2>4. \A i \in 1..(j - 1) : u[i] = t[i + 1] /\ i + 1 \in 1..(k - 1)
    BY <1>3, <2>2
  <2>5. \A i \in (j + 1)..(L - 2) : u[i] = t[i + 1] /\ i + 1 \in (k + 1)..L
    BY <1>3, <2>2
  <2>6. Centre(u, j)
    BY <1>1, <1>3, <1>6, <2>3, <2>4, <2>5 DEF Centre
  <2> QED
    BY <2>6
<1>7. ASSUME NEW j \in 1..(L - 2), Centre(u, j)
      PROVE  \E k \in 1..L : Centre(t, k)
  <2>1. PICK k \in 1..L : k = j + 1
    OBVIOUS
  <2>2. u[j] = t[k]
    BY <1>3, <2>1
  <2>3. \A i \in 1..(k - 1) : i = 1 \/ (i - 1 \in 1..(j - 1) /\ t[i] = u[i - 1])
    BY <1>3, <2>1
  <2>4. \A i \in (k + 1)..L : i = L \/ (i - 1 \in (j + 1)..(L - 2) /\ t[i] = u[i - 1])
    BY <1>3, <2>1
  <2>5. Centre(t, k)
    BY <1>1, <1>3, <1>5, <1>7, <2>2, <2>3, <2>4 DEF Centre
  <2> QED
    BY <2>5
<1> QED
  BY <1>1, <1>2, <1>3, <1>4, <1>6, <1>7, LiteralIs

\* A literal that is not negated is a digit or stands in parentheses.
LEMMA LiteralPlain ==
    ASSUME NEW t \in Expression, t # <<>>, t[1] # "!", Literal(t), ~Wraps(t)
    PROVE  t = <<"0">> \/ t = <<"1">>
<1>1. PICK L \in Nat \ {0} : L = Len(t)
  BY Shorter
<1>2. PICK k \in 1..L : Centre(t, k)
  BY <1>1, LiteralIs
<1>3. Number(t, "(", L) = Number(t, ")", L)
  BY <1>1, LiteralIs, OccurrencesIs
<1>4. /\ t[k] \in {"0", "1"}
      /\ \A i \in 1..(k - 1) : t[i] \in {"(", "!"}
      /\ \A i \in (k + 1)..L : t[i] = ")"
  BY <1>1, <1>2 DEF Centre
<1>5. CASE k = 1
  <2>1. \A i \in 1..L : t[i] # "("
    <3>1. \A i \in 1..L : i = 1 \/ i \in (k + 1)..L
      BY <1>5
    <3> QED
      BY <1>4, <1>5, <3>1
  <2>2. \A i \in 1..L : t[i] # ")"
    BY <1>3, <2>1, NumberNone
  <2>3. L = 1
    <3>1. L # 1 => L \in (k + 1)..L /\ L \in 1..L
      BY <1>5
    <3> QED
      BY <1>4, <2>2, <3>1
  <2>4. t = <<t[1]>>
    <3>1. t \in Seq(ExprToken) /\ Len(t) = 1
      BY <1>1, <2>3, Zenon DEF Expression
    <3>2. t[1] \in ExprToken
      BY <3>1
    <3>3. PICK u : u = <<t[1]>>
      OBVIOUS
    <3>4. u \in Seq(ExprToken) /\ Len(u) = 1 /\ u[1] = t[1]
      BY <3>2, <3>3
    <3>5. \A i \in 1..1 : i = 1
      OBVIOUS
    <3>6. \A i \in 1..Len(t) : t[i] = u[i]
      BY <3>1, <3>4, <3>5
    <3> QED
      BY <3>1, <3>3, <3>4, <3>6, SeqEqual
  <2> QED
    BY <1>4, <1>5, <2>4
<1>6. CASE k # 1
  <2>1. t[1] = "("
    <3>1. 1 \in 1..(k - 1)
      BY <1>6
    <3> QED
      BY <1>4, <3>1
  <2>2. PICK m \in 1..L : t[m] = ")"
    <3>1. 1 \in 1..L
      OBVIOUS
    <3>2. Number(t, "(", L) # 0
      BY <2>1, <3>1, NumberNone
    <3> QED
      BY <1>3, <3>2, NumberNone
  <2>3. L > k
    <3>1. m # k /\ m \notin 1..(k - 1)
      BY <1>4, <2>2
    <3> QED
      BY <3>1
  <2>4. t[L] = ")"
    <3>1. L \in (k + 1)..L
      BY <2>3
    <3> QED
      BY <1>4, <3>1
  <2>5. \A i \in 1..L : Nesting(t, i) = Number(t, "(", i) - Number(t, ")", i)
    BY DEF Nesting, Number
  <2>6. \A i \in 0..L : Number(t, "(", i) \in Nat /\ Number(t, ")", i) \in Nat
    BY NumberNone
  <2>7. ASSUME NEW i \in 1..k
        PROVE  Nesting(t, i) > 0
    <3>1. \A j \in 1..i : j = k \/ j \in 1..(k - 1)
      OBVIOUS
    <3>2. \A j \in 1..i : t[j] # ")"
      BY <1>4, <3>1
    <3>3. 1 \in 1..i /\ i \in 1..L /\ i \in 0..L /\ i \in Nat
      OBVIOUS
    <3>4. Number(t, ")", i) = 0 /\ Number(t, "(", i) # 0
      BY <2>1, <3>2, <3>3, NumberNone
    <3> QED
      BY <2>5, <2>6, <3>3, <3>4
  <2>8. \A m1 \in 0..(L - k) : Nesting(t, L - m1) = m1
    <3> DEFINE good == {n \in 0..(L - k) : Nesting(t, L - n) = n}
    <3>1. 0 \in good
      <4>1. L - 0 = L /\ L \in 1..L /\ L \in 0..L /\ 0 \in 0..(L - k)
        BY <2>3
      <4>2. Nesting(t, L) = 0
        BY <1>3, <2>5, <2>6, <4>1
      <4> QED
        BY <4>1, <4>2
    <3>2. \A n \in 1..(L - k) : n - 1 \in good => n \in good
      <4> SUFFICES ASSUME NEW n \in 1..(L - k), Nesting(t, L - (n - 1)) = n - 1
                   PROVE  n \in 0..(L - k) /\ Nesting(t, L - n) = n
        OBVIOUS
      <4>1. PICK m1 \in (k + 1)..L : m1 = L - (n - 1)
        OBVIOUS
      <4>2. m1 \in Nat \ {0} /\ m1 \in 1..L /\ m1 - 1 \in 1..L /\ L - n = m1 - 1
        BY <4>1
      <4>3. Number(t, "(", m1) = Number(t, "(", m1 - 1) + 0 /\ Number(t, ")", m1) = Number(t, ")", m1 - 1) + 1
        <5>1. t[m1] = ")"
          BY <1>4
        <5> QED
          BY <4>2, <5>1, NumberSteps
      <4>4. /\ Nesting(t, m1) = Number(t, "(", m1) - Number(t, ")", m1)
            /\ Nesting(t, m1 - 1) = Number(t, "(", m1 - 1) - Number(t, ")", m1 - 1)
            /\ Number(t, "(", m1 - 1) \in Nat /\ Number(t, ")", m1 - 1) \in Nat
        BY <2>5, <2>6, <4>2
      <4>5. Nesting(t, m1) = n - 1
        BY <4>1
      <4>6. n \in 0..(L - k)
        OBVIOUS
      <4> QED
        BY <4>2, <4>3, <4>4, <4>5, <4>6
    <3>3. \A n \in 0..(L - k) : n \in good
      <4>1. L - k \in Nat
        BY <2>3
      <4> HIDE DEF good
      <4> QED
        BY <3>1, <3>2, <4>1, UpTo
    <3> QED
      BY <3>3
  <2>9. Nesting(t, L) = 0
    BY <1>3, <2>5, <2>6
  <2>10. ASSUME NEW i \in 1..(L - 1)
         PROVE  Nesting(t, i) > 0
    <3>1. CASE i \in 1..k
      BY <2>7, <3>1
    <3>2. CASE i \notin 1..k
      <4>1. L - i \in 0..(L - k) /\ L - (L - i) = i /\ L - i > 0
        BY <3>2
      <4>2. Nesting(t, L - (L - i)) = L - i
        BY <2>8, <4>1
      <4> QED
        BY <4>1, <4>2
    <3> QED
      BY <3>1, <3>2
  <2>11. Wraps(t)
    BY <1>1, <2>1, <2>4, <2>9, <2>10 DEF Wraps
  <2> QED
    BY <2>11
<1> QED
  BY <1>5, <1>6


Worth(t) ==
    IF ~Literal(t) THEN "none"
    ELSE IF (Occurrences(t, "1") + Occurrences(t, "!")) % 2 = 1 THEN "true"
    ELSE "false"

LEMMA WorthDigit ==
    ASSUME NEW x \in {"0", "1"}
    PROVE  Worth(<<x>>) = IF x = "1" THEN "true" ELSE "false"
<1>1. PICK t : t = <<x>>
  OBVIOUS
<1>2. t \in Expression /\ Len(t) = 1 /\ t[1] = x
  BY <1>1 DEF Expression, ExprToken
<1>3. 1 \in Nat \ {0} /\ 1 - 1 = 0 /\ 0 \in Nat
  OBVIOUS
<1>4. \A c : Occurrences(t, c) = IF x = c THEN 1 ELSE 0
  <2> SUFFICES ASSUME NEW c PROVE Occurrences(t, c) = IF x = c THEN 1 ELSE 0
    OBVIOUS
  <2>1. Number(t, c, 1) = Number(t, c, 0) + (IF x = c THEN 1 ELSE 0)
    BY <1>2, <1>3, NumberSteps
  <2>2. Number(t, c, 0) = 0
    BY NumberNone
  <2>3. Occurrences(t, c) = Number(t, c, 1)
    BY <1>2, OccurrencesIs
  <2> QED
    BY <2>1, <2>2, <2>3
<1>5. Occurrences(t, "(") = 0 /\ Occurrences(t, ")") = 0 /\ Occurrences(t, "!") = 0
  BY <1>4
<1>6. Centre(t, 1)
  BY <1>2 DEF Centre
<1>7. Literal(t)
  <2>1. 1 \in 1..Len(t)
    BY <1>2
  <2> QED
    BY <1>2, <1>5, <1>6, <2>1, LiteralIs
<1>8. Occurrences(t, "1") = IF x = "1" THEN 1 ELSE 0
  BY <1>4
<1>9. (1 + 0) % 2 = 1 /\ (0 + 0) % 2 = 0
  OBVIOUS
<1> QED
  BY <1>1, <1>5, <1>7, <1>8, <1>9 DEF Worth

LEMMA WorthTail ==
    ASSUME NEW t \in Expression, t # <<>>, t[1] = "!"
    PROVE  Worth(t) = Negated(Worth(Tail(t)))
<1>1. PICK u \in Expression : u = Tail(t)
  BY Shorter
<1>2. Literal(t) <=> Literal(u)
  BY <1>1, LiteralTail
<1>3. PICK a \in Nat : a = Occurrences(u, "1")
  BY OccurrencesIs
<1>4. PICK b \in Nat : b = Occurrences(u, "!")
  BY OccurrencesIs
<1>5. Occurrences(t, "1") = a /\ Occurrences(t, "!") = b + 1
  BY <1>1, <1>3, <1>4, OccurrencesTail
<1>6. (a + (b + 1)) % 2 = 1 <=> ~((a + b) % 2 = 1)
  OBVIOUS
<1> QED
  BY <1>1, <1>2, <1>3, <1>4, <1>5, <1>6 DEF Worth, Negated

LEMMA WorthInner ==
    ASSUME NEW t \in Expression, t # <<>>, Wraps(t)
    PROVE  Worth(t) = Worth(Inner(t))
<1>1. PICK u \in Expression : u = Inner(t)
  BY Shorter
<1>2. Literal(t) <=> Literal(u)
  BY <1>1, LiteralInner
<1>3. Occurrences(u, "1") \in Nat /\ Occurrences(u, "!") \in Nat
  BY OccurrencesIs
<1>4. Occurrences(t, "1") = Occurrences(u, "1") + 0 /\ Occurrences(t, "!") = Occurrences(u, "!") + 0
  BY <1>1, OccurrencesInner
<1>5. Occurrences(t, "1") = Occurrences(u, "1") /\ Occurrences(t, "!") = Occurrences(u, "!")
  BY <1>3, <1>4
<1> QED
  BY <1>1, <1>2, <1>5 DEF Worth

\* A call answers right if the calls it makes do.
LEMMA TruthStep ==
    ASSUME NEW t \in Expression,
           \A u \in Expression : Len(u) < Len(t) => IntegerTruth[u] = Worth(u)
    PROVE  IntegerTruth[t] = Worth(t)
<1>1. IntegerTruth[t] = Truth(IntegerTruth, t)
  BY TruthEquation
<1>2. CASE t = <<>>
  <2>1. Len(t) = 0
    BY <1>2
  <2>2. ~Literal(t)
    BY <2>1, LiteralIs
  <2>3. IntegerTruth[t] = "none"
    BY <1>1, <1>2 DEF Truth
  <2> QED
    BY <2>2, <2>3 DEF Worth
<1>3. CASE t # <<>> /\ Wraps(t)
  <2>1. IntegerTruth[t] = IntegerTruth[Inner(t)]
    BY <1>1, <1>3 DEF Truth
  <2>2. Inner(t) \in Expression /\ Len(Inner(t)) < Len(t)
    BY <1>3, PassedOn
  <2> QED
    BY <1>3, <2>1, <2>2, WorthInner
<1>4. CASE t # <<>> /\ ~Wraps(t) /\ t[1] = "!"
  <2>1. IntegerTruth[t] = Negated(IntegerTruth[Tail(t)])
    BY <1>1, <1>4 DEF Truth
  <2>2. Tail(t) \in Expression /\ Len(Tail(t)) < Len(t)
    BY <1>4, PassedOn
  <2>3. IntegerTruth[Tail(t)] = Worth(Tail(t))
    BY <2>2
  <2> QED
    BY <1>4, <2>1, <2>3, WorthTail
<1>5. CASE t # <<>> /\ ~Wraps(t) /\ t[1] # "!"
  <2>1. IntegerTruth[t] = CASE t = <<"0">> -> "false" [] t = <<"1">> -> "true" [] OTHER -> "none"
    BY <1>1, <1>5 DEF Truth
  <2>2. <<"0">> # <<"1">>
    OBVIOUS
  <2>3. CASE t = <<"0">>
    BY <2>1, <2>2, <2>3, WorthDigit
  <2>4. CASE t = <<"1">>
    BY <2>1, <2>2, <2>4, WorthDigit
  <2>5. CASE t # <<"0">> /\ t # <<"1">>
    <3>1. ~Literal(t)
      BY <1>5, <2>5, LiteralPlain
    <3>2. Worth(t) = "none"
      BY <3>1 DEF Worth
    <3> QED
      BY <2>1, <2>5, <3>2
  <2> QED
    BY <2>3, <2>4, <2>5
<1> QED
  BY <1>2, <1>3, <1>4, <1>5

LEMMA TruthRight ==
    ASSUME NEW t \in Expression
    PROVE  IntegerTruth[t] = Worth(t)
<1>1. PICK N \in Nat : N = Len(t)
  BY DEF Expression
<1>2. \A u \in Expression : Len(u) \in Nat
  BY DEF Expression
<1> DEFINE Right(n) == \A u \in Expression : Len(u) <= n => IntegerTruth[u] = Worth(u)
           good == {n \in 0..N : Right(n)}
<1>3. 0 \in good
  <2> SUFFICES ASSUME NEW u \in Expression, Len(u) <= 0
               PROVE  IntegerTruth[u] = Worth(u)
    OBVIOUS
  <2>1. \A v \in Expression : Len(v) < Len(u) => IntegerTruth[v] = Worth(v)
    BY <1>2
  <2> QED
    BY <2>1, TruthStep
<1>4. \A n \in 1..N : n - 1 \in good => n \in good
  <2> SUFFICES ASSUME NEW n \in 1..N, Right(n - 1), NEW u \in Expression, Len(u) <= n
               PROVE  n \in 0..N /\ IntegerTruth[u] = Worth(u)
    OBVIOUS
  <2>1. \A v \in Expression : Len(v) < Len(u) => Len(v) <= n - 1
    BY <1>2
  <2>2. \A v \in Expression : Len(v) < Len(u) => IntegerTruth[v] = Worth(v)
    BY <2>1
  <2>3. n \in 0..N
    OBVIOUS
  <2> QED
    BY <2>2, <2>3, TruthStep
<1>5. \A n \in 0..N : n \in good
  <2> HIDE DEF good
  <2> QED
    BY <1>3, <1>4, UpTo
<1>6. N \in 0..N /\ Len(t) <= N
  BY <1>1
<1> QED
  BY <1>5, <1>6

-----------------------------------------------------------------------------
(* Counting braces.                                                        *)

\* What token c adds to the number of open braces.
Lifts(c) == IF OpensBrace(c) THEN 1 ELSE IF c = "}" THEN -1 ELSE 0

LEMMA LiftIs ==
    ASSUME NEW c
    PROVE  Lifts(c) \in {-1, 0, 1} /\ (OpensBrace(c) => c # "}" /\ Lifts(c) = 1)
BY DEF Lifts, OpensBrace

LEMMA LevelSteps ==
    ASSUME NEW t, NEW a \in Nat \ {0}, NEW n \in Nat, n >= a
    PROVE  /\ Level(t, a, n) \in Int /\ Level(t, a, n - 1) \in Int
           /\ Level(t, a, n) = Level(t, a, n - 1) + Lifts(t[n])
<1>1. PICK P : P = {i \in a..n : OpensBrace(t[i])}
  OBVIOUS
<1>2. PICK Q : Q = {i \in a..n : t[i] = "}"}
  OBVIOUS
<1>3. PICK A : A = {i \in a..(n - 1) : OpensBrace(t[i])}
  OBVIOUS
<1>4. PICK B : B = {i \in a..(n - 1) : t[i] = "}"}
  OBVIOUS
<1>5. a..(n - 1) \subseteq a..n /\ n \in a..n
  OBVIOUS
<1>6. /\ P = {i \in a..n : i \in P} /\ A = {i \in a..(n - 1) : i \in P}
      /\ Q = {i \in a..n : i \in Q} /\ B = {i \in a..(n - 1) : i \in Q}
  BY <1>1, <1>2, <1>3, <1>4, <1>5
<1>7. Cardinality(P) \in Nat /\ Cardinality(P) = Cardinality(A) + (IF n \in P THEN 1 ELSE 0)
  <2>1. /\ Cardinality({i \in a..n : i \in P}) \in Nat
        /\ Cardinality({i \in a..n : i \in P}) =
             Cardinality({i \in a..(n - 1) : i \in P}) + (IF n \in P THEN 1 ELSE 0)
    BY CountSteps
  <2> QED
    BY <1>6, <2>1, Zenon
<1>8. Cardinality(Q) \in Nat /\ Cardinality(Q) = Cardinality(B) + (IF n \in Q THEN 1 ELSE 0)
  <2>1. /\ Cardinality({i \in a..n : i \in Q}) \in Nat
        /\ Cardinality({i \in a..n : i \in Q}) =
             Cardinality({i \in a..(n - 1) : i \in Q}) + (IF n \in Q THEN 1 ELSE 0)
    BY CountSteps
  <2> QED
    BY <1>6, <2>1, Zenon
<1>9. Cardinality(A) \in Nat /\ Cardinality(B) \in Nat
  <2>1. IsFiniteSet(a..(n - 1))
    BY FS_Interval
  <2>2. A \subseteq a..(n - 1) /\ B \subseteq a..(n - 1)
    BY <1>3, <1>4
  <2> QED
    BY <2>1, <2>2, FS_Subset, FS_CardinalityType
<1>10. (n \in P <=> OpensBrace(t[n])) /\ (n \in Q <=> t[n] = "}")
  BY <1>1, <1>2, <1>5
<1>11. /\ Level(t, a, n) = Cardinality(P) - Cardinality(Q)
       /\ Level(t, a, n - 1) = Cardinality(A) - Cardinality(B)
  BY <1>1, <1>2, <1>3, <1>4, Zenon DEF Level
<1>12. OpensBrace(t[n]) => t[n] # "}"
  BY LiftIs
<1>13. Lifts(t[n]) = IF n \in P THEN 1 ELSE IF n \in Q THEN -1 ELSE 0
  BY <1>10, Zenon DEF Lifts
<1>14. ~(n \in P /\ n \in Q)
  BY <1>10, <1>12
<1> QED
  BY <1>7, <1>8, <1>9, <1>11, <1>13, <1>14

LEMMA LevelStart ==
    ASSUME NEW t, NEW a \in Nat \ {0}
    PROVE  Level(t, a, a - 1) = 0
<1>1. {i \in a..(a - 1) : OpensBrace(t[i])} = {} /\ {i \in a..(a - 1) : t[i] = "}"} = {}
  <2>1. \A i : i \notin a..(a - 1)
    OBVIOUS
  <2> QED
    BY <2>1, Zenon
<1>2. Cardinality({}) = 0
  BY FS_EmptySet
<1>3. Level(t, a, a - 1) = 0 - 0
  BY <1>1, <1>2, Zenon DEF Level
<1> QED
  BY <1>3

LEMMA LevelSums ==
    ASSUME NEW t, NEW a \in Nat \ {0}, NEW k \in Nat, k > a, NEW M \in Nat, M >= k
    PROVE  /\ Level(t, a, M) \in Int /\ Level(t, a, k - 1) \in Int /\ Level(t, k, M) \in Int
           /\ Level(t, a, M) = Level(t, a, k - 1) + Level(t, k, M)
<1>1. PICK N \in Nat : N = M - (k - 1)
  OBVIOUS
<1> DEFINE Sums(n) == /\ Level(t, a, (k - 1) + n) \in Int /\ Level(t, k, (k - 1) + n) \in Int
                      /\ Level(t, a, (k - 1) + n) = Level(t, a, k - 1) + Level(t, k, (k - 1) + n)
           good == {n \in 0..N : Sums(n)}
<1>2. Level(t, a, k - 1) \in Int
  <2>1. k >= a
    OBVIOUS
  <2> QED
    BY <2>1, LevelSteps
<1>3. 0 \in good
  <2>1. (k - 1) + 0 = k - 1 /\ 0 \in 0..N
    OBVIOUS
  <2>2. Level(t, k, k - 1) = 0
    BY LevelStart
  <2> QED
    BY <1>2, <2>1, <2>2
<1>4. \A n \in 1..N : n - 1 \in good => n \in good
  <2> SUFFICES ASSUME NEW n \in 1..N, Sums(n - 1)
               PROVE  n \in 0..N /\ Sums(n)
    OBVIOUS
  <2>1. PICK m \in Nat : m = (k - 1) + n
    OBVIOUS
  <2>2. m >= k /\ m >= a /\ k \in Nat \ {0} /\ (k - 1) + (n - 1) = m - 1
    BY <2>1
  <2>3. Level(t, a, m) \in Int /\ Level(t, a, m) = Level(t, a, m - 1) + Lifts(t[m])
    BY <2>2, LevelSteps
  <2>4. Level(t, k, m) \in Int /\ Level(t, k, m) = Level(t, k, m - 1) + Lifts(t[m])
    BY <2>2, LevelSteps
  <2>5. Lifts(t[m]) \in Int
    <3>1. Lifts(t[m]) \in {-1, 0, 1}
      BY LiftIs
    <3> QED
      BY <3>1
  <2>6. /\ Level(t, a, m - 1) \in Int /\ Level(t, k, m - 1) \in Int
        /\ Level(t, a, m - 1) = Level(t, a, k - 1) + Level(t, k, m - 1)
    BY <2>2
  <2>7. n \in 0..N
    OBVIOUS
  <2> QED
    BY <1>2, <2>1, <2>3, <2>4, <2>5, <2>6, <2>7
<1>5. Sums(N)
  <2>1. N \in 0..N
    OBVIOUS
  <2>2. \A n \in 0..N : n \in good
    <3> HIDE DEF good
    <3> QED
      BY <1>3, <1>4, UpTo
  <2> QED
    BY <2>1, <2>2
<1>6. (k - 1) + N = M
  BY <1>1
<1> QED
  BY <1>2, <1>5, <1>6

-----------------------------------------------------------------------------
(* A turn of the brace scanner.                                            *)

BraceStates == [n : Nat, stack : Seq(Nat), pairs : SUBSET (Nat \X Nat)]

BraceTurn(e, c, r) ==
    /\ r.n = e.n + 1
    /\ OpensBrace(c) => r.stack = Append(e.stack, e.n + 1) /\ r.pairs = e.pairs
    /\ c = "}" /\ Len(e.stack) > 0 =>
        /\ r.stack = SubSeq(e.stack, 1, Len(e.stack) - 1)
        /\ r.pairs = e.pairs \cup {<<e.stack[Len(e.stack)], e.n + 1>>}
    /\ ~OpensBrace(c) /\ (c # "}" \/ Len(e.stack) = 0) => r.stack = e.stack /\ r.pairs = e.pairs

LEMMA BraceScanTurn ==
    ASSUME NEW e \in BraceStates, NEW c
    PROVE  Brace(e, c) \in BraceStates /\ BraceTurn(e, c, Brace(e, c))
<1>1. e.n \in Nat /\ e.stack \in Seq(Nat) /\ e.pairs \in SUBSET (Nat \X Nat)
  BY DEF BraceStates
<1>2. PICK r : r = Brace(e, c)
  OBVIOUS
<1>3. e = [n |-> e.n, stack |-> e.stack, pairs |-> e.pairs]
  BY DEF BraceStates
<1>4. \A x \in Nat, y \in Seq(Nat), z \in SUBSET (Nat \X Nat) :
        [n |-> x, stack |-> y, pairs |-> z] \in BraceStates
  BY DEF BraceStates
<1>5. Len(e.stack) \in Nat /\ (e.stack # <<>> <=> Len(e.stack) > 0) /\ (e.stack = <<>> <=> Len(e.stack) = 0)
  BY <1>1
<1>6. CASE OpensBrace(c)
  <2>1. r = [e EXCEPT !.n = e.n + 1, !.stack = Append(@, e.n + 1)]
    BY <1>2, <1>6, Zenon DEF Brace
  <2>2. r = [n |-> e.n + 1, stack |-> Append(e.stack, e.n + 1), pairs |-> e.pairs]
    BY <1>3, <2>1
  <2>3. e.n + 1 \in Nat /\ Append(e.stack, e.n + 1) \in Seq(Nat)
    BY <1>1
  <2>4. r \in BraceStates
    BY <1>1, <1>4, <2>2, <2>3
  <2>5. c # "}"
    BY <1>6, LiftIs
  <2>6. BraceTurn(e, c, r)
    BY <1>6, <2>2, <2>5, Zenon DEF BraceTurn
  <2> QED
    BY <1>2, <2>4, <2>6
<1>7. CASE ~OpensBrace(c) /\ c = "}" /\ e.stack # <<>>
  <2>1. PICK w : w = SubSeq(e.stack, 1, Len(e.stack) - 1)
    OBVIOUS
  <2>2. PICK q : q = e.pairs \cup {<<e.stack[Len(e.stack)], e.n + 1>>}
    OBVIOUS
  <2>3. r = [n |-> e.n + 1, stack |-> w, pairs |-> q]
    BY <1>2, <1>7, <2>1, <2>2, Zenon DEF Brace
  <2>4. w \in Seq(Nat) /\ e.stack[Len(e.stack)] \in Nat
    <3>1. PICK o \in Seq(Nat) : o = e.stack
      BY <1>1
    <3>2. Len(o) \in Nat /\ Len(o) > 0
      BY <1>5, <1>7, <3>1
    <3>3. SubSeq(o, 1, Len(o) - 1) \in Seq(Nat) /\ o[Len(o)] \in Nat
      BY <3>2
    <3> QED
      BY <2>1, <3>1, <3>3
  <2>5. e.n + 1 \in Nat /\ e.stack[Len(e.stack)] \in Nat
    BY <1>1, <2>4
  <2>6. q \in SUBSET (Nat \X Nat)
    BY <1>1, <2>2, <2>5
  <2>7. r \in BraceStates
    BY <1>4, <2>3, <2>4, <2>5, <2>6
  <2>8. Len(e.stack) # 0
    BY <1>5, <1>7
  <2>9. BraceTurn(e, c, r)
    BY <1>7, <2>1, <2>2, <2>3, <2>8, Zenon DEF BraceTurn
  <2> QED
    BY <1>2, <2>7, <2>9
<1>8. CASE ~OpensBrace(c) /\ ~(c = "}" /\ e.stack # <<>>)
  <2>1. r = [e EXCEPT !.n = e.n + 1]
    BY <1>2, <1>8, Zenon DEF Brace
  <2>2. r = [n |-> e.n + 1, stack |-> e.stack, pairs |-> e.pairs]
    BY <1>3, <2>1
  <2>3. e.n + 1 \in Nat
    BY <1>1
  <2>4. r \in BraceStates
    BY <1>1, <1>4, <2>2, <2>3
  <2>5. ~(c = "}" /\ Len(e.stack) > 0)
    BY <1>5, <1>8
  <2>6. BraceTurn(e, c, r)
    BY <1>8, <2>2, <2>5, Zenon DEF BraceTurn
  <2> QED
    BY <1>2, <2>4, <2>6
<1> QED
  BY <1>6, <1>7, <1>8

BraceStart == [n |-> 0, stack |-> <<>>, pairs |-> {}]

\* s holds what the loop has after every number of tokens.
BraceScanning(t, s) ==
    s = [n \in 0..Len(t) |-> IF n = 0 THEN BraceStart ELSE Brace(s[n - 1], t[n])]

LEMMA BracesIs ==
    ASSUME NEW t
    PROVE  Braces(t) = (CHOOSE s : BraceScanning(t, s))[Len(t)]
BY Zenon DEF Braces, BraceScanning, BraceStart

BraceRun(t, N, s) ==
    /\ s \in [0..N -> BraceStates] /\ s[0] = BraceStart /\ Braces(t) = s[N]
    /\ \A n \in 1..N : s[n] = Brace(s[n - 1], t[n])

LEMMA BraceSteps ==
    ASSUME NEW t, Len(t) \in Nat
    PROVE  \E s : BraceRun(t, Len(t), s)
<1>1. PICK N \in Nat : N = Len(t)
  OBVIOUS
<1>3. PICK F : F = [n \in 1..N |-> [w \in BraceStates |-> Brace(w, t[n])]]
  OBVIOUS
<1>4. F \in Turns(BraceStates, N)
  <2>1. \A n \in 1..N : \A w \in BraceStates : Brace(w, t[n]) \in BraceStates
    BY BraceScanTurn
  <2> QED
    BY <1>3, <2>1 DEF Turns
<1>5. BraceStart \in BraceStates
  BY DEF BraceStart, BraceStates
<1>6. PICK r : Course(BraceStates, BraceStart, N, F, r)
  BY <1>4, <1>5, Iterates, Zenon
<1>7. r \in [0..N -> BraceStates] /\ r[0] = BraceStart
  BY <1>6 DEF Course
<1>8. \A n \in 1..N : r[n] = Brace(r[n - 1], t[n])
  <2> SUFFICES ASSUME NEW n \in 1..N
               PROVE  r[n] = Brace(r[n - 1], t[n])
    OBVIOUS
  <2>1. n - 1 \in 0..N
    OBVIOUS
  <2>2. PICK w \in BraceStates : w = r[n - 1]
    BY <1>7, <2>1
  <2>3. F[n][w] = Brace(w, t[n])
    BY <1>3
  <2> QED
    BY <1>6, <2>2, <2>3 DEF Course
<1>9. BraceScanning(t, r)
  <2>1. r = [n \in 0..N |-> r[n]]
    BY <1>7
  <2>2. \A n \in 0..N : n # 0 => n \in 1..N
    OBVIOUS
  <2>3. \A n \in 0..N : r[n] = IF n = 0 THEN BraceStart ELSE Brace(r[n - 1], t[n])
    BY <1>7, <1>8, <2>2
  <2> QED
    BY <1>1, <2>1, <2>3, Zenon DEF BraceScanning
<1>10. PICK s : s = (CHOOSE h : BraceScanning(t, h))
  OBVIOUS
<1>11. BraceScanning(t, s) /\ Braces(t) = s[N]
  BY <1>1, <1>9, <1>10, BracesIs, Zenon
<1>12. s = [n \in 0..N |-> IF n = 0 THEN BraceStart ELSE Brace(s[n - 1], t[n])]
  BY <1>1, <1>11, Zenon DEF BraceScanning
<1>13. s[0] = BraceStart
  <2>1. 0 \in 0..N
    OBVIOUS
  <2> QED
    BY <1>12, <2>1, Zenon
<1>14. \A n \in 1..N : s[n] = Brace(s[n - 1], t[n])
  <2> SUFFICES ASSUME NEW n \in 1..N
               PROVE  s[n] = Brace(s[n - 1], t[n])
    OBVIOUS
  <2>1. n \in 0..N /\ n # 0
    OBVIOUS
  <2> QED
    BY <1>12, <2>1, Zenon
<1>15. \A n \in 0..N : s[n] \in BraceStates
  <2> DEFINE good == {n \in 0..N : s[n] \in BraceStates}
  <2>1. 0 \in good
    BY <1>5, <1>13
  <2>2. \A n \in 1..N : n - 1 \in good => n \in good
    <3> SUFFICES ASSUME NEW n \in 1..N, s[n - 1] \in BraceStates
                 PROVE  s[n] \in BraceStates
      OBVIOUS
    <3> QED
      BY <1>14, BraceScanTurn
  <2>3. \A n \in 0..N : n \in good
    <3> HIDE DEF good
    <3> QED
      BY <2>1, <2>2, UpTo
  <2> QED
    BY <2>3
<1>16. s \in [0..N -> BraceStates]
  <2>1. s = [n \in 0..N |-> s[n]]
    BY <1>12
  <2> QED
    BY <1>15, <2>1
<1> QED
  BY <1>1, <1>11, <1>13, <1>14, <1>16 DEF BraceRun


-----------------------------------------------------------------------------
(* The open braces and the pairs.                                          *)

\* The brace at a is open after the tokens up to n.
Pending(t, a, n) == OpensBrace(t[a]) /\ \A k \in a..n : Level(t, a, k) > 0

Pairs(t, n) == {p \in (1..n) \X (1..n) : p[1] < p[2] /\ Matched(t, p[1], p[2])}

\* w lists the open braces; one is as deep as there are entries above it.
Stacked(t, n, w) ==
    /\ \A j \in 1..Len(w) : /\ w[j] \in 1..n /\ Pending(t, w[j], n)
                            /\ Level(t, w[j], n) = Len(w) - j + 1
    /\ \A a \in 1..n : Pending(t, a, n) => \E j \in 1..Len(w) : w[j] = a

LEMMA PendingSteps ==
    ASSUME NEW t, NEW n \in Nat \ {0}, NEW a \in 1..n
    PROVE  Pending(t, a, n) <=> IF a = n THEN OpensBrace(t[n])
                                ELSE Pending(t, a, n - 1) /\ Level(t, a, n) > 0
<1>1. \A j \in a..n : j \in a..(n - 1) \/ j = n
  OBVIOUS
<1>2. a..(n - 1) \subseteq a..n /\ n \in a..n
  OBVIOUS
<1>3. CASE a = n
  <2>1. OpensBrace(t[n]) => Level(t, n, n) = 1
    <3>1. n \in Nat /\ n >= n /\ 0 + 1 = 1
      OBVIOUS
    <3>2. Level(t, n, n) = Level(t, n, n - 1) + Lifts(t[n])
      BY <3>1, LevelSteps
    <3> QED
      BY <3>1, <3>2, LevelStart, LiftIs
  <2>2. a..n = {n}
    BY <1>3
  <2> QED
    BY <1>3, <2>1, <2>2 DEF Pending
<1>4. CASE a # n
  BY <1>1, <1>2, <1>4 DEF Pending
<1> QED
  BY <1>3, <1>4

LEMMA MatchedIs ==
    ASSUME NEW t, NEW a, NEW n
    PROVE  Matched(t, a, n) <=> Pending(t, a, n - 1) /\ Level(t, a, n) = 0
BY DEF Matched, Pending

LEMMA PairSteps ==
    ASSUME NEW t, NEW n \in Nat \ {0}, NEW C,
           \A a \in 1..(n - 1) : a \in C <=> Matched(t, a, n)
    PROVE  Pairs(t, n) = Pairs(t, n - 1) \cup {<<a, n>> : a \in C \cap (1..(n - 1))}
<1>1. 1..(n - 1) \subseteq 1..n /\ n \in 1..n /\ (\A x \in 1..n : x \in 1..(n - 1) \/ x = n)
  OBVIOUS
<1>2. ASSUME NEW p, p \in Pairs(t, n)
      PROVE  p \in Pairs(t, n - 1) \cup {<<a, n>> : a \in C \cap (1..(n - 1))}
  <2>1. p = <<p[1], p[2]>> /\ p[1] \in 1..n /\ p[2] \in 1..n /\ p[1] < p[2] /\ Matched(t, p[1], p[2])
    BY <1>2 DEF Pairs
  <2>2. p[1] \in 1..(n - 1)
    BY <2>1
  <2>3. CASE p[2] = n
    BY <2>1, <2>2, <2>3
  <2>4. CASE p[2] # n
    <3>1. p[2] \in 1..(n - 1)
      BY <1>1, <2>1, <2>4
    <3> QED
      BY <2>1, <2>2, <3>1 DEF Pairs
  <2> QED
    BY <2>3, <2>4
<1>3. ASSUME NEW p, p \in Pairs(t, n - 1)
      PROVE  p \in Pairs(t, n)
  BY <1>1, <1>3 DEF Pairs
<1>4. ASSUME NEW a \in C \cap (1..(n - 1))
      PROVE  <<a, n>> \in Pairs(t, n)
  <2>1. PICK p : p = <<a, n>>
    OBVIOUS
  <2>2. p[1] = a /\ p[2] = n /\ a < n /\ Matched(t, a, n)
    BY <2>1
  <2>3. p \in (1..n) \X (1..n)
    BY <1>1, <2>1
  <2> QED
    BY <2>1, <2>2, <2>3 DEF Pairs
<1> QED
  BY <1>2, <1>3, <1>4

Nested(t, n, e) == e.n = n /\ Stacked(t, n, e.stack) /\ e.pairs = Pairs(t, n)

LEMMA NestedStart ==
    ASSUME NEW t
    PROVE  Nested(t, 0, BraceStart)
<1>1. BraceStart.n = 0 /\ BraceStart.stack = <<>> /\ BraceStart.pairs = {}
  BY DEF BraceStart
<1>2. \A x : x \notin 1..0
  OBVIOUS
<1>3. Pairs(t, 0) = {}
  BY <1>2 DEF Pairs
<1>4. Len(<<>>) = 0
  OBVIOUS
<1>5. Stacked(t, 0, <<>>)
  BY <1>2, <1>4, Zenon DEF Stacked
<1> QED
  BY <1>1, <1>3, <1>5, Zenon DEF Nested

LEMMA NestedStep ==
    ASSUME NEW t, NEW n \in Nat \ {0}, NEW e \in BraceStates, Nested(t, n - 1, e)
    PROVE  Nested(t, n, Brace(e, t[n]))
<1>1. PICK r \in BraceStates : r = Brace(e, t[n]) /\ BraceTurn(e, t[n], r)
  BY BraceScanTurn
<1>2. PICK w \in Seq(Nat) : w = e.stack
  BY DEF BraceStates
<1>3. PICK K \in Nat : K = Len(w)
  OBVIOUS
<1>4. /\ \A j \in 1..K : /\ w[j] \in 1..(n - 1) /\ Pending(t, w[j], n - 1)
                         /\ Level(t, w[j], n - 1) = K - j + 1
      /\ \A a \in 1..(n - 1) : Pending(t, a, n - 1) => \E j \in 1..K : w[j] = a
  BY <1>2, <1>3, Zenon DEF Nested, Stacked
<1>5. r.n = n /\ e.n = n - 1 /\ e.n + 1 = n /\ e.pairs = Pairs(t, n - 1)
  <2>1. e.n = n - 1 /\ e.pairs = Pairs(t, n - 1)
    BY DEF Nested
  <2>2. r.n = e.n + 1
    BY <1>1 DEF BraceTurn
  <2> QED
    BY <2>1, <2>2
<1>6. \A a \in 1..(n - 1) : /\ Level(t, a, n) \in Int /\ Level(t, a, n - 1) \in Int
                            /\ Level(t, a, n) = Level(t, a, n - 1) + Lifts(t[n])
                            /\ Pending(t, a, n - 1) => Level(t, a, n - 1) > 0
                            /\ Pending(t, a, n) <=> Pending(t, a, n - 1) /\ Level(t, a, n) > 0
  <2> SUFFICES ASSUME NEW a \in 1..(n - 1)
               PROVE  /\ Level(t, a, n) \in Int /\ Level(t, a, n - 1) \in Int
                      /\ Level(t, a, n) = Level(t, a, n - 1) + Lifts(t[n])
                      /\ Pending(t, a, n - 1) => Level(t, a, n - 1) > 0
                      /\ Pending(t, a, n) <=> Pending(t, a, n - 1) /\ Level(t, a, n) > 0
    OBVIOUS
  <2>1. a \in Nat \ {0} /\ n \in Nat /\ n >= a /\ a # n /\ a \in 1..n /\ n - 1 \in a..(n - 1)
    OBVIOUS
  <2>2. /\ Level(t, a, n) \in Int /\ Level(t, a, n - 1) \in Int
        /\ Level(t, a, n) = Level(t, a, n - 1) + Lifts(t[n])
    BY <2>1, LevelSteps
  <2>3. Pending(t, a, n) <=> Pending(t, a, n - 1) /\ Level(t, a, n) > 0
    BY <2>1, PendingSteps
  <2>4. Pending(t, a, n - 1) => Level(t, a, n - 1) > 0
    BY <2>1 DEF Pending
  <2> QED
    BY <2>2, <2>3, <2>4
<1>7. Pending(t, n, n) <=> OpensBrace(t[n])
  BY PendingSteps
<1>8. \A a \in 1..n : a = n \/ a \in 1..(n - 1)
  OBVIOUS
<1>9. 1..(n - 1) \subseteq 1..n /\ n \in 1..n
  OBVIOUS
<1>10. CASE OpensBrace(t[n])
  <2>1. Lifts(t[n]) = 1
    BY <1>10, LiftIs
  <2>2. \A a \in 1..(n - 1) : Pending(t, a, n) <=> Pending(t, a, n - 1)
    BY <1>6, <2>1
  <2>3. PICK v : v = Append(w, n)
    OBVIOUS
  <2>4. v \in Seq(Nat) /\ Len(v) = K + 1 /\ v[K + 1] = n /\ \A j \in 1..K : v[j] = w[j]
    BY <1>3, <2>3
  <2>5. ASSUME NEW j \in 1..(K + 1)
        PROVE  v[j] \in 1..n /\ Pending(t, v[j], n) /\ Level(t, v[j], n) = (K + 1) - j + 1
    <3>1. CASE j = K + 1
      <4>1. Level(t, n, n) = 1
        <5>1. n \in Nat /\ n >= n /\ 0 + 1 = 1
          OBVIOUS
        <5>2. Level(t, n, n) = Level(t, n, n - 1) + Lifts(t[n])
          BY <5>1, LevelSteps
        <5> QED
          BY <2>1, <5>1, <5>2, LevelStart
      <4>2. (K + 1) - j + 1 = 1
        BY <3>1
      <4> QED
        BY <1>7, <1>9, <1>10, <2>4, <3>1, <4>1, <4>2
    <3>2. CASE j # K + 1
      <4>1. j \in 1..K
        BY <3>2
      <4>2. PICK a \in 1..(n - 1) : a = w[j] /\ Pending(t, a, n - 1) /\ Level(t, a, n - 1) = K - j + 1
        BY <1>4, <4>1
      <4>3. Pending(t, a, n) /\ Level(t, a, n) = K - j + 1 + 1
        BY <1>6, <2>1, <2>2, <4>2
      <4>4. v[j] = a /\ a \in 1..n /\ K - j + 1 + 1 = (K + 1) - j + 1
        BY <2>4, <4>1, <4>2
      <4> QED
        BY <4>3, <4>4
    <3> QED
      BY <3>1, <3>2
  <2>6. ASSUME NEW a \in 1..n, Pending(t, a, n)
        PROVE  \E j \in 1..(K + 1) : v[j] = a
    <3>1. CASE a = n
      <4>1. K + 1 \in 1..(K + 1)
        OBVIOUS
      <4> QED
        BY <2>4, <3>1, <4>1
    <3>2. CASE a \in 1..(n - 1)
      <4>1. PICK j \in 1..K : w[j] = a
        BY <1>4, <2>2, <2>6, <3>2
      <4>2. j \in 1..(K + 1)
        OBVIOUS
      <4> QED
        BY <2>4, <4>1, <4>2
    <3> QED
      BY <1>8, <3>1, <3>2
  <2>7. Stacked(t, n, v)
    BY <2>4, <2>5, <2>6, Zenon DEF Stacked
  <2>8. Pairs(t, n) = Pairs(t, n - 1)
    <3>1. \A a \in 1..(n - 1) : a \in {} <=> Matched(t, a, n)
      <4> SUFFICES ASSUME NEW a \in 1..(n - 1), Matched(t, a, n) PROVE FALSE
        OBVIOUS
      <4>1. Pending(t, a, n - 1) /\ Level(t, a, n) = 0
        BY MatchedIs
      <4> QED
        BY <1>6, <2>1, <4>1
    <3>2. Pairs(t, n) = Pairs(t, n - 1) \cup {<<a, n>> : a \in {} \cap (1..(n - 1))}
      BY <3>1, PairSteps
    <3> QED
      BY <3>2
  <2>9. r.stack = v /\ r.pairs = e.pairs
    BY <1>1, <1>2, <1>5, <1>10, <2>3, Zenon DEF BraceTurn
  <2> QED
    BY <1>1, <1>5, <2>7, <2>8, <2>9, Zenon DEF Nested
<1>11. CASE t[n] = "}" /\ K > 0
  <2>1. ~OpensBrace(t[n]) /\ Lifts(t[n]) = -1
    BY <1>11, LiftIs DEF Lifts
  <2>2. PICK v : v = SubSeq(w, 1, K - 1)
    OBVIOUS
  <2>3. v \in Seq(Nat) /\ Len(v) = K - 1 /\ \A j \in 1..(K - 1) : v[j] = w[j]
    <3>1. K > 0
      BY <1>11, Zenon
    <3> QED
      BY <1>3, <2>2, <3>1
  <2>4. PICK top \in 1..(n - 1) : /\ top = w[K] /\ Pending(t, top, n - 1)
                                  /\ Level(t, top, n - 1) = 1
    <3>1. K > 0
      BY <1>11, Zenon
    <3>2. K \in 1..K /\ K - K + 1 = 1
      BY <3>1
    <3> QED
      BY <1>4, <3>2
  <2>5. Matched(t, top, n)
    <3>1. Level(t, top, n) = 0
      BY <1>6, <2>1, <2>4
    <3> QED
      BY <2>4, <3>1, MatchedIs
  <2>6. ASSUME NEW j \in 1..(K - 1)
        PROVE  v[j] \in 1..n /\ Pending(t, v[j], n) /\ Level(t, v[j], n) = (K - 1) - j + 1
    <3>1. j \in 1..K
      OBVIOUS
    <3>2. PICK a \in 1..(n - 1) : a = w[j] /\ Pending(t, a, n - 1) /\ Level(t, a, n - 1) = K - j + 1
      BY <1>4, <3>1
    <3>3. Level(t, a, n) = (K - 1) - j + 1
      BY <1>6, <2>1, <3>2
    <3>4. (K - 1) - j + 1 > 0
      OBVIOUS
    <3>5. Pending(t, a, n)
      BY <1>6, <3>2, <3>3, <3>4
    <3> QED
      BY <1>9, <2>3, <3>2, <3>3, <3>5
  <2>7. \A a \in 1..(n - 1) : Pending(t, a, n - 1) /\ a # top => Pending(t, a, n) /\ \E j \in 1..(K - 1) : w[j] = a
    <3> SUFFICES ASSUME NEW a \in 1..(n - 1), Pending(t, a, n - 1), a # top
                 PROVE  Pending(t, a, n) /\ \E j \in 1..(K - 1) : w[j] = a
      OBVIOUS
    <3>1. PICK j \in 1..K : w[j] = a
      BY <1>4
    <3>2. j # K
      BY <2>4, <3>1
    <3>3. j \in 1..(K - 1)
      BY <3>2
    <3> QED
      BY <2>3, <2>6, <3>1, <3>3
  <2>8. ASSUME NEW a \in 1..n, Pending(t, a, n)
        PROVE  \E j \in 1..(K - 1) : v[j] = a
    <3>1. a # n
      BY <1>7, <2>1, <2>8
    <3>2. a \in 1..(n - 1)
      BY <1>8, <3>1
    <3>3. Pending(t, a, n - 1) /\ Level(t, a, n) > 0
      BY <1>6, <2>8, <3>2
    <3>4. a # top
      BY <1>6, <2>1, <2>4, <3>3
    <3> QED
      BY <2>3, <2>7, <3>2, <3>3, <3>4
  <2>9. Stacked(t, n, v)
    BY <2>3, <2>6, <2>8, Zenon DEF Stacked
  <2>10. Pairs(t, n) = Pairs(t, n - 1) \cup {<<top, n>>}
    <3>1. ASSUME NEW a \in 1..(n - 1)
          PROVE  a \in {top} <=> Matched(t, a, n)
      <4>1. ASSUME Matched(t, a, n), a # top PROVE FALSE
        <5>1. Pending(t, a, n - 1) /\ Level(t, a, n) = 0
          BY <4>1, MatchedIs
        <5>2. Pending(t, a, n)
          BY <2>7, <4>1, <5>1
        <5>3. Level(t, a, n) > 0
          BY <1>6, <5>2
        <5> QED
          BY <5>1, <5>3
      <4> QED
        BY <2>5, <4>1
    <3>2. Pairs(t, n) = Pairs(t, n - 1) \cup {<<a, n>> : a \in {top} \cap (1..(n - 1))}
      BY <3>1, PairSteps
    <3>3. {top} \cap (1..(n - 1)) = {top}
      OBVIOUS
    <3> QED
      BY <3>2, <3>3
  <2>11. r.stack = v /\ r.pairs = e.pairs \cup {<<top, n>>}
    BY <1>1, <1>2, <1>3, <1>5, <1>11, <2>2, <2>4, Zenon DEF BraceTurn
  <2> QED
    BY <1>1, <1>5, <2>9, <2>10, <2>11, Zenon DEF Nested
<1>12. CASE ~OpensBrace(t[n]) /\ (t[n] # "}" \/ K = 0)
  <2>1. \A a \in 1..(n - 1) : Pending(t, a, n - 1) => Level(t, a, n) = Level(t, a, n - 1)
    <3>1. CASE K = 0
      BY <1>4, <3>1
    <3>2. CASE t[n] # "}"
      <4>1. Lifts(t[n]) = 0
        BY <1>12, <3>2 DEF Lifts
      <4> QED
        BY <1>6, <4>1
    <3> QED
      BY <1>12, <3>1, <3>2
  <2>2. \A a \in 1..(n - 1) : Pending(t, a, n) <=> Pending(t, a, n - 1)
    BY <1>6, <2>1
  <2>3. ~Pending(t, n, n)
    BY <1>7, <1>12
  <2>4. \A j \in 1..K : w[j] \in 1..n /\ Pending(t, w[j], n) /\ Level(t, w[j], n) = K - j + 1
    BY <1>4, <1>9, <2>1, <2>2
  <2>5. \A a \in 1..n : Pending(t, a, n) => \E j \in 1..K : w[j] = a
    BY <1>4, <1>8, <2>2, <2>3
  <2>6. Stacked(t, n, w)
    BY <1>3, <2>4, <2>5, Zenon DEF Stacked
  <2>7. Pairs(t, n) = Pairs(t, n - 1)
    <3>1. \A a \in 1..(n - 1) : a \in {} <=> Matched(t, a, n)
      <4> SUFFICES ASSUME NEW a \in 1..(n - 1), Matched(t, a, n) PROVE FALSE
        OBVIOUS
      <4>1. Pending(t, a, n - 1) /\ Level(t, a, n) = 0
        BY MatchedIs
      <4> QED
        BY <1>6, <2>1, <4>1
    <3>2. Pairs(t, n) = Pairs(t, n - 1) \cup {<<a, n>> : a \in {} \cap (1..(n - 1))}
      BY <3>1, PairSteps
    <3> QED
      BY <3>2
  <2>8. r.stack = w /\ r.pairs = e.pairs
    BY <1>1, <1>2, <1>3, <1>12, Zenon DEF BraceTurn
  <2> QED
    BY <1>1, <1>5, <2>6, <2>7, <2>8, Zenon DEF Nested
<1>13. K = 0 \/ K > 0
  OBVIOUS
<1> QED
  BY <1>10, <1>11, <1>12, <1>13


LEMMA BracesNested ==
    ASSUME NEW t, Len(t) \in Nat
    PROVE  Braces(t) \in BraceStates /\ Nested(t, Len(t), Braces(t))
<1>1. PICK N \in Nat : N = Len(t)
  OBVIOUS
<1>2. PICK s : BraceRun(t, N, s)
  BY <1>1, BraceSteps
<1>3. /\ \A n \in 0..N : s[n] \in BraceStates
      /\ s[0] = BraceStart /\ Braces(t) = s[N]
      /\ \A n \in 1..N : s[n] = Brace(s[n - 1], t[n])
  BY <1>2 DEF BraceRun
<1> DEFINE good == {n \in 0..N : Nested(t, n, s[n])}
<1>4. 0 \in good
  <2>1. 0 \in 0..N
    OBVIOUS
  <2> QED
    BY <1>3, <2>1, NestedStart
<1>5. \A n \in 1..N : n - 1 \in good => n \in good
  <2> SUFFICES ASSUME NEW n \in 1..N, Nested(t, n - 1, s[n - 1])
               PROVE  n \in 0..N /\ Nested(t, n, s[n])
    OBVIOUS
  <2>1. n \in 0..N /\ n - 1 \in 0..N /\ n \in Nat \ {0}
    OBVIOUS
  <2>2. s[n - 1] \in BraceStates /\ s[n] = Brace(s[n - 1], t[n])
    BY <1>3, <2>1
  <2> QED
    BY <2>1, <2>2, NestedStep
<1>6. \A n \in 0..N : n \in good
  <2> HIDE DEF good
  <2> QED
    BY <1>4, <1>5, UpTo
<1>7. N \in 0..N
  OBVIOUS
<1> QED
  BY <1>1, <1>3, <1>6, <1>7

\* A brace is open or has found its partner.
LEMMA PartnerFound ==
    ASSUME NEW t, NEW N \in Nat
    PROVE  \A a \in 1..N : OpensBrace(t[a]) =>
                \/ Pending(t, a, N)
                \/ \E b \in 1..N : a < b /\ Matched(t, a, b)
<1> DEFINE Found(n) == \A a \in 1..n : OpensBrace(t[a]) =>
                            \/ Pending(t, a, n)
                            \/ \E b \in 1..n : a < b /\ Matched(t, a, b)
           good == {n \in 0..N : Found(n)}
<1>1. 0 \in good
  OBVIOUS
<1>2. \A n \in 1..N : n - 1 \in good => n \in good
  <2> SUFFICES ASSUME NEW n \in 1..N, Found(n - 1), NEW a \in 1..n, OpensBrace(t[a])
               PROVE  n \in 0..N /\ (Pending(t, a, n) \/ \E b \in 1..n : a < b /\ Matched(t, a, b))
    OBVIOUS
  <2>1. n \in 0..N /\ n \in Nat \ {0} /\ n \in 1..n
    OBVIOUS
  <2>2. CASE a = n
    BY <2>1, <2>2, PendingSteps
  <2>3. CASE a # n
    <3>1. a \in 1..(n - 1) /\ a \in Nat \ {0} /\ n \in Nat /\ n >= a /\ a < n /\ n - 1 \in a..(n - 1)
      BY <2>3
    <3>2. CASE Pending(t, a, n - 1)
      <4>1. /\ Level(t, a, n) \in Int /\ Level(t, a, n - 1) \in Int
            /\ Level(t, a, n) = Level(t, a, n - 1) + Lifts(t[n])
        BY <3>1, LevelSteps
      <4>2. Level(t, a, n - 1) > 0
        BY <3>1, <3>2 DEF Pending
      <4>3. Lifts(t[n]) \in {-1, 0, 1}
        BY LiftIs
      <4>4. Level(t, a, n) > 0 \/ Level(t, a, n) = 0
        BY <4>1, <4>2, <4>3
      <4>5. CASE Level(t, a, n) > 0
        BY <2>1, <2>3, <3>2, <4>5, PendingSteps
      <4>6. CASE Level(t, a, n) = 0
        BY <2>1, <3>1, <3>2, <4>6, MatchedIs
      <4> QED
        BY <4>4, <4>5, <4>6
    <3>3. CASE ~Pending(t, a, n - 1)
      <4>1. PICK b \in 1..(n - 1) : a < b /\ Matched(t, a, b)
        BY <3>1, <3>3
      <4>2. b \in 1..n
        OBVIOUS
      <4> QED
        BY <2>1, <4>1, <4>2
    <3> QED
      BY <3>2, <3>3
  <2> QED
    BY <2>2, <2>3
<1>3. \A n \in 0..N : n \in good
  <2> HIDE DEF good
  <2> QED
    BY <1>1, <1>2, UpTo
<1>4. N \in 0..N
  OBVIOUS
<1> QED
  BY <1>3, <1>4

\* The stack is empty at the end exactly when every brace has its partner.
LEMMA BalancedRight ==
    ASSUME NEW t, Len(t) \in Nat
    PROVE  /\ Braces(t).pairs = Pairs(t, Len(t))
           /\ Braces(t).stack = <<>> <=>
                \A a \in 1..Len(t) : OpensBrace(t[a]) =>
                    \E b \in 1..Len(t) : a < b /\ Matched(t, a, b)
<1>1. PICK N \in Nat : N = Len(t)
  OBVIOUS
<1>2. PICK e \in BraceStates : e = Braces(t) /\ Nested(t, N, e)
  BY <1>1, BracesNested
<1>3. PICK w \in Seq(Nat) : w = e.stack
  BY DEF BraceStates
<1>4. e.pairs = Pairs(t, N) /\ Stacked(t, N, w)
  BY <1>2, <1>3 DEF Nested
<1>5. ASSUME w = <<>>, NEW a \in 1..N, OpensBrace(t[a])
      PROVE  \E b \in 1..N : a < b /\ Matched(t, a, b)
  <2>1. Len(w) = 0
    BY <1>5
  <2>2. ~Pending(t, a, N)
    BY <1>4, <2>1 DEF Stacked
  <2> QED
    BY <1>5, <2>2, PartnerFound
<1>6. ASSUME w # <<>>
      PROVE  \E a \in 1..N : OpensBrace(t[a]) /\ ~\E b \in 1..N : a < b /\ Matched(t, a, b)
  <2>1. 1 \in 1..Len(w)
    BY <1>6
  <2>2. PICK a \in 1..N : Pending(t, a, N)
    BY <1>4, <2>1 DEF Stacked
  <2>3. ASSUME NEW b \in 1..N, a < b, Matched(t, a, b)
        PROVE  FALSE
    <3>1. b \in a..N
      BY <2>3
    <3>2. Level(t, a, b) > 0 /\ Level(t, a, b) = 0
      BY <2>2, <2>3, <3>1 DEF Pending, Matched
    <3> QED
      BY <3>2
  <2>4. OpensBrace(t[a])
    BY <2>2 DEF Pending
  <2> QED
    BY <2>3, <2>4
<1> QED
  BY <1>1, <1>2, <1>3, <1>4, <1>5, <1>6, Zenon

-----------------------------------------------------------------------------
(* Which function an anchor belongs to.                                    *)

LEMMA OneInOther ==
    ASSUME NEW t, NEW a \in Nat \ {0}, NEW b \in Nat, NEW c \in Nat, NEW d \in Nat,
           Matched(t, a, b), Matched(t, c, d), a < c, c < b, c < d
    PROVE  d < b
<1> SUFFICES ASSUME b <= d PROVE FALSE
  OBVIOUS
<1>1. c > a /\ b >= c /\ c - 1 \in a..(b - 1)
  OBVIOUS
<1>2. /\ Level(t, a, b) \in Int /\ Level(t, a, c - 1) \in Int /\ Level(t, c, b) \in Int
      /\ Level(t, a, b) = Level(t, a, c - 1) + Level(t, c, b)
  BY <1>1, LevelSums
<1>3. Level(t, a, b) = 0 /\ Level(t, a, c - 1) > 0
  BY <1>1 DEF Matched
<1>4. CASE b = d
  <2>1. Level(t, c, b) = 0
    BY <1>4 DEF Matched
  <2> QED
    BY <1>2, <1>3, <2>1
<1>5. CASE b # d
  <2>1. b \in c..(d - 1)
    BY <1>5
  <2>2. Level(t, c, b) > 0
    BY <2>1 DEF Matched
  <2> QED
    BY <1>2, <1>3, <2>2
<1> QED
  BY <1>4, <1>5

LEMMA Leftmost ==
    ASSUME NEW C, C # {}, \A p \in C : p[1] \in Nat
    PROVE  \E p \in C : \A q \in C : p[1] <= q[1]
<1>1. PICK S : S = {p[1] : p \in C}
  OBVIOUS
<1>2. S \subseteq Nat /\ S # {}
  BY <1>1
<1>3. PICK n \in S : \A m \in S : ~(<<m, n>> \in OpToRel(<, Nat))
  BY <1>2, WFMin, NatLessThanWellFounded, Zenon
<1>4. \A m \in S : ~(m < n)
  BY <1>2, <1>3 DEF OpToRel
<1>5. PICK p \in C : p[1] = n
  BY <1>1
<1>6. \A q \in C : p[1] <= q[1]
  <2> SUFFICES ASSUME NEW q \in C PROVE p[1] <= q[1]
    OBVIOUS
  <2>1. q[1] \in S /\ q[1] \in Nat /\ p[1] \in Nat
    BY <1>1
  <2> QED
    BY <1>4, <1>5, <2>1
<1> QED
  BY <1>6

LEMMA BlockIs ==
    ASSUME NEW t \in Seq(CodeToken)
    PROVE  /\ Blocks(t) = Pairs(t, Len(t))
           /\ \A p \in Blocks(t) : /\ p[1] \in 1..Len(t) /\ p[2] \in 1..Len(t) /\ p[1] < p[2]
                                   /\ Matched(t, p[1], p[2]) /\ OpensBrace(t[p[1]])
<1>1. DOMAIN t = 1..Len(t)
  OBVIOUS
<1>2. Blocks(t) = Pairs(t, Len(t))
  BY <1>1 DEF Blocks, Pairs
<1>3. \A p \in Pairs(t, Len(t)) : /\ p[1] \in 1..Len(t) /\ p[2] \in 1..Len(t) /\ p[1] < p[2]
                                  /\ Matched(t, p[1], p[2])
  BY DEF Pairs
<1> QED
  BY <1>2, <1>3 DEF Matched

LEMMA BodyIs ==
    ASSUME NEW t \in Seq(CodeToken), NEW o \in 1..Len(t), NEW b \in 1..Len(t), OpensBrace(t[b])
    PROVE  b \in BodyBrace(t, o) <=> /\ o <= b
                                     /\ \A i \in o..b - 1 : t[i] \notin {"{", ";"}
                                     /\ Braced => o = b
<1>1. CASE Braced
  <2>1. BodyBrace(t, o) = {o}
    BY <1>1 DEF BodyBrace
  <2>2. o <= o /\ \A i : i \notin o..(o - 1)
    OBVIOUS
  <2>3. o = b => o <= b /\ \A i \in o..b - 1 : t[i] \notin {"{", ";"}
    BY <2>2
  <2> QED
    BY <1>1, <2>1, <2>3
<1>2. CASE ~Braced
  <2>1. \A c : OpensBrace(c) <=> c = "{"
    BY <1>2 DEF OpensBrace
  <2>2. PICK S : S = {i \in o..Len(t) : OpensBrace(t[i])}
    OBVIOUS
  <2>3. BodyBrace(t, o) = {x \in First(S) : \A i \in o..x : t[i] # ";"}
    BY <1>2, <2>2 DEF BodyBrace
  <2>4. ASSUME b \in BodyBrace(t, o)
        PROVE  o <= b /\ \A i \in o..b - 1 : t[i] \notin {"{", ";"}
    <3>1. b \in S /\ (\A j \in S : b <= j) /\ \A i \in o..b : t[i] # ";"
      BY <2>3, <2>4 DEF First
    <3>2. b \in o..Len(t)
      BY <2>2, <3>1
    <3>3. ASSUME NEW i \in o..b - 1
          PROVE  t[i] # "{" /\ t[i] # ";"
      <4>1. i \in o..b /\ i \in o..Len(t) /\ ~(b <= i)
        BY <3>2
      <4>2. i \notin S
        BY <3>1, <4>1
      <4>3. ~OpensBrace(t[i])
        BY <2>2, <4>1, <4>2
      <4> QED
        BY <2>1, <3>1, <4>1, <4>3
    <3>4. o <= b
      BY <3>2
    <3> QED
      BY <3>3, <3>4, Zenon
  <2>5. ASSUME o <= b, \A i \in o..b - 1 : t[i] \notin {"{", ";"}
        PROVE  b \in BodyBrace(t, o)
    <3>1. b \in o..Len(t) /\ b \in S
      <4>1. o <= b
        BY <2>5, Zenon
      <4> QED
        BY <2>2, <4>1
    <3>2. \A j \in S : b <= j
      <4> SUFFICES ASSUME NEW j \in S, ~(b <= j) PROVE FALSE
        OBVIOUS
      <4>1. j \in o..Len(t) /\ OpensBrace(t[j])
        BY <2>2
      <4>2. j \in o..b - 1
        BY <4>1
      <4> QED
        BY <2>1, <2>5, <4>1, <4>2
    <3>3. \A i \in o..b : t[i] # ";"
      <4> SUFFICES ASSUME NEW i \in o..b PROVE t[i] # ";"
        OBVIOUS
      <4>1. i = b \/ i \in o..b - 1
        OBVIOUS
      <4>2. t[b] = "{"
        BY <2>1
      <4> QED
        BY <2>5, <4>1, <4>2
    <3> QED
      BY <2>3, <3>1, <3>2, <3>3 DEF First
  <2> QED
    BY <1>2, <2>4, <2>5
<1> QED
  BY <1>1, <1>2


\* The blocks around token o.
Around(t, o) == {p \in Blocks(t) : p[1] < o /\ o < p[2]}

LEMMA AroundTop ==
    ASSUME NEW t \in Seq(CodeToken), NEW o \in 1..Len(t), NEW p \in Around(t, o)
    PROVE  p \in TopBlocks(t) <=> \A q \in Around(t, o) : p[1] <= q[1]
<1>1. \A q \in Around(t, o) : /\ q \in Blocks(t) /\ q[1] \in Nat \ {0} /\ q[2] \in Nat
                              /\ q[1] < q[2] /\ q[1] < o /\ o < q[2] /\ Matched(t, q[1], q[2])
  BY BlockIs DEF Around
<1>2. ASSUME p \in TopBlocks(t), NEW q \in Around(t, o)
      PROVE  p[1] <= q[1]
  <2>1. /\ p[1] \in Nat \ {0} /\ p[2] \in Nat /\ p[1] < p[2] /\ p[1] < o /\ Matched(t, p[1], p[2])
        /\ q \in Blocks(t) /\ q[1] \in Nat \ {0} /\ q[2] \in Nat /\ o < q[2] /\ Matched(t, q[1], q[2])
    BY <1>1
  <2>2. ASSUME q[1] < p[1] PROVE FALSE
    <3>1. p[1] < q[2]
      BY <2>1
    <3>2. p[2] < q[2]
      BY <2>1, <2>2, <3>1, OneInOther
    <3> QED
      BY <1>2, <2>1, <2>2, <3>2 DEF TopBlocks
  <2> QED
    BY <2>1, <2>2
<1>3. ASSUME \A q \in Around(t, o) : p[1] <= q[1]
      PROVE  p \in TopBlocks(t)
  <2>1. p \in Blocks(t) /\ p[1] \in Nat /\ p[2] \in Nat /\ p[1] < o /\ o < p[2]
    BY <1>1
  <2>2. ASSUME NEW q \in Blocks(t), q[1] < p[1], p[2] < q[2] PROVE FALSE
    <3>1. q[1] \in Nat /\ q[2] \in Nat
      BY BlockIs
    <3>2. q[1] < o /\ o < q[2]
      BY <2>1, <2>2, <3>1
    <3>3. q \in Around(t, o)
      BY <3>2 DEF Around
    <3>4. p[1] <= q[1]
      BY <1>3, <3>3
    <3> QED
      BY <2>1, <2>2, <3>1, <3>4
  <2> QED
    BY <2>1, <2>2 DEF TopBlocks
<1> QED
  BY <1>2, <1>3

\* What of Owns is about an anchor outside all blocks.
Heads(t, p, o) ==
    o <= p[1] /\ (\A i \in o..p[1] - 1 : t[i] \notin {"{", ";"}) /\ (Braced => o = p[1])

LEMMA OwnsIs ==
    ASSUME NEW t \in Seq(CodeToken), NEW o \in 1..Len(t), NEW p \in TopBlocks(t)
    PROVE  Owns(t, p, o) <=> \/ p \in Around(t, o)
                             \/ Heads(t, p, o) /\ Around(t, o) = {}
<1>1. p \in Around(t, o) <=> p[1] < o /\ o < p[2]
  BY DEF Around, TopBlocks
<1>2. (~\E q \in TopBlocks(t) : q[1] < o /\ o < q[2]) <=> Around(t, o) = {}
  <2>1. ASSUME NEW q \in TopBlocks(t), q[1] < o, o < q[2] PROVE Around(t, o) # {}
    BY <2>1 DEF Around, TopBlocks
  <2>2. ASSUME Around(t, o) # {} PROVE \E q \in TopBlocks(t) : q[1] < o /\ o < q[2]
    <3>1. \A q \in Around(t, o) : q[1] \in Nat
      BY BlockIs DEF Around
    <3>2. PICK q \in Around(t, o) : \A x \in Around(t, o) : q[1] <= x[1]
      BY <2>2, <3>1, Leftmost
    <3>3. q \in TopBlocks(t)
      BY <3>2, AroundTop
    <3> QED
      BY <3>3 DEF Around
  <2> QED
    BY <2>1, <2>2, Zenon
<1> QED
  BY <1>1, <1>2, Zenon DEF Owns, Heads

LEMMA CandidateRight ==
    ASSUME NEW t \in Seq(CodeToken), NEW o \in 1..Len(t)
    PROVE  Candidate(t, Blocks(t), o) = {p \in TopBlocks(t) : Owns(t, p, o)}
<1>1. TopBlocks(t) \subseteq Blocks(t) /\ Around(t, o) \subseteq Blocks(t)
  BY DEF TopBlocks, Around
<1>2. CASE Around(t, o) # {}
  <2>1. Candidate(t, Blocks(t), o) = {p \in Around(t, o) : \A q \in Around(t, o) : p[1] <= q[1]}
    BY <1>2, Zenon DEF Candidate, Around
  <2>2. \A p \in TopBlocks(t) : Owns(t, p, o) <=> p \in Around(t, o)
    BY <1>2, OwnsIs
  <2>3. \A p \in Around(t, o) : p \in TopBlocks(t) <=> \A q \in Around(t, o) : p[1] <= q[1]
    BY AroundTop
  <2>4. \A p : p \in Candidate(t, Blocks(t), o) <=> p \in Around(t, o) /\ p \in TopBlocks(t)
    BY <2>1, <2>3, Zenon
  <2>5. \A p : p \in {x \in TopBlocks(t) : Owns(t, x, o)} <=> p \in Around(t, o) /\ p \in TopBlocks(t)
    BY <2>2, Zenon
  <2> QED
    BY <2>4, <2>5, Zenon
<1>3. CASE Around(t, o) = {}
  <2>1. Candidate(t, Blocks(t), o) = {p \in Blocks(t) : p[1] \in BodyBrace(t, o)}
    BY <1>3, Zenon DEF Candidate, Around
  <2>2. \A p \in Blocks(t) : p[1] \in BodyBrace(t, o) <=> Heads(t, p, o)
    <3> SUFFICES ASSUME NEW p \in Blocks(t)
                 PROVE  p[1] \in BodyBrace(t, o) <=> Heads(t, p, o)
      OBVIOUS
    <3>1. PICK b \in 1..Len(t) : b = p[1] /\ OpensBrace(t[b])
      BY BlockIs
    <3>2. b \in BodyBrace(t, o) <=> /\ o <= b
                                    /\ \A i \in o..b - 1 : t[i] \notin {"{", ";"}
                                    /\ Braced => o = b
      BY <3>1, BodyIs
    <3> QED
      BY <3>1, <3>2, Zenon DEF Heads
  <2>3. \A p \in TopBlocks(t) : Owns(t, p, o) <=> Heads(t, p, o)
    BY <1>3, OwnsIs
  <2>4. ASSUME NEW p \in Blocks(t), Heads(t, p, o)
        PROVE  p \in TopBlocks(t)
    <3>1. /\ p[1] \in Nat /\ p[2] \in Nat /\ p[1] < p[2] /\ o <= p[1] /\ (Braced => o = p[1])
          /\ \A i \in o..p[1] - 1 : ~OpensBrace(t[i]) \/ Braced
      <4>1. p[1] \in Nat /\ p[2] \in Nat /\ p[1] < p[2]
        BY BlockIs
      <4>2. o <= p[1] /\ (Braced => o = p[1])
        BY <2>4, Zenon DEF Heads
      <4>3. \A i \in o..p[1] - 1 : ~OpensBrace(t[i]) \/ Braced
        BY <2>4 DEF Heads, OpensBrace
      <4> QED
        BY <4>1, <4>2, <4>3
    <3>2. ASSUME NEW q \in Blocks(t), q[1] < p[1], p[2] < q[2] PROVE FALSE
      <4>1. q[1] \in Nat /\ q[2] \in Nat /\ OpensBrace(t[q[1]])
        BY BlockIs
      <4>2. q \notin Around(t, o)
        BY <1>3
      <4>3. ~(q[1] < o /\ o < q[2])
        BY <4>2 DEF Around
      <4>4. o < q[2]
        BY <3>1, <3>2, <4>1
      <4>5. q[1] \in o..p[1] - 1
        BY <3>1, <3>2, <4>1, <4>3, <4>4
      <4>6. Braced
        BY <3>1, <4>1, <4>5
      <4>7. o = p[1]
        BY <3>1, <4>6
      <4> QED
        BY <3>1, <4>1, <4>5, <4>7
    <3> QED
      BY <3>2 DEF TopBlocks
  <2>5. \A p : p \in Candidate(t, Blocks(t), o) <=> p \in TopBlocks(t) /\ Heads(t, p, o)
    BY <1>1, <2>1, <2>2, <2>4
  <2>6. \A p : p \in {x \in TopBlocks(t) : Owns(t, x, o)} <=> p \in TopBlocks(t) /\ Heads(t, p, o)
    BY <2>3, Zenon
  <2> QED
    BY <2>5, <2>6, Zenon
<1> QED
  BY <1>2, <1>3

Owners(t) == {p \in TopBlocks(t) : \E o \in DOMAIN t : t[o] = "anchor" /\ Owns(t, p, o)}

Balanced(t) ==
    \A a \in DOMAIN t : OpensBrace(t[a]) => \E b \in DOMAIN t : a < b /\ Matched(t, a, b)

LEMMA ScopeRight ==
    ASSUME NEW t \in Seq(CodeToken)
    PROVE  IF Balanced(t) /\ Cardinality(Owners(t)) = 1
           THEN ScopeBounds(t) \in Owners(t)
           ELSE ScopeBounds(t) = Refused
<1>1. DOMAIN t = 1..Len(t) /\ Len(t) \in Nat
  OBVIOUS
<1>2. PICK anchors : anchors = {i \in DOMAIN t : t[i] = "anchor"}
  OBVIOUS
<1>3. PICK st : st = Braces(t)
  OBVIOUS
<1>4. PICK found : found = UNION {Candidate(t, st.pairs, o) : o \in anchors}
  OBVIOUS
<1>5. st.pairs = Blocks(t) /\ (st.stack = <<>> <=> Balanced(t))
  <2>1. st.pairs = Pairs(t, Len(t)) /\ Blocks(t) = Pairs(t, Len(t))
    BY <1>1, <1>3, BalancedRight, BlockIs
  <2>2. Balanced(t) <=> \A a \in 1..Len(t) : OpensBrace(t[a]) =>
                            \E b \in 1..Len(t) : a < b /\ Matched(t, a, b)
    BY <1>1, Zenon DEF Balanced
  <2>3. st.stack = <<>> <=> \A a \in 1..Len(t) : OpensBrace(t[a]) =>
                                \E b \in 1..Len(t) : a < b /\ Matched(t, a, b)
    BY <1>1, <1>3, BalancedRight
  <2> QED
    BY <2>1, <2>2, <2>3, Zenon
<1>6. \A o \in anchors : Candidate(t, st.pairs, o) = {p \in TopBlocks(t) : Owns(t, p, o)}
  BY <1>1, <1>2, <1>5, CandidateRight
<1>7. found = Owners(t)
  <2>1. \A p : p \in found <=> \E o \in anchors : p \in Candidate(t, st.pairs, o)
    BY <1>4, Zenon
  <2>2. \A p : p \in Owners(t) <=> \E o \in anchors : p \in TopBlocks(t) /\ Owns(t, p, o)
    BY <1>2, Zenon DEF Owners
  <2>3. \A p : p \in found <=> p \in Owners(t)
    BY <1>6, <2>1, <2>2, Zenon
  <2> QED
    BY <2>3, Zenon
<1>8. ScopeBounds(t) = IF anchors = {} \/ st.stack # <<>> \/ Cardinality(found) # 1 THEN Refused
                       ELSE CHOOSE p \in found : TRUE
  BY <1>2, <1>3, <1>4 DEF ScopeBounds
<1>9. Cardinality({}) # 1
  <2>1. Cardinality({}) = 0 /\ 0 # 1
    BY FS_EmptySet
  <2> QED
    BY <2>1, Zenon
<1>10. anchors = {} => found = {}
  BY <1>4
<1>11. Cardinality(found) = 1 => found # {}
  BY <1>9, Zenon
<1> QED
  BY <1>5, <1>7, <1>8, <1>9, <1>10, <1>11, Zenon

-----------------------------------------------------------------------------
(* The texts of the state machine.                                         *)

TextOK ==
    /\ kind = "lines" => text \in Seq(Line)
    /\ kind = "expression" => text \in Seq(ExprToken)
    /\ kind \in {"plain", "braced"} => text \in Seq(CodeToken)

LEMMA TextInit == Init => TextOK
BY EmptySeq DEF Init, TextOK

LEMMA TextNext == TextOK /\ [Next]_vars => TextOK'
<1> SUFFICES ASSUME TextOK, [Next]_vars PROVE TextOK'
  OBVIOUS
<1>1. CASE Longer({"lines"}, Line, MaxLines)
  BY <1>1 DEF Longer, TextOK
<1>2. CASE Longer({"expression"}, ExprToken, MaxExpression)
  BY <1>2 DEF Longer, TextOK
<1>3. CASE Longer({"plain", "braced"}, CodeToken, MaxTokens)
  BY <1>3 DEF Longer, TextOK
<1>4. CASE UNCHANGED vars
  BY <1>4 DEF vars, TextOK
<1> QED
  BY <1>1, <1>2, <1>3, <1>4 DEF Next

\* RefusedExact: mask_c_definitely_inactive refuses exactly the texts whose
\* conditionals do not match, of any length and nesting.
THEOREM RefusesRight == Spec => []RefusedExact
<1>1. TextOK => RefusedExact
  BY RefusedRight DEF TextOK, RefusedExact
<1> QED
  BY <1>1, TextInit, TextNext, PTL DEF Spec

\* MaskExact: mask_c_definitely_inactive blanks out exactly the code that no
\* value of the unknown conditions lets the preprocessor compile, in texts of
\* any length and nesting.
THEOREM MasksRight == Spec => []MaskExact
<1>1. TextOK => MaskExact
  BY MaskRight DEF TextOK, MaskExact
<1> QED
  BY <1>1, TextInit, TextNext, PTL DEF Spec

\* BranchExact: what extract_resukisu_modern_lsm_branch returns is the first
\* branch, whole, of the only such conditional outside all others, in texts of
\* any length and nesting.
THEOREM BranchesRight == Spec => []BranchExact
<1>1. TextOK => BranchExact
  <2> SUFFICES ASSUME TextOK, kind = "lines", ExtractBranch(text) # Refused
               PROVE  BranchIs(text, ExtractBranch(text))
    BY Zenon DEF BranchExact, BranchIs
  <2> QED
    BY BranchRight DEF TextOK
<1> QED
  BY <1>1, TextInit, TextNext, PTL DEF Spec

\* TruthExact: preprocessor_integer_truth knows the value of an expression of
\* any length exactly when it is a literal under parentheses and negations,
\* and it is that of the literal, negated as often as the text says.
THEOREM TruthsRight == Spec => []TruthExact
<1>1. TextOK => TruthExact
  <2> SUFFICES ASSUME TextOK, kind = "expression"
               PROVE  IntegerTruth[text] = Worth(text)
    BY Zenon DEF TruthExact, Worth
  <2> QED
    BY TruthRight DEF TextOK, Expression
<1> QED
  BY <1>1, TextInit, TextNext, PTL DEF Spec

\* ScopeExact: c_scope_bounds finds a scope exactly when one function has all
\* the anchors that are in or at the head of a function at all, and it is that
\* function, in texts of any length and nesting.
THEOREM ScopesRight == Spec => []ScopeExact
<1>1. TextOK => ScopeExact
  <2> SUFFICES ASSUME TextOK, kind \in {"plain", "braced"}
               PROVE  IF Balanced(text) /\ Cardinality(Owners(text)) = 1
                      THEN ScopeBounds(text) \in Owners(text)
                      ELSE ScopeBounds(text) = Refused
    BY Zenon DEF ScopeExact, Balanced, Owners
  <2> QED
    BY ScopeRight DEF TextOK
<1> QED
  BY <1>1, TextInit, TextNext, PTL DEF Spec

=============================================================================
