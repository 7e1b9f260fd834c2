------------------------------ MODULE CSource ------------------------------
(***************************************************************************)
(* How scripts/install.py reads C: what is never compiled, what a constant *)
(* #if expression means, which function a piece of text belongs to, which  *)
(* lines are the first branch of a conditional.  Each scanner is checked   *)
(* on every short text against a definition that does not scan.            *)
(*                                                                         *)
(* A text is a sequence of lines, of expression tokens or of code tokens;  *)
(* the lexical masking of comments and literals has been done.             *)
(***************************************************************************)
EXTENDS Integers, Sequences, FiniteSets, FiniteSetsExt

CONSTANTS
    Refused,                                \* an InstallError
    MaxLines, MaxExpression, MaxTokens      \* bounds on the texts

VARIABLES kind, text

vars == <<kind, text>>

Line == {[d |-> "code", v |-> "-"], [d |-> "else", v |-> "-"], [d |-> "endif", v |-> "-"]}
        \cup [d : {"if"}, v : {"0", "1", "target"}]
        \cup [d : {"elif"}, v : {"0", "1", "?"}]
ExprToken == {"(", ")", "!", "0", "1", "X"}
CodeToken == {"{", "}", ";", "anchor"}

-----------------------------------------------------------------------------
(* mask_c_definitely_inactive, a line at a time.                           *)

ScanStart == [stack |-> <<>>, possible |-> TRUE, masked |-> {}, n |-> 0, error |-> FALSE]

\* Mutant: #else does not see that a branch was certainly taken.
BranchAfterElseAny(l, top) ==
    IF l.d = "elif"
    THEN [possible |-> top.parent /\ ~top.taken /\ l.v # "0", taken |-> top.taken \/ l.v = "1"]
    ELSE [possible |-> top.parent, taken |-> TRUE]

\* #elif and #else: may the branch be compiled, and is one certainly taken?
BranchAfter(l, top) ==
    IF l.d = "elif"
    THEN [possible |-> top.parent /\ ~top.taken /\ l.v # "0", taken |-> top.taken \/ l.v = "1"]
    ELSE [possible |-> top.parent /\ ~top.taken, taken |-> TRUE]

Conditional(stack, possible, error) ==
    [stack |-> stack, possible |-> possible, error |-> error]

\* What a directive does to the stack and to what may be compiled.
Directive(st, l) ==
    LET k == Len(st.stack)
        top == IF k = 0 THEN [parent |-> TRUE, taken |-> FALSE] ELSE st.stack[k]
        b == BranchAfter(l, top)
    IN  IF st.error \/ l.d = "code" THEN Conditional(st.stack, st.possible, st.error)
        ELSE IF l.d = "if"
        THEN Conditional(Append(st.stack, [parent |-> st.possible, taken |-> l.v = "1"]),
                         st.possible /\ l.v # "0", FALSE)
        ELSE IF k = 0 THEN Conditional(st.stack, st.possible, TRUE)
        ELSE IF l.d = "endif" THEN Conditional(SubSeq(st.stack, 1, k - 1), top.parent, FALSE)
        ELSE Conditional([st.stack EXCEPT ![k] = [parent |-> top.parent, taken |-> b.taken]],
                         b.possible, FALSE)

\* A line, with what is then blanked out.
Scan(st, l) ==
    LET next == Directive(st, l)
    IN  [stack |-> next.stack, possible |-> next.possible, error |-> next.error,
         n |-> st.n + 1,
         masked |-> IF next.possible \/ l.d = "endif" THEN st.masked ELSE st.masked \cup {st.n + 1}]

Scanned(t) ==
    LET after[n \in 0..Len(t)] == IF n = 0 THEN ScanStart ELSE Scan(after[n - 1], t[n])
    IN  after[Len(t)]

\* Mutant: a conditional may be left open.
MaskRefusesOpen(t) == Scanned(t).error

\* An error in the text, or a conditional that is still open at its end.
MaskRefuses(t) == Scanned(t).error \/ Scanned(t).stack # <<>>

-----------------------------------------------------------------------------
(* extract_resukisu_modern_lsm_branch                                      *)

Opens(l) == l.d = "if"
Ifs(t, a, b) == {i \in a..b : Opens(t[i])}
Endifs(t, a, b) == {i \in a..b : t[i].d = "endif"}

\* Conditionals open after the lines a..b.
Depth(t, a, b) == Cardinality(Ifs(t, a, b)) - Cardinality(Endifs(t, a, b))

\* Mutant: the target is taken at any depth.
TargetsNested(t) == {i \in DOMAIN t : Opens(t[i]) /\ t[i].v = "target"}

Targets(t) == {i \in DOMAIN t : Opens(t[i]) /\ t[i].v = "target" /\ Depth(t, 1, i - 1) = 0}

\* The second pass: nested starts at 1 on the target's line.
BranchScan(st, l) ==
    IF st.state # "in" THEN st
    ELSE CASE Opens(l) -> [st EXCEPT !.n = @ + 1, !.nested = @ + 1]
           [] l.d = "endif" -> [st EXCEPT !.n = @ + 1, !.nested = @ - 1,
                                          !.state = IF st.nested = 1 THEN "closed" ELSE "in"]
           [] l.d = "else" /\ st.nested = 1 ->
                    IF st.end # 0 THEN [st EXCEPT !.state = "refused"]
                    ELSE [st EXCEPT !.n = @ + 1, !.end = st.n + 1]
           [] l.d = "elif" /\ st.nested = 1 -> [st EXCEPT !.state = "refused"]
           [] OTHER -> [st EXCEPT !.n = @ + 1]

\* The lines that follow the target on line first.
BranchScanned(t, first) ==
    LET after[n \in 0..Len(t) - first] ==
            IF n = 0 THEN [n |-> first, nested |-> 1, end |-> 0, state |-> "in"]
            ELSE BranchScan(after[n - 1], t[first + n])
    IN  after[Len(t) - first]

ExtractBranch(t) ==
    LET bad == (\E i \in DOMAIN t : Depth(t, 1, i) < 0) \/ Depth(t, 1, Len(t)) # 0
        first == CHOOSE i \in Targets(t) : TRUE
        st == BranchScanned(t, first)
    IN  IF bad \/ Cardinality(Targets(t)) # 1 THEN Refused
        ELSE IF st.state = "closed" /\ st.end # 0 THEN (first + 1)..(st.end - 1)
        ELSE Refused

-----------------------------------------------------------------------------
(* preprocessor_integer_truth                                              *)

\* The loop over the characters: do the outer parentheses belong together?
Nesting(t, i) == Cardinality({j \in 1..i : t[j] = "("}) - Cardinality({j \in 1..i : t[j] = ")"})

Wraps(t) ==
    /\ t[1] = "(" /\ t[Len(t)] = ")"
    /\ Nesting(t, Len(t)) = 0
    /\ \A i \in 1..Len(t) - 1 : Nesting(t, i) > 0

\* Mutant: what is not known is taken for zero.
NegatedUnknown(v) == IF v = "true" THEN "false" ELSE "true"

Negated(v) == CASE v = "true" -> "false" [] v = "false" -> "true" [] OTHER -> "none"

IntegerTruth[t \in Seq(ExprToken)] ==
    IF t = <<>> THEN "none"
    ELSE IF Wraps(t) THEN IntegerTruth[SubSeq(t, 2, Len(t) - 1)]
    ELSE IF t[1] = "!" THEN Negated(IntegerTruth[Tail(t)])
    ELSE CASE t = <<"0">> -> "false" [] t = <<"1">> -> "true" [] OTHER -> "none"

-----------------------------------------------------------------------------
(* c_scope_bounds: the anchor is a piece of code, or a signature with the  *)
(* brace that opens its body (kind "braced").                              *)

Braced == kind = "braced"
OpensBrace(c) == c = "{" \/ (c = "anchor" /\ Braced)

\* The loop over the characters; a closing brace too many is passed over.
Brace(st, c) ==
    LET n == st.n + 1 IN
    IF OpensBrace(c) THEN [st EXCEPT !.n = n, !.stack = Append(@, n)]
    ELSE IF c = "}" /\ st.stack # <<>>
         THEN [n |-> n, stack |-> SubSeq(st.stack, 1, Len(st.stack) - 1),
               pairs |-> st.pairs \cup {<<st.stack[Len(st.stack)], n>>}]
    ELSE [st EXCEPT !.n = n]

Braces(t) ==
    LET after[n \in 0..Len(t)] ==
            IF n = 0 THEN [n |-> 0, stack |-> <<>>, pairs |-> {}] ELSE Brace(after[n - 1], t[n])
    IN  after[Len(t)]

First(S) == {i \in S : \A j \in S : i <= j}

\* Mutant: a prototype's semicolon does not end the search.
BodyBraceAny(t, o) ==
    IF Braced THEN {o} ELSE First({i \in o..Len(t) : OpensBrace(t[i])})

\* Where the body of the anchor at o opens: in the anchor, or at the next
\* brace unless a semicolon comes first.
BodyBrace(t, o) ==
    IF Braced THEN {o}
    ELSE LET open == First({i \in o..Len(t) : OpensBrace(t[i])})
         IN  {b \in open : \A i \in o..b : t[i] # ";"}

Candidate(t, pairs, o) ==
    LET containing == {p \in pairs : p[1] < o /\ o < p[2]}
    IN  IF containing # {} THEN {p \in containing : \A q \in containing : p[1] <= q[1]}
        ELSE {p \in pairs : p[1] \in BodyBrace(t, o)}

ScopeBounds(t) ==
    LET anchors == {i \in DOMAIN t : t[i] = "anchor"}
        st == Braces(t)
        found == UNION {Candidate(t, st.pairs, o) : o \in anchors}
    IN  IF anchors = {} \/ st.stack # <<>> \/ Cardinality(found) # 1 THEN Refused
        ELSE CHOOSE p \in found : TRUE

-----------------------------------------------------------------------------
Init == kind \in {"lines", "expression", "plain", "braced"} /\ text = <<>>

Longer(k, alphabet, max) ==
    /\ kind \in k /\ Len(text) < max
    /\ \E c \in alphabet : text' = Append(text, c)
    /\ UNCHANGED kind

Next == \/ Longer({"lines"}, Line, MaxLines)
        \/ Longer({"expression"}, ExprToken, MaxExpression)
        \/ Longer({"plain", "braced"}, CodeToken, MaxTokens)

Spec == Init /\ [][Next]_vars

-----------------------------------------------------------------------------
(* The reference: a conditional group is its #if, the #elif and #else of   *)
(* its level and its #endif.                                               *)

WellFormed(t) ==
    \A n \in DOMAIN t :
        /\ Depth(t, 1, n) >= 0
        /\ t[n].d \in {"elif", "else"} => Depth(t, 1, n) > 0

\* Line n lies in the group opened at i.
Within(t, i, n) == Opens(t[i]) /\ \A j \in i..n - 1 : Depth(t, i, j) > 0

\* The lines of i's level that start its branches, up to line n.
Branches(t, i, n) ==
    {j \in i..n : \/ j = i
                  \/ t[j].d \in {"elif", "else"} /\ Depth(t, i, j) = 1 /\ Within(t, i, j)}

Holds(t, j, val) ==
    CASE t[j].d = "else" -> TRUE
      [] t[j].v = "1" -> TRUE
      [] t[j].v = "0" -> FALSE
      [] OTHER -> val[j]

\* The C preprocessor keeps line n: in every group around it the branch it is
\* in is the first one that holds.
Kept(t, n, val) ==
    \A i \in 1..n - 1 :
        Within(t, i, n) =>
            LET mine == Max(Branches(t, i, n - 1))
            IN  Holds(t, mine, val) /\ \A j \in Branches(t, i, n - 1) \ {mine} : ~Holds(t, j, val)

Unknown(t) == {j \in DOMAIN t : t[j].v \in {"target", "?"}}

\* Code is masked exactly when it is compiled under no value of the conditions
\* the installer does not know: a hook in dead code is never taken for a live
\* one, and live code is never overlooked.
MaskExact ==
    kind = "lines" /\ WellFormed(text) =>
        \A n \in DOMAIN text :
            text[n].d = "code" =>
                (n \in Scanned(text).masked <=>
                    \A val \in [Unknown(text) -> BOOLEAN] : ~Kept(text, n, val))

\* A text is refused exactly when its conditionals do not match.
RefusedExact ==
    kind = "lines" =>
        (MaskRefuses(text) <=> ~WellFormed(text) \/ Depth(text, 1, Len(text)) # 0)

\* What is audited as the branch for modern kernels is the first branch of the
\* only such conditional outside all others: every line of it, and no line
\* that another branch could compile.
BranchExact ==
    kind = "lines" =>
        LET got == ExtractBranch(text) IN
        got # Refused =>
            \E i \in DOMAIN text :
                /\ text[i].v = "target" /\ ~\E k \in 1..i - 1 : Within(text, k, i)
                /\ \A n \in DOMAIN text :
                        n \in got <=> n > i /\ Within(text, i, n) /\ n < Max(Branches(text, i, Len(text)))
                /\ \A j \in DOMAIN text \ {i} : text[j].v = "target" =>
                        \E k \in 1..j - 1 : Within(text, k, j)

Occurrences(t, c) == Cardinality({i \in DOMAIN t : t[i] = c})

\* A digit after parentheses and negations, before as many parentheses.
Literal(t) ==
    /\ \E k \in DOMAIN t :
        /\ t[k] \in {"0", "1"}
        /\ \A i \in 1..k - 1 : t[i] \in {"(", "!"}
        /\ \A i \in k + 1..Len(t) : t[i] = ")"
    /\ Occurrences(t, "(") = Occurrences(t, ")")

\* An expression is called true or false only if it is a literal under
\* parentheses and negations, and then it has that value.
TruthExact ==
    kind = "expression" =>
        IntegerTruth[text] =
            IF ~Literal(text) THEN "none"
            ELSE IF (Occurrences(text, "1") + Occurrences(text, "!")) % 2 = 1 THEN "true"
            ELSE "false"

\* Braces open after the tokens a..k.
Level(t, a, k) ==
    Cardinality({i \in a..k : OpensBrace(t[i])}) - Cardinality({i \in a..k : t[i] = "}"})

\* Braces a and b belong together.
Matched(t, a, b) ==
    /\ OpensBrace(t[a]) /\ Level(t, a, b) = 0
    /\ \A k \in a..b - 1 : Level(t, a, k) > 0

Blocks(t) == {p \in (DOMAIN t) \X (DOMAIN t) : p[1] < p[2] /\ Matched(t, p[1], p[2])}
TopBlocks(t) == {p \in Blocks(t) : ~\E q \in Blocks(t) : q[1] < p[1] /\ p[2] < q[2]}

\* The anchor at o is in the function with body p, or is its head.
Owns(t, p, o) ==
    \/ p[1] < o /\ o < p[2]
    \/ /\ o <= p[1]
       /\ \A i \in o..p[1] - 1 : t[i] \notin {"{", ";"}
       /\ ~\E q \in TopBlocks(t) : q[1] < o /\ o < q[2]
       /\ Braced => o = p[1]

\* A scope is found exactly when one function has all the anchors that are in
\* or at the head of a function at all; it is that function, whole.
ScopeExact ==
    kind \in {"plain", "braced"} =>
        LET owners == {p \in TopBlocks(text) :
                         \E o \in DOMAIN text : text[o] = "anchor" /\ Owns(text, p, o)}
            balanced == \A a \in DOMAIN text : OpensBrace(text[a]) =>
                            \E b \in DOMAIN text : a < b /\ Matched(text, a, b)
        IN  IF balanced /\ Cardinality(owners) = 1
            THEN ScopeBounds(text) \in owners
            ELSE ScopeBounds(text) = Refused
=============================================================================
