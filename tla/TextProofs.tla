----------------------------- MODULE TextProofs -----------------------------
(***************************************************************************)
(* Theorems about Text for texts of any length: parse_placeholders finds   *)
(* every placeholder, substitute replaces all of them as if at once,       *)
(* substitute_template leaves none in a template, scrub_response leaves    *)
(* nothing of the values that were injected, and parse_usdc_amount reads   *)
(* what an amount means.  The operators are recursive functions over the   *)
(* positions of a text, so their equations are shown to have one solution  *)
(* first; what they compute follows by induction, from the end of the text *)
(* or over the elements of a fold.                                         *)
(***************************************************************************)
EXTENDS Text, SumProofs, SequenceTheorems

-----------------------------------------------------------------------------
(* Recursion over the positions of a text of n bytes: position i           *)
(* contributes piece[i], and the next one to look at is next[i].           *)
Steps(n, next) == \A i \in 1 .. n : next[i] \in i + 1 .. n + 1

Joined(r, piece, next, n, i) ==
    IF i > n THEN <<>> ELSE piece[i] \o r[next[i]]

(* r solves the equation at the last k positions.                          *)
FromEnd(r, piece, next, n, k) ==
    \A i \in 1 .. n + 1 : i >= n + 1 - k => r[i] = Joined(r, piece, next, n, i)

(* A solution for the last k positions can be extended by one.             *)
LEMMA FromEndMore ==
  ASSUME NEW B, NEW n \in Nat, NEW piece \in [1 .. n -> Seq(B)],
         NEW next, Steps(n, next), NEW r \in [1 .. n + 1 -> Seq(B)],
         NEW k \in Nat, FromEnd(r, piece, next, n, k)
  PROVE  \E q \in [1 .. n + 1 -> Seq(B)] : FromEnd(q, piece, next, n, k + 1)
<1> DEFINE m == n - k
           q == [r EXCEPT ![m] = Joined(r, piece, next, n, m)]
<1>0. \A i \in 1 .. n : next[i] \in 1 .. n + 1 /\ next[i] > i
  BY DEF Steps
<1>1. CASE m < 1
  <2>1. FromEnd(r, piece, next, n, k + 1)
    BY <1>1 DEF FromEnd
  <2> QED
    BY <2>1
<1>2. CASE m >= 1
  <2>1. m \in 1 .. n /\ m \in 1 .. n + 1 /\ m \in Int
    BY <1>2
  <2>2. Joined(r, piece, next, n, m) \in Seq(B)
    <3>1. piece[m] \in Seq(B) /\ r[next[m]] \in Seq(B)
      BY <1>0, <2>1
    <3> QED
      BY <2>1, <3>1, ConcatProperties DEF Joined
  <2> HIDE DEF m
  <2>3. q \in [1 .. n + 1 -> Seq(B)]
    BY <2>1, <2>2
  <2>4. \A i \in 1 .. n + 1 : i # m => q[i] = r[i]
    OBVIOUS
  <2>5. q[m] = Joined(r, piece, next, n, m)
    BY <2>1
  <2> HIDE DEF q
  <2>6. \A i \in 1 .. n + 1 : i >= m =>
           Joined(q, piece, next, n, i) = Joined(r, piece, next, n, i)
    <3> SUFFICES ASSUME NEW i \in 1 .. n + 1, i >= m
                 PROVE  Joined(q, piece, next, n, i) = Joined(r, piece, next, n, i)
      OBVIOUS
    <3>1. i <= n => q[next[i]] = r[next[i]]
      BY <1>0, <2>1, <2>4
    <3>2. i > n \/ i <= n
      OBVIOUS
    <3> QED
      BY <3>1, <3>2 DEF Joined
  <2>7. FromEnd(q, piece, next, n, k + 1)
    <3> SUFFICES ASSUME NEW i \in 1 .. n + 1, i >= n + 1 - (k + 1)
                 PROVE  q[i] = Joined(q, piece, next, n, i)
      BY DEF FromEnd
    <3>1. i >= m
      BY DEF m
    <3>2. CASE i = m
      BY <2>5, <2>6, <3>1, <3>2
    <3>3. CASE i # m
      <4>1. i >= n + 1 - k
        BY <3>1, <3>3 DEF m
      <4> QED
        BY <2>4, <2>6, <3>1, <3>3, <4>1 DEF FromEnd
    <3> QED
      BY <3>2, <3>3
  <2> QED
    BY <2>3, <2>7
<1> QED
  BY <1>1, <1>2

Solves(r, piece, next, n) ==
    \A i \in 1 .. n + 1 : r[i] = Joined(r, piece, next, n, i)

(* The equation has a solution.                                            *)
LEMMA Solvable ==
  ASSUME NEW B, NEW n \in Nat, NEW piece \in [1 .. n -> Seq(B)],
         NEW next, Steps(n, next)
  PROVE  \E r \in [1 .. n + 1 -> Seq(B)] : Solves(r, piece, next, n)
<1> DEFINE F == [1 .. n + 1 -> Seq(B)]
           K == {k \in Nat : \E r \in F : FromEnd(r, piece, next, n, k)}
<1>1. 0 \in K
  <2> DEFINE r == [i \in 1 .. n + 1 |-> <<>>]
  <2>1. r \in F
    BY EmptySeq
  <2>2. \A i \in 1 .. n + 1 : i >= n + 1 - 0 => i > n
    OBVIOUS
  <2>3. FromEnd(r, piece, next, n, 0)
    BY <2>2 DEF FromEnd, Joined
  <2> QED
    BY <2>1, <2>3
<1>2. \A k \in Nat : k \in K => k + 1 \in K
  BY FromEndMore
<1> HIDE DEF K
<1>3. n \in K
  BY <1>1, <1>2, InductionOnNat
<1>4. PICK r \in F : FromEnd(r, piece, next, n, n)
  BY <1>3 DEF K
<1>5. Solves(r, piece, next, n)
  BY <1>4 DEF FromEnd, Solves
<1> QED
  BY <1>5

(* It has only one.                                                        *)
LEMMA SolutionsAgree ==
  ASSUME NEW n \in Nat, NEW piece, NEW next, Steps(n, next),
         NEW r, Solves(r, piece, next, n), NEW q, Solves(q, piece, next, n)
  PROVE  \A i \in 1 .. n + 1 : q[i] = r[i]
<1> DEFINE E == {k \in Nat : \A i \in 1 .. n + 1 :
                                i >= n + 1 - k => q[i] = r[i]}
<1>0. \A i \in 1 .. n + 1 : /\ q[i] = Joined(q, piece, next, n, i)
                            /\ r[i] = Joined(r, piece, next, n, i)
  BY DEF Solves
<1>1. 0 \in E
  <2>1. \A i \in 1 .. n + 1 : i >= n + 1 - 0 => i > n
    OBVIOUS
  <2> QED
    BY <1>0, <2>1 DEF Joined
<1>2. ASSUME NEW k \in Nat, k \in E PROVE k + 1 \in E
  <2> SUFFICES ASSUME NEW i \in 1 .. n + 1, i >= n + 1 - (k + 1)
               PROVE  q[i] = r[i]
    OBVIOUS
  <2>1. i <= n => next[i] \in 1 .. n + 1 /\ next[i] >= n + 1 - k
    BY DEF Steps
  <2>2. i <= n => q[next[i]] = r[next[i]]
    BY <1>2, <2>1
  <2>3. i > n \/ i <= n
    OBVIOUS
  <2> QED
    BY <1>0, <2>2, <2>3 DEF Joined
<1> HIDE DEF E
<1>3. n \in E
  BY <1>1, <1>2, InductionOnNat
<1> QED
  BY <1>3 DEF E

(* An element in front of a sequence.                                      *)
LEMMA ConsProperties ==
  ASSUME NEW B, NEW y \in Seq(B), NEW b \in B
  PROVE  /\ Len(<<b>> \o y) = 1 + Len(y)
         /\ \A j \in 1 .. 1 + Len(y) :
               (<<b>> \o y)[j] = IF j <= 1 THEN b ELSE y[j - 1]
<1> DEFINE x == <<b>> \o y
<1>0. Len(y) \in Nat /\ <<b>> \in Seq(B)
  BY LenProperties
<1>1. Len(<<b>>) = 1
  OBVIOUS
<1>2. \A j \in 1 .. 1 + Len(y) : x[j] = IF j <= 1 THEN <<b>>[j] ELSE y[j - 1]
  BY <1>0, <1>1, ConcatProperties
<1>3. \A j \in 1 .. 1 + Len(y) : j <= 1 => <<b>>[j] = b
  BY <1>0
<1> QED
  BY <1>0, <1>1, <1>2, <1>3, ConcatProperties

(* Bytes are strings of one character, these among them.                   *)
Byte == STRING \cup {"[", "]", "{", "}", "0", "A", "C", "D", "E", "R", "T"}

LEMMA NamedBytes ==
  "[" \in Byte /\ "]" \in Byte /\ "{" \in Byte /\ "}" \in Byte /\ "0" \in Byte
BY Zenon DEF Byte

(* Where s stands in t, byte by byte.                                      *)
LEMMA StandsBytewise ==
  ASSUME NEW B, NEW s \in Seq(B), NEW t \in Seq(B), NEW i \in Nat \ {0}
  PROVE  StandsAt(s, t, i) <=> /\ i + Len(s) - 1 <= Len(t)
                               /\ \A j \in 1 .. Len(s) : t[i + j - 1] = s[j]
<1>0. Len(s) \in Nat /\ Len(t) \in Nat
  BY LenProperties
<1>1. CASE i + Len(s) - 1 <= Len(t)
  <2> DEFINE u == SubSeq(t, i, i + Len(s) - 1)
  <2>1. \A j \in i .. i + Len(s) - 1 : t[j] \in B
    BY <1>0, <1>1, ElementOfSeq
  <2>2. u \in Seq(B) /\ Len(u) = Len(s) /\ \A j \in 1 .. Len(s) : u[j] = t[i + j - 1]
    BY <1>0, <1>1
  <2> HIDE DEF u
  <2>3. u = s <=> \A j \in 1 .. Len(s) : u[j] = s[j]
    BY <2>2, SeqEqual
  <2>4. (\A j \in 1 .. Len(s) : u[j] = s[j])
          <=> \A j \in 1 .. Len(s) : t[i + j - 1] = s[j]
    BY <2>2
  <2> QED
    BY <1>1, <2>3, <2>4 DEF StandsAt, u
<1> QED
  BY <1>1 DEF StandsAt

-----------------------------------------------------------------------------
(* The equation of the recursion in Replace.                               *)
Rest(r, t, from, to) ==
    r = [i \in 1 .. Len(t) + 1 |->
            IF i > Len(t) THEN <<>>
            ELSE IF Len(from) > 0 /\ StandsAt(from, t, i)
                 THEN to \o r[i + Len(from)]
            ELSE (IF Len(from) = 0 THEN to ELSE <<>>) \o <<t[i]>> \o r[i + 1]]

(* Replace is a solution of it.                                            *)
LEMMA ReplaceIs ==
  ASSUME NEW t, NEW from, NEW to
  PROVE  Replace(t, from, to) = (CHOOSE r : Rest(r, t, from, to))[1]
                                   \o (IF Len(from) = 0 THEN to ELSE <<>>)
BY DEF Replace, Rest

(* One unfolding, for a text `from` that is not empty.                     *)
Unfolded(r, t, from, to, i) ==
    IF i > Len(t) THEN <<>>
    ELSE IF StandsAt(from, t, i) THEN to \o r[i + Len(from)]
    ELSE <<t[i]>> \o r[i + 1]

(* What Replace computes: a function that satisfies the equation.          *)
Unfolds(B, t, from, to) ==
    \E r \in [1 .. Len(t) + 1 -> Seq(B)] :
        /\ \A i \in 1 .. Len(t) + 1 : r[i] = Unfolded(r, t, from, to, i)
        /\ Replace(t, from, to) = r[1]

(* Replace satisfies its equation, whatever the needle.                    *)
LEMMA ReplaceUnfoldsAny ==
  ASSUME NEW B, NEW t \in Seq(B), NEW from, Len(from) \in Nat \ {0},
         NEW to \in Seq(B)
  PROVE  Unfolds(B, t, from, to)
<1> DEFINE n == Len(t)
           piece == [i \in 1 .. n |-> IF StandsAt(from, t, i) THEN to ELSE <<t[i]>>]
           next == [i \in 1 .. n |-> IF StandsAt(from, t, i) THEN i + Len(from)
                                     ELSE i + 1]
<1>0. n \in Nat /\ Len(from) \in Nat \ {0}
  BY LenProperties
<1>1. piece \in [1 .. n -> Seq(B)]
  <2>1. \A i \in 1 .. n : <<t[i]>> \in Seq(B)
    BY ElementOfSeq
  <2> QED
    BY <2>1
<1>2. Steps(n, next)
  BY <1>0 DEF Steps, StandsAt
<1>3. \A q : \A i \in 1 .. n + 1 :
         Unfolded(q, t, from, to, i) = Joined(q, piece, next, n, i)
  <2> SUFFICES ASSUME NEW q, NEW i \in 1 .. n + 1
               PROVE  Unfolded(q, t, from, to, i) = Joined(q, piece, next, n, i)
    OBVIOUS
  <2>1. i > n \/ (i \in 1 .. n /\ ~(i > n))
    BY <1>0
  <2> QED
    BY <2>1 DEF Unfolded, Joined
<1> HIDE DEF piece, next
<1>4. \A q : Rest(q, t, from, to) <=>
         q = [i \in 1 .. n + 1 |-> Unfolded(q, t, from, to, i)]
  <2>1. Len(from) > 0 /\ Len(from) # 0
    BY <1>0
  <2>2. \A x : <<>> \o <<x>> = <<x>>
    <3> SUFFICES ASSUME NEW x PROVE <<>> \o <<x>> = <<x>>
      OBVIOUS
    <3>1. <<x>> \in Seq({x})
      OBVIOUS
    <3> QED
      BY <3>1, ConcatEmptySeq
  <2> QED
    BY <2>1, <2>2 DEF Rest, Unfolded
<1>5. PICK r \in [1 .. n + 1 -> Seq(B)] : Solves(r, piece, next, n)
  BY <1>0, <1>1, <1>2, Solvable
<1>6. \A i \in 1 .. n + 1 : r[i] = Unfolded(r, t, from, to, i)
  BY <1>3, <1>5 DEF Solves
<1>7. Rest(r, t, from, to)
  BY <1>4, <1>6
<1> DEFINE q == CHOOSE p : Rest(p, t, from, to)
<1>8. Rest(q, t, from, to)
  BY <1>7, Zenon
<1>9. Replace(t, from, to) = q[1] \o <<>>
  BY <1>0, ReplaceIs
<1> HIDE DEF q
<1>10. \A i \in 1 .. n + 1 : q[i] = Unfolded(q, t, from, to, i)
  BY <1>4, <1>8
<1>11. Solves(q, piece, next, n)
  BY <1>3, <1>10 DEF Solves
<1>12. \A i \in 1 .. n + 1 : q[i] = r[i]
  <2> HIDE DEF n
  <2> QED
    BY <1>0, <1>2, <1>5, <1>11, SolutionsAgree
<1>13. q[1] = r[1] /\ r[1] \in Seq(B)
  <2>1. 1 \in 1 .. n + 1
    BY <1>0
  <2> QED
    BY <1>5, <1>12, <2>1
<1>14. Replace(t, from, to) = r[1]
  BY <1>9, <1>13, ConcatEmptySeq
<1> QED
  BY <1>6, <1>14 DEF Unfolds

(* In particular for a needle that is not empty.                           *)
LEMMA ReplaceUnfolds ==
  ASSUME NEW B, NEW t \in Seq(B), NEW from \in Seq(B), from # <<>>,
         NEW to \in Seq(B)
  PROVE  Unfolds(B, t, from, to)
<1>1. Len(from) \in Nat \ {0}
  BY LenProperties, EmptySeq
<1> QED
  BY <1>1, ReplaceUnfoldsAny

-----------------------------------------------------------------------------
(* FoldLeft takes the values from the last one down; Max picks it.         *)
LEMMA MaxOf ==
  ASSUME NEW n \in Nat, NEW s \in SUBSET (1 .. n), s # {}
  PROVE  Max(s) \in s /\ \A y \in s : Max(s) >= y
<1> DEFINE A == {k \in Nat : \A t \in SUBSET (1 .. k) :
                    t # {} => \E x \in t : \A y \in t : x >= y}
<1>1. 0 \in A
  <2>1. 1 .. 0 = {}
    OBVIOUS
  <2> QED
    BY <2>1
<1>2. ASSUME NEW k \in Nat, k \in A PROVE k + 1 \in A
  <2> SUFFICES ASSUME NEW t \in SUBSET (1 .. k + 1), t # {}
               PROVE  \E x \in t : \A y \in t : x >= y
    OBVIOUS
  <2>1. CASE k + 1 \in t
    <3>1. \A y \in t : k + 1 >= y
      OBVIOUS
    <3> QED
      BY <2>1, <3>1
  <2>2. CASE k + 1 \notin t
    <3>1. t \in SUBSET (1 .. k)
      BY <2>2
    <3> QED
      BY <1>2, <3>1
  <2> QED
    BY <2>1, <2>2
<1> HIDE DEF A
<1>3. n \in A
  BY <1>1, <1>2, InductionOnNat
<1>4. \E x \in s : \A y \in s : x >= y
  BY <1>3 DEF A
<1> QED
  BY <1>4 DEF Max

(* The last element of 1 .. n is n.                                        *)
LEMMA MaxOfInterval ==
  ASSUME NEW n \in Nat \ {0}
  PROVE  Max(1 .. n) = n /\ (1 .. n) \ {n} = 1 .. n - 1 /\ 1 .. n # {}
<1>1. n \in 1 .. n
  OBVIOUS
<1>2. Max(1 .. n) \in 1 .. n /\ Max(1 .. n) >= n
  BY <1>1, MaxOf
<1> QED
  BY <1>1, <1>2

(* The fold of step, a function, over 1 .. n, on the sets of up to k.      *)
FoldsUpTo(g, k, base, step, V, n) ==
    /\ g \in [SUBSET (1 .. n) -> V]
    /\ \A s \in SUBSET (1 .. n) : Cardinality(s) <= k =>
          g[s] = IF s = {} THEN base ELSE step[<<g[s \ {Max(s)}], Max(s)>>]

(* A solution for the subsets of 1 .. k extends to those of 1 .. k + 1.    *)
LEMMA FoldsMore ==
  ASSUME NEW n \in Nat, NEW V, NEW base \in V, NEW step \in [V \X (1 .. n) -> V],
         NEW k \in Nat, NEW g, FoldsUpTo(g, k, base, step, V, n)
  PROVE  \E h : FoldsUpTo(h, k + 1, base, step, V, n)
<1> DEFINE S == 1 .. n
           h == [s \in SUBSET S |-> IF s = {} THEN base
                                    ELSE step[<<g[s \ {Max(s)}], Max(s)>>]]
<1>0. \A s \in SUBSET S : IsFiniteSet(s) /\ Cardinality(s) \in Nat
  <2>1. IsFiniteSet(S)
    BY FS_Interval
  <2> QED
    BY <2>1, FS_Subset, FS_CardinalityType
<1>1. \A s \in SUBSET S : s # {} =>
         /\ Max(s) \in S /\ s \ {Max(s)} \in SUBSET S
         /\ Cardinality(s \ {Max(s)}) \in Nat
         /\ Cardinality(s) = Cardinality(s \ {Max(s)}) + 1
  BY <1>0, MaxOf, Smaller
<1>2. \A s \in SUBSET S : g[s] \in V
  BY DEF FoldsUpTo
<1> HIDE DEF S
<1>3. \A s \in SUBSET S : s # {} => step[<<g[s \ {Max(s)}], Max(s)>>] \in V
  <2> SUFFICES ASSUME NEW s \in SUBSET S, s # {}
               PROVE  step[<<g[s \ {Max(s)}], Max(s)>>] \in V
    OBVIOUS
  <2>1. <<g[s \ {Max(s)}], Max(s)>> \in V \X S
    BY <1>1, <1>2
  <2> QED
    BY <2>1 DEF S
<1>4. h \in [SUBSET S -> V]
  BY <1>3
<1>5. ASSUME NEW s \in SUBSET S, Cardinality(s) <= k + 1
      PROVE  h[s] = IF s = {} THEN base ELSE step[<<h[s \ {Max(s)}], Max(s)>>]
  <2>1. CASE s = {}
    BY <2>1
  <2>2. CASE s # {}
    <3> DEFINE r == s \ {Max(s)}
    <3>1. r \in SUBSET S /\ Cardinality(r) <= k
      BY <1>0, <1>1, <1>5, <2>2
    <3>2. g[r] = IF r = {} THEN base ELSE step[<<g[r \ {Max(r)}], Max(r)>>]
      BY <3>1 DEF FoldsUpTo, S
    <3>3. h[r] = g[r]
      BY <3>1, <3>2
    <3> QED
      BY <2>2, <3>3
  <2> QED
    BY <2>1, <2>2
<1> HIDE DEF h
<1>6. FoldsUpTo(h, k + 1, base, step, V, n)
  BY <1>4, <1>5 DEF FoldsUpTo, S
<1> QED
  BY <1>6

FoldDefined(base, step, V, n) ==
    \E g \in [SUBSET (1 .. n) -> V] : \A s \in SUBSET (1 .. n) :
        g[s] = IF s = {} THEN base ELSE step[<<g[s \ {Max(s)}], Max(s)>>]

(* The recursion of FoldLeft has a solution.                               *)
LEMMA FoldExists ==
  ASSUME NEW n \in Nat, NEW V, NEW base \in V, NEW step \in [V \X (1 .. n) -> V]
  PROVE  FoldDefined(base, step, V, n)
<1> DEFINE A == {k \in Nat : \E g : FoldsUpTo(g, k, base, step, V, n)}
<1>0. IsFiniteSet(1 .. n) /\ Cardinality(1 .. n) \in Nat
      /\ \A s \in SUBSET (1 .. n) : /\ IsFiniteSet(s) /\ Cardinality(s) \in Nat
                                    /\ Cardinality(s) <= Cardinality(1 .. n)
  <2>1. IsFiniteSet(1 .. n)
    BY FS_Interval
  <2> QED
    BY <2>1, FS_Subset, FS_CardinalityType
<1>1. 0 \in A
  <2> DEFINE g == [s \in SUBSET (1 .. n) |-> base]
  <2>1. \A s \in SUBSET (1 .. n) : Cardinality(s) <= 0 => s = {}
    BY <1>0, FS_EmptySet
  <2>2. FoldsUpTo(g, 0, base, step, V, n)
    BY <2>1 DEF FoldsUpTo
  <2> QED
    BY <2>2
<1>2. ASSUME NEW k \in Nat, k \in A PROVE k + 1 \in A
  <2>1. PICK g : FoldsUpTo(g, k, base, step, V, n)
    BY <1>2
  <2>2. \E h : FoldsUpTo(h, k + 1, base, step, V, n)
    BY <2>1, FoldsMore
  <2> QED
    BY <2>2
<1> HIDE DEF A
<1>3. Cardinality(1 .. n) \in A
  BY <1>0, <1>1, <1>2, InductionOnNat
<1>4. PICK g : FoldsUpTo(g, Cardinality(1 .. n), base, step, V, n)
  BY <1>3 DEF A
<1> QED
  BY <1>0, <1>4 DEF FoldsUpTo, FoldDefined

-----------------------------------------------------------------------------
(* Placeholders.  A position with a brace ends every name.                 *)
Opens(t, i)  == t[i] = "{"
Closes(t, i) == t[i] = "}"

(* No brace is a byte of a name.                                           *)
LEMMA BracesEndNames ==
  ASSUME NEW t, NEW i
  PROVE  /\ Opens(t, i) => ~is_placeholder_continue(t[i])
         /\ Closes(t, i) => ~is_placeholder_continue(t[i])
         /\ ~(Opens(t, i) /\ Closes(t, i))
BY Zenon DEF Opens, Closes, is_placeholder_continue, is_placeholder_start, DigitValue

(* Spans and tokens in terms of them.                                      *)
LEMMA SpanIs ==
  ASSUME NEW t, NEW i, NEW j
  PROVE  <<i, j>> \in Spans(t) <=>
            /\ i \in 1 .. Len(t) /\ j \in 1 .. Len(t) /\ i < j
            /\ Opens(t, i) /\ Closes(t, j)
            /\ IsName(SubSeq(t, i + 1, j - 1))
BY Zenon DEF Spans, IsTokenAt, Opens, Closes

(* A span is a pair.                                                       *)
LEMMA SpanPair ==
  ASSUME NEW t, NEW s \in Spans(t)
  PROVE  s = <<s[1], s[2]>>
BY DEF Spans

(* What the scanner takes for a token.                                     *)
LEMMA TokenIs ==
  ASSUME NEW t, NEW i
  PROVE  IsToken(t, i) <=>
            /\ Opens(t, i)
            /\ i < Len(t)
            /\ is_placeholder_start(t[i + 1])
            /\ NameEnd(t, i + 1) <= Len(t)
            /\ Closes(t, NameEnd(t, i + 1))
BY Zenon DEF IsToken, Opens, Closes

(* A non-empty set of positions has a first one.                           *)
LEMMA MinOf ==
  ASSUME NEW n \in Nat, NEW s \in SUBSET (1 .. n), s # {}
  PROVE  Min(s) \in s /\ \A y \in s : Min(s) <= y
<1> DEFINE A == {k \in Nat : \A t \in SUBSET (1 .. k) :
                    t # {} => \E x \in t : \A y \in t : x <= y}
<1>1. 0 \in A
  <2>1. 1 .. 0 = {}
    OBVIOUS
  <2> QED
    BY <2>1
<1>2. ASSUME NEW k \in Nat, k \in A PROVE k + 1 \in A
  <2> SUFFICES ASSUME NEW t \in SUBSET (1 .. k + 1), t # {}
               PROVE  \E x \in t : \A y \in t : x <= y
    OBVIOUS
  <2> DEFINE u == t \ {k + 1}
  <2>1. u \in SUBSET (1 .. k)
    OBVIOUS
  <2>2. CASE u = {}
    <3>1. t = {k + 1}
      BY <2>2
    <3> QED
      BY <3>1
  <2>3. CASE u # {}
    <3>1. PICK x \in u : \A y \in u : x <= y
      BY <1>2, <2>1, <2>3
    <3>2. \A y \in t : x <= y
      BY <2>1, <3>1
    <3> QED
      BY <3>2
  <2> QED
    BY <2>2, <2>3
<1> HIDE DEF A
<1>3. n \in A
  BY <1>1, <1>2, InductionOnNat
<1>4. \E x \in s : \A y \in s : x <= y
  BY <1>3 DEF A
<1> QED
  BY <1>4 DEF Min

(* NameEnd is the first position after i whose byte continues no name.     *)
LEMMA NameEndFacts ==
  ASSUME NEW B, NEW t \in Seq(B), NEW i \in 1 .. Len(t)
  PROVE  /\ NameEnd(t, i) \in i + 1 .. Len(t) + 1
         /\ NameEnd(t, i) <= Len(t) =>
               ~is_placeholder_continue(t[NameEnd(t, i)])
         /\ \A k \in i + 1 .. NameEnd(t, i) - 1 : is_placeholder_continue(t[k])
<1> DEFINE s == {e \in i + 1 .. Len(t) + 1 :
                    e <= Len(t) => ~is_placeholder_continue(t[e])}
<1>0. Len(t) \in Nat
  BY LenProperties
<1>1. Len(t) + 1 \in s /\ s \in SUBSET (1 .. Len(t) + 1) /\ Len(t) + 1 \in Nat
  BY <1>0
<1>2. NameEnd(t, i) = Min(s)
  BY DEF NameEnd
<1>3. \A e : e \in s <=> /\ e \in i + 1 .. Len(t) + 1
                         /\ e <= Len(t) => ~is_placeholder_continue(t[e])
  OBVIOUS
<1> HIDE DEF s
<1>4. NameEnd(t, i) \in s /\ \A y \in s : NameEnd(t, i) <= y
  <2> DEFINE n == Len(t) + 1
  <2>1. n \in Nat /\ s \in SUBSET (1 .. n) /\ s # {}
    BY <1>1
  <2> HIDE DEF n
  <2>2. Min(s) \in s /\ \A y \in s : Min(s) <= y
    BY <2>1, MinOf
  <2> QED
    BY <1>2, <2>2
<1> DEFINE e == NameEnd(t, i)
<1> HIDE DEF e
<1>5. e \in i + 1 .. Len(t) + 1 /\ (e <= Len(t) => ~is_placeholder_continue(t[e]))
  BY <1>3, <1>4 DEF e
<1>6. ASSUME NEW k \in i + 1 .. e - 1 PROVE is_placeholder_continue(t[k])
  <2>1. k \in i + 1 .. Len(t) + 1 /\ ~(e <= k)
    BY <1>0, <1>5
  <2>2. k \notin s
    BY <1>4, <2>1 DEF e
  <2> QED
    BY <1>3, <2>1, <2>2
<1> QED
  BY <1>5, <1>6 DEF e

(* Names byte by byte.                                                     *)
LEMMA NameBytewise ==
  ASSUME NEW B, NEW t \in Seq(B), NEW i \in 1 .. Len(t), NEW j \in 1 .. Len(t),
         i < j
  PROVE  IsName(SubSeq(t, i + 1, j - 1)) <=>
            /\ i + 1 < j
            /\ is_placeholder_start(t[i + 1])
            /\ \A k \in i + 1 .. j - 1 : is_placeholder_continue(t[k])
<1> DEFINE u == SubSeq(t, i + 1, j - 1)
<1>0. Len(t) \in Nat
  BY LenProperties
<1>1. \A k \in i + 1 .. j - 1 : t[k] \in B
  BY <1>0, ElementOfSeq
<1>2. CASE i + 1 < j
  <2>1. /\ u \in Seq(B) /\ Len(u) = j - 1 - i
        /\ \A k \in 1 .. j - 1 - i : u[k] = t[i + k]
    BY <1>0, <1>1, <1>2
  <2>2. DOMAIN u = 1 .. j - 1 - i
    BY <2>1, LenProperties
  <2> HIDE DEF u
  <2>3. u # <<>> /\ u[1] = t[i + 1]
    BY <1>0, <1>2, <2>1
  <2>4. (\A k \in DOMAIN u : is_placeholder_continue(u[k]))
          <=> \A k \in i + 1 .. j - 1 : is_placeholder_continue(t[k])
    <3>1. ASSUME \A k \in DOMAIN u : is_placeholder_continue(u[k]),
                 NEW k \in i + 1 .. j - 1
          PROVE  is_placeholder_continue(t[k])
      <4>1. k - i \in 1 .. j - 1 - i /\ i + (k - i) = k
        BY <1>0
      <4> QED
        BY <2>1, <2>2, <3>1, <4>1
    <3>2. ASSUME \A k \in i + 1 .. j - 1 : is_placeholder_continue(t[k]),
                 NEW k \in DOMAIN u
          PROVE  is_placeholder_continue(u[k])
      <4>1. i + k \in i + 1 .. j - 1 /\ u[k] = t[i + k]
        BY <1>0, <2>1, <2>2
      <4> QED
        BY <3>2, <4>1
    <3> QED
      BY <3>1, <3>2
  <2> QED
    BY <1>2, <2>3, <2>4 DEF IsName, u
<1>3. CASE ~(i + 1 < j)
  <2>1. u = <<>>
    BY <1>0, <1>1, <1>3
  <2> QED
    BY <1>3, <2>1 DEF IsName
<1> QED
  BY <1>2, <1>3

(* IsToken is right about where a placeholder begins, and where it ends.   *)
LEMMA TokensAreSpans ==
  ASSUME NEW B, NEW t \in Seq(B), NEW i \in 1 .. Len(t)
  PROVE  /\ IsToken(t, i) => <<i, NameEnd(t, i + 1)>> \in Spans(t)
         /\ \A j : <<i, j>> \in Spans(t) => IsToken(t, i) /\ j = NameEnd(t, i + 1)
<1> DEFINE e == NameEnd(t, i + 1)
<1>0. Len(t) \in Nat
  BY LenProperties
<1>1. i + 1 \in 1 .. Len(t) =>
         /\ e \in i + 2 .. Len(t) + 1
         /\ e <= Len(t) => ~is_placeholder_continue(t[e])
         /\ \A k \in i + 2 .. e - 1 : is_placeholder_continue(t[k])
  <2> DEFINE h == i + 1
  <2>1. h \in 1 .. Len(t) =>
         /\ NameEnd(t, h) \in h + 1 .. Len(t) + 1
         /\ NameEnd(t, h) <= Len(t) => ~is_placeholder_continue(t[NameEnd(t, h)])
         /\ \A k \in h + 1 .. NameEnd(t, h) - 1 : is_placeholder_continue(t[k])
    <3> HIDE DEF h
    <3> QED
      BY NameEndFacts
  <2> QED
    BY <1>0, <2>1
<1> HIDE DEF e
<1>2. ASSUME IsToken(t, i) PROVE <<i, e>> \in Spans(t)
  <2>1. /\ Opens(t, i) /\ i < Len(t) /\ is_placeholder_start(t[i + 1])
        /\ e <= Len(t) /\ Closes(t, e)
    BY <1>2, TokenIs DEF e
  <2>2. i + 1 \in 1 .. Len(t)
    BY <1>0, <2>1
  <2>3. e \in 1 .. Len(t) /\ i < e /\ i + 1 < e
    BY <1>0, <1>1, <2>1, <2>2
  <2>4. ASSUME NEW k \in i + 1 .. e - 1 PROVE is_placeholder_continue(t[k])
    <3>1. CASE k = i + 1
      BY <2>1, <3>1 DEF is_placeholder_continue
    <3>2. CASE k # i + 1
      <4>1. k \in i + 2 .. e - 1
        BY <2>3, <3>2
      <4> QED
        BY <1>1, <2>2, <4>1
    <3> QED
      BY <3>1, <3>2
  <2>5. IsName(SubSeq(t, i + 1, e - 1))
    BY <2>1, <2>3, <2>4, NameBytewise
  <2> QED
    BY <2>1, <2>3, <2>5, SpanIs
<1>3. ASSUME NEW j, <<i, j>> \in Spans(t) PROVE IsToken(t, i) /\ j = e
  <2>1. /\ j \in 1 .. Len(t) /\ i < j /\ Opens(t, i) /\ Closes(t, j)
        /\ IsName(SubSeq(t, i + 1, j - 1))
    BY <1>3, SpanIs
  <2>2. /\ i + 1 < j
        /\ is_placeholder_start(t[i + 1])
        /\ \A k \in i + 1 .. j - 1 : is_placeholder_continue(t[k])
    BY <2>1, NameBytewise
  <2>3. i + 1 \in 1 .. Len(t) /\ i < Len(t)
    BY <1>0, <2>1, <2>2
  <2>4. ~(j < e)
    <3> SUFFICES ASSUME j < e PROVE FALSE
      OBVIOUS
    <3>1. j \in i + 2 .. e - 1
      BY <1>0, <1>1, <2>1, <2>2, <2>3
    <3> QED
      BY <1>1, <2>1, <2>3, <3>1, BracesEndNames
  <2>5. ~(e < j)
    <3> SUFFICES ASSUME e < j PROVE FALSE
      OBVIOUS
    <3>1. e \in i + 1 .. j - 1 /\ e <= Len(t)
      BY <1>0, <1>1, <2>1, <2>2, <2>3
    <3> QED
      BY <1>1, <2>2, <2>3, <3>1
  <2>6. j = e
    BY <1>0, <1>1, <2>1, <2>3, <2>4, <2>5
  <2> QED
    BY <1>0, <2>1, <2>2, <2>3, <2>6, TokenIs DEF e
<1> QED
  BY <1>2, <1>3 DEF e

(* No placeholder begins inside another one.                               *)
LEMMA NoneInside ==
  ASSUME NEW B, NEW t \in Seq(B), NEW i \in 1 .. Len(t), IsToken(t, i),
         NEW s \in Spans(t), s[1] > i
  PROVE  s[1] >= NameEnd(t, i + 1) + 1
<1> DEFINE e == NameEnd(t, i + 1)
<1>0. Len(t) \in Nat
  BY LenProperties
<1>1. <<i, e>> \in Spans(t)
  BY TokensAreSpans
<1> HIDE DEF e
<1>2. /\ e \in 1 .. Len(t) /\ i < e /\ Closes(t, e)
      /\ IsName(SubSeq(t, i + 1, e - 1))
  BY <1>1, SpanIs
<1>3. \A k \in i + 1 .. e - 1 : is_placeholder_continue(t[k])
  BY <1>2, NameBytewise
<1>4. s[1] \in 1 .. Len(t) /\ Opens(t, s[1])
  <2>1. <<s[1], s[2]>> \in Spans(t)
    BY SpanPair
  <2> QED
    BY <2>1, SpanIs
<1>5. s[1] \notin i + 1 .. e - 1 /\ s[1] # e
  BY <1>2, <1>3, <1>4, BracesEndNames
<1>6. s[1] >= e + 1
  BY <1>0, <1>2, <1>4, <1>5
<1> QED
  BY <1>6 DEF e

(* The equation of the scan in parse_placeholders, and the scan's result.  *)
Scans(r, t) ==
    r = [i \in 1 .. Len(t) + 1 |->
            IF i > Len(t) THEN <<>>
            ELSE IF IsToken(t, i)
                 THEN <<SubSeq(t, i + 1, NameEnd(t, i + 1) - 1)>>
                         \o r[NameEnd(t, i + 1) + 1]
            ELSE r[i + 1]]

Scan(t) == (CHOOSE r : Scans(r, t))[1]

LEMMA ParseIs == ASSUME NEW t PROVE parse_placeholders(t) = Dedup(Scan(t))
BY DEF parse_placeholders, Scans, Scan

(* names are those of the placeholders that begin at i or later, in the    *)
(* order of their positions.                                               *)
NameFrom(t, i) == SubSeq(t, i + 1, NameEnd(t, i + 1) - 1)

Places(names, at, t, i) ==
    /\ at \in [1 .. Len(names) -> i .. Len(t)]
    /\ \A k \in 1 .. Len(names) :
          IsToken(t, at[k]) /\ names[k] = NameFrom(t, at[k])
    /\ \A k, l \in 1 .. Len(names) : k < l => at[k] < at[l]
    /\ \A p \in i .. Len(t) :
          IsToken(t, p) => \E k \in 1 .. Len(names) : at[k] = p

Located(names, t, i) == \E at : Places(names, at, t, i)

(* Where no placeholder begins nothing is added.                           *)
LEMMA LocatedSkip ==
  ASSUME NEW n \in Nat, NEW t, Len(t) = n, NEW i \in 1 .. n, NEW j \in i + 1 .. n + 1,
         \A p \in i .. j - 1 : ~IsToken(t, p), NEW names, Located(names, t, j)
  PROVE  Located(names, t, i)
<1>1. PICK at : Places(names, at, t, j)
  BY DEF Located
<1>2. \A p \in i .. n : p \in i .. j - 1 \/ p \in j .. n
  OBVIOUS
<1>3. j .. n \subseteq i .. n
  OBVIOUS
<1>4. Places(names, at, t, i)
  BY <1>1, <1>2, <1>3 DEF Places
<1> QED
  BY <1>4 DEF Located

(* Where one begins, its name comes first.                                 *)
LEMMA LocatedToken ==
  ASSUME NEW N, NEW n \in Nat, NEW t, Len(t) = n, NEW i \in 1 .. n,
         NEW j \in i + 1 .. n + 1, IsToken(t, i), NameFrom(t, i) \in N,
         \A p \in i + 1 .. j - 1 : ~IsToken(t, p),
         NEW names \in Seq(N), Located(names, t, j)
  PROVE  Located(<<NameFrom(t, i)>> \o names, t, i)
<1> DEFINE a == NameFrom(t, i)
           m == Len(names)
           x == <<a>> \o names
<1>1. m \in Nat /\ Len(x) = 1 + m
      /\ \A k \in 1 .. 1 + m : x[k] = IF k <= 1 THEN a ELSE names[k - 1]
  BY LenProperties, ConsProperties
<1>2. PICK at : Places(names, at, t, j)
  BY DEF Located
<1>3. /\ at \in [1 .. m -> j .. n]
      /\ \A k \in 1 .. m : IsToken(t, at[k]) /\ names[k] = NameFrom(t, at[k])
      /\ \A k, l \in 1 .. m : k < l => at[k] < at[l]
      /\ \A p \in j .. n : IsToken(t, p) => \E k \in 1 .. m : at[k] = p
  BY <1>2 DEF Places
<1> HIDE DEF m, x
<1> DEFINE as == [k \in 1 .. 1 + m |-> IF k <= 1 THEN i ELSE at[k - 1]]
<1>4. \A k \in 1 .. 1 + m : k = 1 \/ (k - 1 \in 1 .. m /\ ~(k <= 1))
  BY <1>1
<1>5. as[1] = i /\ \A k \in 1 .. m : k + 1 \in 1 .. 1 + m /\ as[k + 1] = at[k]
  <2>1. 1 \in 1 .. 1 + m /\ \A k \in 1 .. m :
           k + 1 \in 1 .. 1 + m /\ ~(k + 1 <= 1) /\ (k + 1) - 1 = k
    BY <1>1
  <2> QED
    BY <2>1
<1>6. as \in [1 .. 1 + m -> i .. n]
  <2>1. \A k \in 1 .. m : at[k] \in i .. n
    BY <1>3
  <2>2. i \in i .. n
    OBVIOUS
  <2> QED
    BY <1>4, <2>1, <2>2
<1>7. ASSUME NEW k \in 1 .. 1 + m
      PROVE  IsToken(t, as[k]) /\ x[k] = NameFrom(t, as[k])
  <2>1. CASE k = 1
    BY <1>1, <1>5, <2>1
  <2>2. CASE k # 1
    <3>1. k - 1 \in 1 .. m /\ ~(k <= 1) /\ as[k] = at[k - 1]
      BY <1>4, <2>2
    <3> QED
      BY <1>1, <1>3, <3>1
  <2> QED
    BY <2>1, <2>2
<1>8. ASSUME NEW k \in 1 .. 1 + m, NEW l \in 1 .. 1 + m, k < l
      PROVE  as[k] < as[l]
  <2>1. l - 1 \in 1 .. m /\ as[l] = at[l - 1] /\ at[l - 1] \in j .. n
    BY <1>1, <1>3, <1>8
  <2>2. CASE k = 1
    BY <1>5, <2>1, <2>2
  <2>3. CASE k # 1
    <3>1. k - 1 \in 1 .. m /\ as[k] = at[k - 1] /\ k - 1 < l - 1
      BY <1>1, <1>8, <2>3
    <3> QED
      BY <1>3, <2>1, <3>1
  <2> QED
    BY <2>2, <2>3
<1>9. ASSUME NEW p \in i .. n, IsToken(t, p)
      PROVE  \E k \in 1 .. 1 + m : as[k] = p
  <2>1. CASE p = i
    <3>1. 1 \in 1 .. 1 + m
      BY <1>1
    <3> QED
      BY <1>5, <2>1, <3>1
  <2>2. CASE p # i
    <3>1. p \in j .. n
      <4>1. p \notin i + 1 .. j - 1
        BY <1>9
      <4> QED
        BY <2>2, <4>1
    <3>2. PICK k \in 1 .. m : at[k] = p
      BY <1>3, <1>9, <3>1
    <3> QED
      BY <1>5, <3>2
  <2> QED
    BY <2>1, <2>2
<1> HIDE DEF as
<1>10. Places(x, as, t, i)
  BY <1>1, <1>6, <1>7, <1>8, <1>9 DEF Places
<1> QED
  BY <1>10 DEF Located, x

(* What lies between a token's brace and its end.                          *)
LEMMA TokenFacts ==
  ASSUME NEW B, NEW t \in Seq(B), NEW i \in 1 .. Len(t), IsToken(t, i)
  PROVE  /\ NameEnd(t, i + 1) \in i + 1 .. Len(t)
         /\ NameFrom(t, i) \in Seq(B)
         /\ \A p \in i + 1 .. NameEnd(t, i + 1) : ~IsToken(t, p)
<1> DEFINE e == NameEnd(t, i + 1)
<1>0. Len(t) \in Nat
  BY LenProperties
<1>1. e \in i + 1 .. Len(t)
  <2>1. <<i, e>> \in Spans(t)
    BY TokensAreSpans
  <2> HIDE DEF e
  <2>2. e \in 1 .. Len(t) /\ i < e
    BY <2>1, SpanIs
  <2> QED
    BY <1>0, <2>2
<1> HIDE DEF e
<1>2. SubSeq(t, i + 1, e - 1) \in Seq(B)
  <2>1. \A k \in i + 1 .. e - 1 : t[k] \in B
    BY <1>0, <1>1, ElementOfSeq
  <2> QED
    BY <1>0, <1>1, <2>1
<1>3. ASSUME NEW p \in i + 1 .. e, IsToken(t, p) PROVE FALSE
  <2>1. p \in 1 .. Len(t) /\ p > i /\ ~(p >= e + 1)
    BY <1>0, <1>1
  <2>2. <<p, NameEnd(t, p + 1)>> \in Spans(t)
    BY <1>3, <2>1, TokensAreSpans
  <2>3. <<p, NameEnd(t, p + 1)>>[1] = p
    OBVIOUS
  <2>4. p >= NameEnd(t, i + 1) + 1
    BY <2>1, <2>2, <2>3, NoneInside
  <2> QED
    BY <2>1, <2>4 DEF e
<1> QED
  BY <1>1, <1>2, <1>3 DEF e, NameFrom

ScanFound(B, t) == Scan(t) \in Seq(Seq(B)) /\ Located(Scan(t), t, 1)

(* The scan finds every placeholder, from left to right.                   *)
LEMMA ScanFinds ==
  ASSUME NEW B, NEW t \in Seq(B)
  PROVE  ScanFound(B, t)
<1> DEFINE n == Len(t)
           N == Seq(B)
           piece == [i \in 1 .. n |-> IF IsToken(t, i) THEN <<NameFrom(t, i)>>
                                      ELSE <<>>]
           next == [i \in 1 .. n |-> IF IsToken(t, i) THEN NameEnd(t, i + 1) + 1
                                     ELSE i + 1]
<1>0. n \in Nat
  BY LenProperties
<1>1. \A i \in 1 .. n : IsToken(t, i) =>
         /\ NameEnd(t, i + 1) + 1 \in i + 1 .. n + 1
         /\ NameFrom(t, i) \in N
         /\ \A p \in i + 1 .. (NameEnd(t, i + 1) + 1) - 1 : ~IsToken(t, p)
  <2> SUFFICES ASSUME NEW i \in 1 .. n, IsToken(t, i)
               PROVE  /\ NameEnd(t, i + 1) + 1 \in i + 1 .. n + 1
                      /\ NameFrom(t, i) \in N
                      /\ \A p \in i + 1 .. (NameEnd(t, i + 1) + 1) - 1 : ~IsToken(t, p)
    OBVIOUS
  <2>1. /\ NameEnd(t, i + 1) \in i + 1 .. n
        /\ NameFrom(t, i) \in N
        /\ \A p \in i + 1 .. NameEnd(t, i + 1) : ~IsToken(t, p)
    BY TokenFacts
  <2>2. (NameEnd(t, i + 1) + 1) - 1 = NameEnd(t, i + 1)
    BY <1>0, <2>1
  <2>3. NameEnd(t, i + 1) + 1 \in i + 1 .. n + 1
    BY <1>0, <2>1
  <2> QED
    BY <2>1, <2>2, <2>3
<1> HIDE DEF N
<1>2. piece \in [1 .. n -> Seq(N)]
  BY <1>1
<1>3. Steps(n, next)
  BY <1>0, <1>1 DEF Steps
<1>4. PICK r \in [1 .. n + 1 -> Seq(N)] : Solves(r, piece, next, n)
  <2> HIDE DEF piece, next, n
  <2> QED
    BY <1>0, <1>2, <1>3, Solvable
<1>5. \A i \in 1 .. n + 1 : r[i] = IF i > n THEN <<>>
                                   ELSE IF IsToken(t, i)
                                   THEN <<NameFrom(t, i)>> \o r[NameEnd(t, i + 1) + 1]
                                   ELSE r[i + 1]
  <2> SUFFICES ASSUME NEW i \in 1 .. n + 1
               PROVE  r[i] = IF i > n THEN <<>>
                             ELSE IF IsToken(t, i)
                             THEN <<NameFrom(t, i)>> \o r[NameEnd(t, i + 1) + 1]
                             ELSE r[i + 1]
    OBVIOUS
  <2>1. r[i] = IF i > n THEN <<>> ELSE piece[i] \o r[next[i]]
    BY <1>4 DEF Solves, Joined
  <2>2. i > n \/ (i \in 1 .. n /\ ~(i > n))
    BY <1>0
  <2>3. i \in 1 .. n => r[i + 1] \in Seq(N)
    BY <1>0
  <2>4. i \in 1 .. n => <<>> \o r[i + 1] = r[i + 1]
    BY <2>3, ConcatEmptySeq
  <2> QED
    BY <2>1, <2>2, <2>4
<1>6. Scans(r, t)
  BY <1>5 DEF Scans, NameFrom
<1> DEFINE q == CHOOSE p : Scans(p, t)
<1>7. Scans(q, t) /\ Scan(t) = q[1]
  BY <1>6, Zenon DEF Scan
<1> HIDE DEF q
<1>8. \A i \in 1 .. n + 1 : q[i] = IF i > n THEN <<>>
                                   ELSE IF IsToken(t, i)
                                   THEN <<NameFrom(t, i)>> \o q[NameEnd(t, i + 1) + 1]
                                   ELSE q[i + 1]
  BY <1>7 DEF Scans, NameFrom
<1> HIDE DEF piece, next
<1> DEFINE Good(i) == q[i] \in Seq(N) /\ Located(q[i], t, i)
           K == {k \in Nat : \A i \in 1 .. n + 1 : i >= n + 1 - k => Good(i)}
<1>9. 0 \in K
  <2> SUFFICES ASSUME NEW i \in 1 .. n + 1, i >= n + 1 - 0 PROVE Good(i)
    OBVIOUS
  <2>1. i > n
    BY <1>0
  <2>2. q[i] = <<>>
    BY <1>8, <2>1
  <2>3. q[i] \in Seq(N) /\ Len(q[i]) = 0
    BY <2>2, EmptySeq
  <2>4. 1 .. Len(q[i]) = {} /\ i .. n = {}
    BY <1>0, <2>1, <2>3
  <2> DEFINE at == [k \in 1 .. Len(q[i]) |-> i]
  <2>5. Places(q[i], at, t, i)
    BY <2>4 DEF Places
  <2> QED
    BY <2>3, <2>5 DEF Located
<1>10. ASSUME NEW k \in Nat, k \in K PROVE k + 1 \in K
  <2> SUFFICES ASSUME NEW i \in 1 .. n + 1, i >= n + 1 - (k + 1) PROVE Good(i)
    OBVIOUS
  <2>0. q[i] = IF i > n THEN <<>>
               ELSE IF IsToken(t, i)
               THEN <<NameFrom(t, i)>> \o q[NameEnd(t, i + 1) + 1]
               ELSE q[i + 1]
    BY <1>8
  <2>1. CASE i > n
    <3>1. i >= n + 1 - k
      BY <1>0, <2>1
    <3> QED
      BY <1>10, <3>1
  <2>2. CASE i <= n /\ IsToken(t, i)
    <3> DEFINE j == NameEnd(t, i + 1) + 1
    <3>0. i \in 1 .. n /\ ~(i > n)
      BY <1>0, <2>2
    <3>1. j \in i + 1 .. n + 1 /\ NameFrom(t, i) \in N
          /\ \A p \in i + 1 .. j - 1 : ~IsToken(t, p)
      BY <1>1, <2>2, <3>0
    <3>2. q[i] = <<NameFrom(t, i)>> \o q[j]
      BY <2>0, <2>2, <3>0
    <3> HIDE DEF j
    <3>3. j \in 1 .. n + 1 /\ j >= n + 1 - k
      BY <1>0, <3>0, <3>1
    <3>4. q[j] \in Seq(N) /\ Located(q[j], t, j)
      BY <1>10, <3>3
    <3>5. <<NameFrom(t, i)>> \in Seq(N)
      BY <3>1
    <3>6. q[i] \in Seq(N)
      BY <3>2, <3>4, <3>5, ConcatProperties
    <3>7. Located(q[i], t, i)
      BY <1>0, <2>2, <3>0, <3>1, <3>2, <3>4, LocatedToken
    <3> QED
      BY <3>6, <3>7
  <2>3. CASE i <= n /\ ~IsToken(t, i)
    <3> DEFINE j == i + 1
    <3>1. i \in 1 .. n /\ j \in i + 1 .. n + 1 /\ j \in 1 .. n + 1 /\ j >= n + 1 - k
          /\ ~(i > n) /\ \A p \in i .. j - 1 : p = i
      BY <1>0, <2>3
    <3>2. q[i] = q[j]
      BY <2>0, <2>3, <3>1
    <3> HIDE DEF j
    <3>3. q[j] \in Seq(N) /\ Located(q[j], t, j)
      BY <1>10, <3>1
    <3>4. Located(q[j], t, i)
      BY <1>0, <2>3, <3>1, <3>3, LocatedSkip
    <3> QED
      BY <3>2, <3>3, <3>4
  <2> QED
    BY <1>0, <2>1, <2>2, <2>3
<1> HIDE DEF K
<1>11. n \in K
  BY <1>0, <1>9, <1>10, InductionOnNat
<1>12. 1 \in 1 .. n + 1 /\ 1 >= n + 1 - n
  BY <1>0
<1>13. Good(1)
  BY <1>11, <1>12 DEF K
<1> QED
  BY <1>7, <1>13 DEF ScanFound, N

(* Dedup, one name after the other.                                        *)
Added(all, name) == IF Contains(all, name) THEN all ELSE Append(all, name)

DedupFold(g, names) ==
    g = [s \in SUBSET DOMAIN names |->
            IF s = {} THEN <<>> ELSE Added(g[s \ {Max(s)}], names[Max(s)])]

LEMMA DedupIs ==
  ASSUME NEW names
  PROVE  Dedup(names) = (CHOOSE g : DedupFold(g, names))[DOMAIN names]
BY DEF Dedup, FoldLeft, MapThenFoldSet, DedupFold, Added

(* Dedup goes through the names from the first to the last.                *)
LEMMA DedupSteps ==
  ASSUME NEW N, NEW names \in Seq(N)
  PROVE  \E h : /\ h[0] = <<>>
                /\ \A k \in 0 .. Len(names) - 1 :
                      h[k + 1] = Added(h[k], names[k + 1])
                /\ Dedup(names) = h[Len(names)]
<1> DEFINE n == Len(names)
           V == Seq(N)
           step == [p \in V \X (1 .. n) |-> Added(p[1], names[p[2]])]
<1>0. n \in Nat /\ DOMAIN names = 1 .. n /\ <<>> \in V
  BY LenProperties, EmptySeq
<1>1. step \in [V \X (1 .. n) -> V]
  <2>1. \A u \in V, i \in 1 .. n : Added(u, names[i]) \in V
    BY ElementOfSeq DEF Added
  <2> QED
    BY <2>1
<1>2. \A u \in V, i \in 1 .. n : step[<<u, i>>] = Added(u, names[i])
  OBVIOUS
<1> HIDE DEF step, V, n
<1>3. FoldDefined(<<>>, step, V, n)
  BY <1>0, <1>1, FoldExists
<1>4. PICK g \in [SUBSET (1 .. n) -> V] : \A s \in SUBSET (1 .. n) :
         g[s] = IF s = {} THEN <<>> ELSE step[<<g[s \ {Max(s)}], Max(s)>>]
  BY <1>3 DEF FoldDefined
<1>5. \A s \in SUBSET (1 .. n) :
         g[s] = IF s = {} THEN <<>> ELSE Added(g[s \ {Max(s)}], names[Max(s)])
  <2> SUFFICES ASSUME NEW s \in SUBSET (1 .. n), s # {}
               PROVE  g[s] = Added(g[s \ {Max(s)}], names[Max(s)])
    BY <1>4
  <2>1. Max(s) \in 1 .. n
    BY <1>0, MaxOf
  <2>2. g[s \ {Max(s)}] \in V
    OBVIOUS
  <2> QED
    BY <1>2, <1>4, <2>1, <2>2
<1>6. DedupFold(g, names)
  BY <1>0, <1>5 DEF DedupFold
<1> DEFINE q == CHOOSE p : DedupFold(p, names)
<1>7. DedupFold(q, names)
  BY <1>6, Zenon
<1>8. Dedup(names) = q[1 .. n]
  BY <1>0, DedupIs
<1> HIDE DEF q
<1>9. \A s \in SUBSET (1 .. n) :
         q[s] = IF s = {} THEN <<>> ELSE Added(q[s \ {Max(s)}], names[Max(s)])
  BY <1>0, <1>7 DEF DedupFold
<1> DEFINE h == [k \in 0 .. n |-> q[1 .. k]]
<1>10. h[0] = <<>>
  <2>1. 1 .. 0 = {} /\ 0 \in 0 .. n
    BY <1>0
  <2>2. q[{}] = <<>>
    BY <1>9
  <2> QED
    BY <2>1, <2>2
<1>11. ASSUME NEW k \in 0 .. n - 1
       PROVE  h[k + 1] = Added(h[k], names[k + 1])
  <2>1. k \in 0 .. n /\ k + 1 \in 0 .. n /\ k + 1 \in Nat \ {0} /\ (k + 1) - 1 = k
        /\ 1 .. k + 1 \in SUBSET (1 .. n)
    BY <1>0
  <2> DEFINE m == k + 1
  <2> HIDE DEF m
  <2>2. Max(1 .. m) = m /\ (1 .. m) \ {m} = 1 .. k /\ 1 .. m # {}
    BY <2>1, MaxOfInterval DEF m
  <2>3. q[1 .. m] = Added(q[1 .. k], names[m])
    BY <1>9, <2>1, <2>2 DEF m
  <2> QED
    BY <2>1, <2>3 DEF m
<1>12. h[n] = q[1 .. n]
  BY <1>0
<1> HIDE DEF h
<1> QED
  BY <1>8, <1>10, <1>11, <1>12 DEF n

(* d has the first k names, each once, in the order of their first         *)
(* occurrences at[1], at[2], ...                                           *)
Firsts(d, at, names, k) ==
    /\ at \in [1 .. Len(d) -> 1 .. k]
    /\ \A i \in 1 .. Len(d) :
          d[i] = names[at[i]] /\ \A m \in 1 .. k : names[m] = d[i] => at[i] <= m
    /\ \A i, j \in 1 .. Len(d) : i < j => at[i] < at[j]
    /\ \A m \in 1 .. k : \E i \in 1 .. Len(d) : d[i] = names[m]

(* A name is added where it occurs first.                                  *)
LEMMA AddedFirsts ==
  ASSUME NEW N, NEW names, NEW k \in Nat, names[k + 1] \in N,
         NEW d \in Seq(N), NEW at, Firsts(d, at, names, k)
  PROVE  /\ Added(d, names[k + 1]) \in Seq(N)
         /\ \E as : Firsts(Added(d, names[k + 1]), as, names, k + 1)
<1> DEFINE a == names[k + 1]
           n == Len(d)
<1>0. n \in Nat
  BY LenProperties
<1>1. /\ at \in [1 .. n -> 1 .. k]
      /\ \A i \in 1 .. n : d[i] = names[at[i]]
      /\ \A i \in 1 .. n : \A m \in 1 .. k : names[m] = d[i] => at[i] <= m
      /\ \A i, j \in 1 .. n : i < j => at[i] < at[j]
      /\ \A m \in 1 .. k : \E i \in 1 .. n : d[i] = names[m]
  BY DEF Firsts
<1>2. \A m \in 1 .. k + 1 : m \in 1 .. k \/ m = k + 1
  OBVIOUS
<1>3. CASE Contains(d, a)
  <2>1. Added(d, a) = d
    BY <1>3 DEF Added
  <2>2. PICK i \in 1 .. n : d[i] = a
    BY <1>3 DEF Contains
  <2> HIDE DEF a, n
  <2>3. at \in [1 .. n -> 1 .. k + 1]
    BY <1>1
  <2>4. ASSUME NEW j \in 1 .. n, NEW m \in 1 .. k + 1, names[m] = d[j]
        PROVE  at[j] <= m
    BY <1>1, <1>2, <2>4
  <2>5. \A m \in 1 .. k + 1 : \E j \in 1 .. n : d[j] = names[m]
    BY <1>1, <1>2, <2>2 DEF a
  <2>6. Firsts(d, at, names, k + 1)
    BY <1>1, <2>3, <2>4, <2>5 DEF Firsts, n
  <2> QED
    BY <2>1, <2>6 DEF a
<1>4. CASE ~Contains(d, a)
  <2> DEFINE x == Append(d, a)
             as == [i \in 1 .. n + 1 |-> IF i = n + 1 THEN k + 1 ELSE at[i]]
  <2>1. Added(d, a) = x
    BY <1>4 DEF Added
  <2>2. x \in Seq(N) /\ Len(x) = n + 1 /\ x[n + 1] = a
        /\ \A i \in 1 .. n : x[i] = d[i]
    BY AppendProperties
  <2>3. \A i \in 1 .. n : d[i] # a
    BY <1>4 DEF Contains
  <2> HIDE DEF a, n, x
  <2>4. \A i \in 1 .. n + 1 : i = n + 1 \/ (i \in 1 .. n /\ i # n + 1)
    BY <1>0
  <2>5. as[n + 1] = k + 1 /\ \A i \in 1 .. n : as[i] = at[i] /\ i \in 1 .. n + 1
    BY <1>0
  <2>6. as \in [1 .. n + 1 -> 1 .. k + 1]
    <3>1. \A i \in 1 .. n : at[i] \in 1 .. k + 1
      BY <1>1
    <3>2. k + 1 \in 1 .. k + 1
      OBVIOUS
    <3> QED
      BY <2>4, <3>1, <3>2
  <2> HIDE DEF as
  <2>7. \A i \in 1 .. n + 1 : x[i] = names[as[i]]
    BY <1>1, <2>2, <2>4, <2>5 DEF a
  <2>8. ASSUME NEW i \in 1 .. n + 1, NEW m \in 1 .. k + 1, names[m] = x[i]
        PROVE  as[i] <= m
    <3>1. CASE i = n + 1
      <4>1. names[m] = a
        BY <2>2, <2>8, <3>1
      <4>2. m \notin 1 .. k
        BY <1>1, <2>3, <4>1
      <4>3. m = k + 1 /\ as[i] = k + 1
        BY <1>2, <2>5, <3>1, <4>2
      <4> QED
        BY <4>3
    <3>2. CASE i \in 1 .. n
      <4>1. names[m] = d[i] /\ as[i] = at[i] /\ at[i] \in 1 .. k
        BY <1>1, <2>2, <2>5, <2>8, <3>2
      <4>2. CASE m \in 1 .. k
        BY <1>1, <3>2, <4>1, <4>2
      <4>3. CASE m = k + 1
        BY <4>1, <4>3
      <4> QED
        BY <1>2, <4>2, <4>3
    <3> QED
      BY <2>4, <3>1, <3>2
  <2>9. ASSUME NEW i \in 1 .. n + 1, NEW j \in 1 .. n + 1, i < j
        PROVE  as[i] < as[j]
    <3>1. i \in 1 .. n /\ as[i] = at[i] /\ at[i] \in 1 .. k
      <4>1. i \in 1 .. n
        BY <1>0, <2>9
      <4> QED
        BY <1>1, <2>5, <4>1
    <3>2. CASE j = n + 1
      <4>1. as[j] = k + 1
        BY <2>5, <3>2
      <4> QED
        BY <3>1, <4>1
    <3>3. CASE j \in 1 .. n
      BY <1>1, <2>5, <2>9, <3>1, <3>3
    <3> QED
      BY <2>4, <3>2, <3>3
  <2>10. \A m \in 1 .. k + 1 : \E i \in 1 .. n + 1 : x[i] = names[m]
    <3> SUFFICES ASSUME NEW m \in 1 .. k + 1
                 PROVE  \E i \in 1 .. n + 1 : x[i] = names[m]
      OBVIOUS
    <3>1. n + 1 \in 1 .. n + 1
      BY <1>0
    <3>2. CASE m = k + 1
      BY <2>2, <3>1, <3>2 DEF a
    <3>3. CASE m \in 1 .. k
      <4>1. PICK i \in 1 .. n : d[i] = names[m]
        BY <1>1, <3>3
      <4>2. i \in 1 .. n + 1 /\ x[i] = names[m]
        BY <2>2, <2>5, <4>1
      <4> QED
        BY <4>2
    <3> QED
      BY <1>2, <3>2, <3>3
  <2>11. Firsts(x, as, names, k + 1)
    BY <2>2, <2>6, <2>7, <2>8, <2>9, <2>10 DEF Firsts
  <2> QED
    BY <2>1, <2>2, <2>11 DEF a
<1> QED
  BY <1>3, <1>4

DedupFound(N, names) ==
    Dedup(names) \in Seq(N) /\ \E at : Firsts(Dedup(names), at, names, Len(names))

(* Dedup keeps the first occurrence of every name, in their order.         *)
LEMMA DedupFirsts ==
  ASSUME NEW N, NEW names \in Seq(N)
  PROVE  DedupFound(N, names)
<1> DEFINE n == Len(names)
<1>0. n \in Nat
  BY LenProperties
<1>1. PICK h : /\ h[0] = <<>>
               /\ \A k \in 0 .. n - 1 : h[k + 1] = Added(h[k], names[k + 1])
               /\ Dedup(names) = h[n]
  BY DedupSteps
<1> DEFINE Good(k) == h[k] \in Seq(N) /\ \E at : Firsts(h[k], at, names, k)
           A == {k \in Nat : k <= n => Good(k)}
<1>2. 0 \in A
  <2>1. h[0] \in Seq(N) /\ Len(h[0]) = 0
    BY <1>1, EmptySeq
  <2>2. 1 .. 0 = {}
    OBVIOUS
  <2> DEFINE at == [i \in 1 .. 0 |-> 0]
  <2>3. Firsts(h[0], at, names, 0)
    BY <2>1, <2>2 DEF Firsts
  <2> QED
    BY <2>1, <2>3
<1>3. ASSUME NEW k \in Nat, k \in A PROVE k + 1 \in A
  <2> SUFFICES ASSUME k + 1 <= n PROVE Good(k + 1)
    OBVIOUS
  <2>1. k <= n /\ k \in 0 .. n - 1 /\ k + 1 \in 1 .. n
    BY <1>0
  <2>2. h[k] \in Seq(N)
    BY <1>3, <2>1
  <2>3. PICK at : Firsts(h[k], at, names, k)
    BY <1>3, <2>1
  <2>4. h[k + 1] = Added(h[k], names[k + 1]) /\ names[k + 1] \in N
    BY <1>1, <2>1, ElementOfSeq
  <2> QED
    BY <2>2, <2>3, <2>4, AddedFirsts
<1> HIDE DEF A
<1>4. n \in A
  BY <1>0, <1>2, <1>3, InductionOnNat
<1>5. Good(n)
  BY <1>0, <1>4 DEF A
<1> QED
  BY <1>1, <1>5 DEF DedupFound

(* A position begins at most one placeholder, the token that IsToken sees. *)
LEMMA SpansOfTokens ==
  ASSUME NEW B, NEW t \in Seq(B)
  PROVE  /\ \A s \in Spans(t) : /\ s[1] \in 1 .. Len(t) /\ IsToken(t, s[1])
                                /\ NameAt(t, s) = NameFrom(t, s[1])
         /\ \A p \in 1 .. Len(t) : IsToken(t, p) =>
               \E s \in Spans(t) : s[1] = p /\ NameAt(t, s) = NameFrom(t, p)
<1>1. ASSUME NEW s \in Spans(t)
      PROVE  /\ s[1] \in 1 .. Len(t) /\ IsToken(t, s[1])
             /\ NameAt(t, s) = NameFrom(t, s[1])
  <2> DEFINE i == s[1]
             j == s[2]
  <2>1. <<i, j>> \in Spans(t)
    BY SpanPair
  <2>2. NameAt(t, s) = SubSeq(t, i + 1, j - 1)
    BY DEF NameAt
  <2> HIDE DEF i, j
  <2>3. i \in 1 .. Len(t)
    BY <2>1, SpanIs
  <2>4. IsToken(t, i) /\ j = NameEnd(t, i + 1)
    BY <2>1, <2>3, TokensAreSpans
  <2>5. NameAt(t, s) = NameFrom(t, i)
    BY <2>2, <2>4 DEF NameFrom
  <2> QED
    BY <2>3, <2>4, <2>5 DEF i
<1>2. ASSUME NEW p \in 1 .. Len(t), IsToken(t, p)
      PROVE  \E s \in Spans(t) : s[1] = p /\ NameAt(t, s) = NameFrom(t, p)
  <2> DEFINE s == <<p, NameEnd(t, p + 1)>>
  <2>1. s \in Spans(t)
    BY <1>2, TokensAreSpans
  <2>2. s[1] = p
    OBVIOUS
  <2> QED
    BY <1>1, <2>1, <2>2
<1> QED
  BY <1>1, <1>2

(* parse_placeholders of any text.                                         *)
Parsed(t) ==
    LET out1 == parse_placeholders(t)
    IN  /\ ToSet(out1) = {NameAt(t, s) : s \in Spans(t)}
        /\ \A i, j \in DOMAIN out1 :
              i < j => FirstAt(t, out1[i]) < FirstAt(t, out1[j])

(* parse_placeholders finds the tokens, in the order of first occurrence.  *)
LEMMA ParseFinds ==
  ASSUME NEW B, NEW t \in Seq(B)
  PROVE  Parsed(t)
<1> DEFINE x == Scan(t)
           d == parse_placeholders(t)
<1>0. Len(t) \in Nat
  BY LenProperties
<1>1. x \in Seq(Seq(B)) /\ Located(x, t, 1)
  BY ScanFinds DEF ScanFound
<1>2. d = Dedup(x)
  BY ParseIs
<1> HIDE DEF x, d
<1>3. d \in Seq(Seq(B)) /\ \E at : Firsts(d, at, x, Len(x))
  BY <1>1, <1>2, DedupFirsts DEF DedupFound
<1>4. PICK pos : Places(x, pos, t, 1)
  BY <1>1 DEF Located
<1>5. PICK at : Firsts(d, at, x, Len(x))
  BY <1>3
<1>6. Len(x) \in Nat /\ Len(d) \in Nat /\ DOMAIN d = 1 .. Len(d)
  BY <1>1, <1>3, LenProperties
<1>7. /\ pos \in [1 .. Len(x) -> 1 .. Len(t)]
      /\ \A k \in 1 .. Len(x) : IsToken(t, pos[k]) /\ x[k] = NameFrom(t, pos[k])
      /\ \A k, l \in 1 .. Len(x) : k < l => pos[k] < pos[l]
      /\ \A p \in 1 .. Len(t) : IsToken(t, p) => \E k \in 1 .. Len(x) : pos[k] = p
  BY <1>4 DEF Places
<1>8. /\ at \in [1 .. Len(d) -> 1 .. Len(x)]
      /\ \A i \in 1 .. Len(d) : d[i] = x[at[i]]
      /\ \A i \in 1 .. Len(d) : \A m \in 1 .. Len(x) : x[m] = d[i] => at[i] <= m
      /\ \A i, j \in 1 .. Len(d) : i < j => at[i] < at[j]
      /\ \A m \in 1 .. Len(x) : \E i \in 1 .. Len(d) : d[i] = x[m]
  BY <1>5 DEF Firsts
<1>9. ToSet(d) = {NameAt(t, s) : s \in Spans(t)}
  <2>1. ASSUME NEW i \in 1 .. Len(d)
        PROVE  \E s \in Spans(t) : d[i] = NameAt(t, s)
    <3>1. at[i] \in 1 .. Len(x) /\ pos[at[i]] \in 1 .. Len(t)
          /\ IsToken(t, pos[at[i]]) /\ d[i] = NameFrom(t, pos[at[i]])
      BY <1>7, <1>8
    <3> QED
      BY <3>1, SpansOfTokens
  <2>2. ASSUME NEW s \in Spans(t)
        PROVE  \E i \in 1 .. Len(d) : d[i] = NameAt(t, s)
    <3>1. s[1] \in 1 .. Len(t) /\ IsToken(t, s[1]) /\ NameAt(t, s) = NameFrom(t, s[1])
      BY SpansOfTokens
    <3>2. PICK k \in 1 .. Len(x) : pos[k] = s[1]
      BY <1>7, <3>1
    <3>3. x[k] = NameAt(t, s)
      BY <1>7, <3>1, <3>2
    <3> QED
      BY <1>8, <3>3
  <2> QED
    BY <1>6, <2>1, <2>2 DEF ToSet
<1>10. ASSUME NEW i \in 1 .. Len(d) PROVE FirstAt(t, d[i]) = pos[at[i]]
  <2> DEFINE S == {s[1] : s \in {r \in Spans(t) : NameAt(t, r) = d[i]}}
             p == pos[at[i]]
  <2>1. at[i] \in 1 .. Len(x) /\ p \in 1 .. Len(t)
        /\ IsToken(t, p) /\ d[i] = NameFrom(t, p)
    BY <1>7, <1>8
  <2>2. p \in S
    <3>1. PICK s \in Spans(t) : s[1] = p /\ NameAt(t, s) = NameFrom(t, p)
      BY <2>1, SpansOfTokens
    <3> QED
      BY <2>1, <3>1
  <2>3. ASSUME NEW y \in S PROVE y \in 1 .. Len(t) /\ p <= y
    <3>1. PICK s \in Spans(t) : NameAt(t, s) = d[i] /\ y = s[1]
      OBVIOUS
    <3>2. y \in 1 .. Len(t) /\ IsToken(t, y) /\ d[i] = NameFrom(t, y)
      BY <3>1, SpansOfTokens
    <3>3. PICK k \in 1 .. Len(x) : pos[k] = y
      BY <1>7, <3>2
    <3>4. x[k] = d[i]
      BY <1>7, <3>2, <3>3
    <3>5. at[i] <= k
      BY <1>8, <3>4
    <3>6. CASE at[i] = k
      BY <1>0, <2>1, <3>3, <3>6
    <3>7. CASE at[i] < k
      <4>1. p < y
        BY <1>7, <2>1, <3>3, <3>7
      <4> QED
        BY <1>0, <2>1, <3>2, <4>1
    <3>8. at[i] = k \/ at[i] < k
      BY <1>6, <2>1, <3>5
    <3> QED
      BY <3>2, <3>6, <3>7, <3>8
  <2>4. FirstAt(t, d[i]) = Min(S)
    BY DEF FirstAt
  <2> HIDE DEF S, p
  <2>5. Min(S) \in S /\ \A y \in S : Min(S) <= y
    BY <2>2, <2>3 DEF Min
  <2>6. Min(S) <= p /\ p <= Min(S) /\ Min(S) \in 1 .. Len(t) /\ p \in 1 .. Len(t)
    BY <2>1, <2>2, <2>3, <2>5
  <2>7. Min(S) = p
    BY <1>0, <2>6
  <2> QED
    BY <2>4, <2>7 DEF p
<1>11. ASSUME NEW i \in 1 .. Len(d), NEW j \in 1 .. Len(d), i < j
       PROVE  FirstAt(t, d[i]) < FirstAt(t, d[j])
  <2>1. at[i] \in 1 .. Len(x) /\ at[j] \in 1 .. Len(x) /\ at[i] < at[j]
    BY <1>8, <1>11
  <2>2. pos[at[i]] < pos[at[j]]
    BY <1>7, <2>1
  <2> QED
    BY <1>10, <2>2
<1> QED
  BY <1>6, <1>9, <1>11 DEF Parsed, d

(* A call of parse_placeholders that has returned is the call that was     *)
(* made.                                                                   *)
Scanned ==
    fn = "parse_placeholders" =>
        /\ arg \in Texts
        /\ out # None => out = parse_placeholders(arg)

LEMMA ScannedStep == Scanned /\ [Next]_vars => Scanned'
<1> SUFFICES ASSUME Scanned, [Next]_vars PROVE Scanned'
  OBVIOUS
<1>1. CASE ParsePlaceholders
  BY <1>1 DEF ParsePlaceholders, Called, Scanned
<1>2. CASE ScrubResponse \/ Substitute \/ SubstituteTemplate \/ ParseAmount
  <2>1. fn' = fn /\ fn # "parse_placeholders"
    BY <1>2 DEF ScrubResponse, Substitute, SubstituteTemplate, ParseAmount,
                Called
  <2> QED
    BY <2>1 DEF Scanned
<1>3. CASE UNCHANGED vars
  BY <1>3 DEF Scanned, vars
<1> QED
  BY <1>1, <1>2, <1>3 DEF Next

(* parse_placeholders finds, in every text of any length, every            *)
(* placeholder and nothing else, each name once and in the order of the    *)
(* first occurrences.                                                      *)
THEOREM PlaceholdersFound == Spec => []FindsEveryPlaceholder
<1>1. Init => Scanned
  BY DEF Init, Scanned
<1>2. Scanned /\ [Next]_vars => Scanned'
  BY ScannedStep
<1>3. Scanned => FindsEveryPlaceholder
  <2> SUFFICES ASSUME Scanned, Returned("parse_placeholders")
               PROVE  /\ ToSet(out) = {NameAt(arg, s) : s \in Spans(arg)}
                      /\ \A i, j \in DOMAIN out :
                            i < j => FirstAt(arg, out[i]) < FirstAt(arg, out[j])
    BY DEF FindsEveryPlaceholder
  <2>1. arg \in Texts /\ out = parse_placeholders(arg)
    BY DEF Scanned, Returned
  <2>2. arg \in Seq(STRING)
    BY <2>1, TextAssumption
  <2>3. Parsed(arg)
    BY <2>2, ParseFinds
  <2> QED
    BY <2>1, <2>3 DEF Parsed
<1> QED
  BY <1>1, <1>2, <1>3, PTL DEF Spec

(* Scrubbing: `to` is the marker.  A stretch of the result without         *)
(* brackets is one of the letters of a marker, or comes from a stretch of  *)
(* the text, and one that does not begin with what was replaced.           *)
IsBracket(b) == b \in {"[", "]"}

LEMMA PairOf ==
  ASSUME NEW S, NEW a \in S, NEW b \in S
  PROVE  /\ <<a, b>> \in Seq(S) /\ Len(<<a, b>>) = 2
         /\ <<a, b>>[1] = a /\ <<a, b>>[2] = b
OBVIOUS

LEMMA TenOf ==
  ASSUME NEW S, NEW a \in S, NEW b \in S, NEW c \in S, NEW d \in S,
         NEW e \in S, NEW f \in S, NEW g \in S, NEW h \in S, NEW i \in S,
         NEW j \in S
  PROVE  LET x == <<a, b, c, d, e, f, g, h, i, j>>
         IN  x \in Seq(S) /\ Len(x) = 10 /\ x[1] = a /\ x[10] = j
OBVIOUS

LEMMA MarkerType ==
  /\ Marker \in Seq(Byte) /\ Len(Marker) = 10
  /\ IsBracket(Marker[1]) /\ IsBracket(Marker[10])
<1> DEFINE o == "["
           r == "R"
           e == "E"
           d == "D"
           a == "A"
           c == "C"
           t == "T"
           z == "]"
<1>1. /\ o \in Byte /\ r \in Byte /\ e \in Byte /\ d \in Byte
      /\ a \in Byte /\ c \in Byte /\ t \in Byte /\ z \in Byte
  BY Zenon DEF Byte
<1>2. Marker = <<o, r, e, d, a, c, t, e, d, z>>
  BY DEF Marker
<1>3. IsBracket(o) /\ IsBracket(z)
  BY DEF IsBracket
<1> HIDE DEF o, r, e, d, a, c, t, z
<1>4. /\ Marker \in Seq(Byte) /\ Len(Marker) = 10
      /\ Marker[1] = o /\ Marker[10] = z
  BY <1>1, <1>2, TenOf
<1> QED
  BY <1>3, <1>4

(* The n + 1 bytes of x from position p on stand in the marker.            *)
InMarker(x, p, n) ==
    \E k \in 1 .. 10 : k + n <= 10 /\ \A j \in 0 .. n : x[p + j] = Marker[k + j]

(* They stand in t, from position i on, and not where `from` does.         *)
InText(x, t, from, i, p, n) ==
    \E o \in i .. Len(t) :
        /\ o + n <= Len(t)
        /\ ~StandsAt(from, t, o)
        /\ p = 1 => o = i
        /\ \A j \in 0 .. n : x[p + j] = t[o + j]

Traces(x, t, from, i) ==
    \A p \in 1 .. Len(x), n \in Nat :
        p + n <= Len(x) /\ (\A j \in 0 .. n : ~IsBracket(x[p + j])) =>
            InText(x, t, from, i, p, n) \/ (p # 1 /\ InMarker(x, p, n))

(* The same bytes stand in x from p on and in y from r on.                 *)
SameRun(x, p, y, r, n) == \A j \in 0 .. n : x[p + j] = y[r + j]

(* What stands behind w in x stands in y, which is x without w.            *)
LEMMA InMarkerBehind ==
  ASSUME NEW x, NEW y, NEW p, NEW r, NEW n \in Nat, InMarker(y, r, n),
         SameRun(x, p, y, r, n)
  PROVE  InMarker(x, p, n)
BY DEF InMarker, SameRun

LEMMA InTextBehind ==
  ASSUME NEW x, NEW y, NEW t, NEW from, NEW i \in Nat, NEW k \in Nat, k > i,
         Len(t) \in Nat, NEW p \in Nat, p # 1, NEW r, NEW n \in Nat,
         InText(y, t, from, k, r, n), SameRun(x, p, y, r, n)
  PROVE  InText(x, t, from, i, p, n)
<1>1. PICK o \in k .. Len(t) :
         /\ o + n <= Len(t)
         /\ ~StandsAt(from, t, o)
         /\ \A j \in 0 .. n : y[r + j] = t[o + j]
  BY DEF InText
<1>2. o \in i .. Len(t)
  BY <1>1
<1> QED
  BY <1>1, <1>2 DEF InText, SameRun

(* Putting the marker in front of a text keeps its traces.                 *)
LEMMA TracesMarker ==
  ASSUME NEW t \in Seq(Byte), NEW from, NEW i \in Nat, NEW k \in Nat, k > i,
         NEW y \in Seq(Byte), Traces(y, t, from, k)
  PROVE  Traces(Marker \o y, t, from, i)
<1> DEFINE x == Marker \o y
<1>0. Len(y) \in Nat /\ Len(t) \in Nat
  BY LenProperties
<1>1. Len(x) = 10 + Len(y) /\ \A j \in 1 .. 10 + Len(y) :
         x[j] = IF j <= 10 THEN Marker[j] ELSE y[j - 10]
  <2>1. Marker \in Seq(Byte) /\ Len(Marker) = 10
    BY MarkerType
  <2>2. /\ Len(Marker \o y) = Len(Marker) + Len(y)
        /\ \A j \in 1 .. Len(Marker) + Len(y) :
              (Marker \o y)[j] = IF j <= Len(Marker) THEN Marker[j]
                                 ELSE y[j - Len(Marker)]
    BY <2>1, ConcatProperties
  <2> QED
    BY <2>1, <2>2
<1> HIDE DEF x
<1> SUFFICES ASSUME NEW p \in 1 .. Len(x), NEW n \in Nat, p + n <= Len(x),
                    \A j \in 0 .. n : ~IsBracket(x[p + j])
             PROVE  InText(x, t, from, i, p, n)
                      \/ (p # 1 /\ InMarker(x, p, n))
  BY DEF Traces, x
<1>2. CASE p > 10
  <2> DEFINE r == p - 10
  <2>1. r \in 1 .. Len(y) /\ r + n <= Len(y) /\ p \in Nat /\ p # 1
    BY <1>0, <1>1, <1>2
  <2>2. SameRun(x, p, y, r, n)
    <3> SUFFICES ASSUME NEW j \in 0 .. n PROVE x[p + j] = y[r + j]
      BY DEF SameRun
    <3>1. p \in Int /\ p > 10 /\ j \in Int /\ j >= 0
          /\ p + j <= 10 + Len(y)
      BY <1>0, <1>1, <1>2
    <3>2. p + j \in 1 .. 10 + Len(y) /\ ~(p + j <= 10) /\ (p + j) - 10 = r + j
      BY <1>0, <3>1
    <3> QED
      BY <1>1, <3>2
  <2> HIDE DEF r
  <2>3. \A j \in 0 .. n : ~IsBracket(y[r + j])
    BY <2>2 DEF SameRun
  <2>4. InText(y, t, from, k, r, n) \/ InMarker(y, r, n)
    BY <2>1, <2>3 DEF Traces
  <2>5. CASE InText(y, t, from, k, r, n)
    BY <1>0, <2>1, <2>2, <2>5, InTextBehind
  <2>6. CASE InMarker(y, r, n)
    BY <2>1, <2>2, <2>6, InMarkerBehind
  <2> QED
    BY <2>4, <2>5, <2>6
<1>3. CASE p <= 10
  <2>1. p # 1
    <3>1. 0 \in 0 .. n /\ p + 0 = p /\ 1 \in 1 .. 10 + Len(y) /\ 1 <= 10
      BY <1>0, <1>1
    <3>2. x[1] = Marker[1] /\ ~IsBracket(x[p])
      BY <1>1, <3>1
    <3> QED
      BY <3>2, MarkerType
  <2>2. p + n < 10
    <3> DEFINE j == 10 - p
    <3> SUFFICES ASSUME p + n >= 10 PROVE FALSE
      BY <1>0, <1>1
    <3>1. j \in 0 .. n /\ p + j = 10 /\ 10 \in 1 .. 10 + Len(y) /\ 10 <= 10
      BY <1>0, <1>1, <1>3
    <3> HIDE DEF j
    <3>2. x[10] = Marker[10] /\ ~IsBracket(x[10])
      BY <1>1, <3>1
    <3> QED
      BY <3>2, MarkerType
  <2>3. \A j \in 0 .. n : x[p + j] = Marker[p + j]
    <3> SUFFICES ASSUME NEW j \in 0 .. n PROVE x[p + j] = Marker[p + j]
      OBVIOUS
    <3>1. p + j \in 1 .. 10 + Len(y) /\ p + j <= 10
      BY <1>0, <1>1, <2>2
    <3> QED
      BY <1>1, <3>1
  <2>4. p \in 1 .. 10 /\ p + n <= 10
    BY <1>0, <1>1, <1>3, <2>2
  <2> QED
    BY <2>1, <2>3, <2>4 DEF InMarker
<1> QED
  BY <1>0, <1>1, <1>2, <1>3

(* So does the byte of the text that stands before them.                   *)
LEMMA TracesByte ==
  ASSUME NEW t \in Seq(Byte), NEW from, NEW i \in 1 .. Len(t),
         ~StandsAt(from, t, i), NEW y \in Seq(Byte), Traces(y, t, from, i + 1)
  PROVE  Traces(<<t[i]>> \o y, t, from, i)
<1> DEFINE x == <<t[i]>> \o y
<1>0. Len(y) \in Nat /\ Len(t) \in Nat /\ t[i] \in Byte
  BY LenProperties, ElementOfSeq
<1>1. Len(x) = 1 + Len(y) /\ \A j \in 1 .. 1 + Len(y) :
         x[j] = IF j <= 1 THEN t[i] ELSE y[j - 1]
  BY <1>0, ConsProperties
<1> HIDE DEF x
<1> SUFFICES ASSUME NEW p \in 1 .. Len(x), NEW n \in Nat, p + n <= Len(x),
                    \A j \in 0 .. n : ~IsBracket(x[p + j])
             PROVE  InText(x, t, from, i, p, n)
                      \/ (p # 1 /\ InMarker(x, p, n))
  BY DEF Traces, x
<1>2. CASE p > 1
  <2> DEFINE r == p - 1
  <2>1. r \in 1 .. Len(y) /\ r + n <= Len(y)
    BY <1>0, <1>1, <1>2
  <2>2. SameRun(x, p, y, r, n)
    <3> SUFFICES ASSUME NEW j \in 0 .. n PROVE x[p + j] = y[r + j]
      BY DEF SameRun
    <3>1. p \in Int /\ p > 1 /\ j \in Int /\ j >= 0
          /\ p + j <= 1 + Len(y)
      BY <1>0, <1>1, <1>2
    <3>2. p + j \in 1 .. 1 + Len(y) /\ ~(p + j <= 1) /\ (p + j) - 1 = r + j
      BY <1>0, <3>1
    <3> QED
      BY <1>1, <3>2
  <2> HIDE DEF r
  <2>3. \A j \in 0 .. n : ~IsBracket(y[r + j])
    BY <2>2 DEF SameRun
  <2>4. InText(y, t, from, i + 1, r, n) \/ InMarker(y, r, n)
    BY <2>1, <2>3 DEF Traces
  <2> DEFINE k == i + 1
  <2>5. /\ p \in Nat /\ p # 1 /\ i \in Nat /\ k \in Nat /\ k > i
        /\ InText(y, t, from, k, r, n) \/ InMarker(y, r, n)
    BY <1>0, <1>2, <2>4
  <2> HIDE DEF k
  <2>6. CASE InText(y, t, from, k, r, n)
    BY <1>0, <2>2, <2>5, <2>6, InTextBehind
  <2>7. CASE InMarker(y, r, n)
    BY <2>2, <2>5, <2>7, InMarkerBehind
  <2> QED
    BY <2>5, <2>6, <2>7
<1>3. CASE p = 1 /\ n = 0
  <2>1. \A j \in 0 .. n : x[p + j] = t[i + j]
    BY <1>0, <1>1, <1>3
  <2>2. i \in i .. Len(t) /\ i + n <= Len(t)
    BY <1>0, <1>3
  <2> QED
    BY <1>3, <2>1, <2>2 DEF InText
<1>4. CASE p = 1 /\ n > 0
  <2> DEFINE m == n - 1
             e == i + 1
  <2>1. 1 \in 1 .. Len(y) /\ m \in Nat /\ 1 + m <= Len(y)
    BY <1>0, <1>1, <1>4
  <2>2. \A j \in 0 .. m : x[2 + j] = y[1 + j]
    <3> SUFFICES ASSUME NEW j \in 0 .. m PROVE x[2 + j] = y[1 + j]
      OBVIOUS
    <3>1. 2 + j \in 1 .. 1 + Len(y) /\ ~(2 + j <= 1) /\ (2 + j) - 1 = 1 + j
      BY <1>0, <2>1
    <3> QED
      BY <1>1, <3>1
  <2>3. \A j \in 0 .. m : ~IsBracket(y[1 + j])
    <3>1. \A j \in 0 .. m : j + 1 \in 0 .. n /\ p + (j + 1) = 2 + j
      BY <1>0, <1>1, <1>4
    <3> QED
      BY <2>2, <3>1
  <2>4. e + m <= Len(t) /\ \A j \in 0 .. m : y[1 + j] = t[e + j]
    <3> HIDE DEF m, e
    <3>1. Traces(y, t, from, e)
      BY DEF e
    <3>2. \E o \in e .. Len(t) :
             /\ o + m <= Len(t)
             /\ o = e
             /\ \A j \in 0 .. m : y[1 + j] = t[o + j]
      BY <2>1, <2>3, <3>1 DEF Traces, InText
    <3> QED
      BY <3>2
  <2>5. \A j \in 0 .. n : x[p + j] = t[i + j]
    <3> SUFFICES ASSUME NEW j \in 0 .. n PROVE x[p + j] = t[i + j]
      OBVIOUS
    <3>1. CASE j = 0
      BY <1>0, <1>1, <1>4, <3>1
    <3>2. CASE j # 0
      <4>1. j - 1 \in 0 .. m /\ 2 + (j - 1) = p + j /\ e + (j - 1) = i + j
        BY <1>0, <1>1, <1>4, <3>2
      <4>2. x[2 + (j - 1)] = t[e + (j - 1)]
        BY <2>2, <2>4, <4>1
      <4> QED
        BY <4>1, <4>2
    <3> QED
      BY <3>1, <3>2
  <2>6. i \in i .. Len(t) /\ i + n <= Len(t)
    BY <1>0, <1>1, <1>4, <2>4
  <2> QED
    BY <1>4, <2>5, <2>6 DEF InText
<1> QED
  BY <1>0, <1>1, <1>2, <1>3, <1>4

(* What Replace with the marker makes of a text.                           *)
Clean(s) == s \in Seq(Byte) /\ ApartFromMarker(s)

LEMMA CleanBytes ==
  ASSUME NEW s, Clean(s)
  PROVE  \A j \in 1 .. Len(s) : ~IsBracket(s[j])
<1>1. DOMAIN s = 1 .. Len(s)
  BY LenProperties DEF Clean
<1> QED
  BY <1>1 DEF Clean, ApartFromMarker, IsBracket

(* What has no bracket in the result stands in the marker, or in the text  *)
(* and not where the needle does.                                          *)
LEMMA ReplaceTraces ==
  ASSUME NEW t \in Seq(Byte), NEW from \in Seq(Byte), from # <<>>
  PROVE  /\ Replace(t, from, Marker) \in Seq(Byte)
         /\ Traces(Replace(t, from, Marker), t, from, 1)
<1>0. Len(t) \in Nat /\ Len(from) \in Nat \ {0}
  BY LenProperties, EmptySeq
<1>a. Unfolds(Byte, t, from, Marker)
  BY MarkerType, ReplaceUnfolds
<1>1. PICK r \in [1 .. Len(t) + 1 -> Seq(Byte)] :
         /\ \A i \in 1 .. Len(t) + 1 : r[i] = Unfolded(r, t, from, Marker, i)
         /\ Replace(t, from, Marker) = r[1]
  BY <1>a DEF Unfolds
<1> DEFINE K == {k \in Nat : \A i \in 1 .. Len(t) + 1 :
                    i >= Len(t) + 1 - k => Traces(r[i], t, from, i)}
<1>2. 0 \in K
  <2> SUFFICES ASSUME NEW i \in 1 .. Len(t) + 1, i >= Len(t) + 1 - 0
               PROVE  Traces(r[i], t, from, i)
    OBVIOUS
  <2>1. i > Len(t)
    BY <1>0
  <2>2. r[i] = <<>>
    BY <1>1, <2>1 DEF Unfolded
  <2>3. Len(r[i]) = 0
    BY <2>2
  <2>4. 1 .. Len(r[i]) = {}
    BY <2>3
  <2> QED
    BY <2>4 DEF Traces
<1>3. ASSUME NEW k \in Nat, k \in K PROVE k + 1 \in K
  <2> SUFFICES ASSUME NEW i \in 1 .. Len(t) + 1, i >= Len(t) + 1 - (k + 1)
               PROVE  Traces(r[i], t, from, i)
    OBVIOUS
  <2>1. CASE i > Len(t)
    <3>1. i >= Len(t) + 1 - k
      BY <1>0, <2>1
    <3> QED
      BY <1>3, <3>1
  <2>2. CASE i <= Len(t) /\ StandsAt(from, t, i)
    <3> DEFINE e == i + Len(from)
    <3>1. e \in 1 .. Len(t) + 1 /\ e >= Len(t) + 1 - k /\ e \in Nat /\ i \in Nat
          /\ e > i
      BY <1>0, <2>2 DEF StandsAt
    <3>a. r[i] = Unfolded(r, t, from, Marker, i) /\ ~(i > Len(t))
      BY <1>0, <1>1, <2>2
    <3>2. r[i] = Marker \o r[e]
      BY <2>2, <3>a DEF Unfolded
    <3> HIDE DEF e
    <3>3. r[e] \in Seq(Byte) /\ Traces(r[e], t, from, e)
      BY <1>3, <3>1
    <3> QED
      BY <3>1, <3>2, <3>3, TracesMarker
  <2>3. CASE i <= Len(t) /\ ~StandsAt(from, t, i)
    <3>1. i + 1 \in 1 .. Len(t) + 1 /\ i + 1 >= Len(t) + 1 - k /\ i \in 1 .. Len(t)
      BY <1>0, <2>3
    <3>2. r[i] = <<t[i]>> \o r[i + 1]
      BY <1>0, <1>1, <2>3 DEF Unfolded
    <3>3. r[i + 1] \in Seq(Byte) /\ Traces(r[i + 1], t, from, i + 1)
      BY <1>3, <3>1
    <3> QED
      BY <2>3, <3>1, <3>2, <3>3, TracesByte
  <2> QED
    BY <1>0, <2>1, <2>2, <2>3
<1> HIDE DEF K
<1>4. Len(t) \in K
  BY <1>0, <1>2, <1>3, InductionOnNat
<1>5. 1 \in 1 .. Len(t) + 1 /\ 1 >= Len(t) + 1 - Len(t)
  BY <1>0
<1> QED
  BY <1>1, <1>4, <1>5 DEF K

(* A text in which `from` does not occur is left as it is.                 *)
LEMMA ReplaceNothing ==
  ASSUME NEW t \in Seq(Byte), NEW from \in Seq(Byte), from # <<>>,
         NEW to \in Seq(Byte), ~Occurs(from, t)
  PROVE  Replace(t, from, to) = t
<1>0. Len(t) \in Nat /\ Len(from) \in Nat \ {0}
  BY LenProperties, EmptySeq
<1>a. Unfolds(Byte, t, from, to)
  BY ReplaceUnfolds
<1>1. PICK r \in [1 .. Len(t) + 1 -> Seq(Byte)] :
         /\ \A i \in 1 .. Len(t) + 1 : r[i] = Unfolded(r, t, from, to, i)
         /\ Replace(t, from, to) = r[1]
  BY <1>a DEF Unfolds
<1> DEFINE Same(i) == /\ Len(r[i]) = Len(t) + 1 - i
                      /\ \A j \in 1 .. Len(r[i]) : r[i][j] = t[i + j - 1]
           K == {k \in Nat : \A i \in 1 .. Len(t) + 1 :
                    i >= Len(t) + 1 - k => Same(i)}
<1>2. 0 \in K
  <2> SUFFICES ASSUME NEW i \in 1 .. Len(t) + 1, i >= Len(t) + 1 - 0
               PROVE  Same(i)
    OBVIOUS
  <2>1. i > Len(t) /\ i = Len(t) + 1
    BY <1>0
  <2>2. r[i] = <<>>
    BY <1>1, <2>1 DEF Unfolded
  <2>3. Len(r[i]) = 0
    BY <2>2
  <2> QED
    BY <1>0, <2>1, <2>3
<1>3. ASSUME NEW k \in Nat, k \in K PROVE k + 1 \in K
  <2> SUFFICES ASSUME NEW i \in 1 .. Len(t) + 1, i >= Len(t) + 1 - (k + 1)
               PROVE  Same(i)
    OBVIOUS
  <2>1. CASE i > Len(t)
    <3>1. i >= Len(t) + 1 - k
      BY <1>0, <2>1
    <3> QED
      BY <1>3, <3>1
  <2>2. CASE i <= Len(t)
    <3> DEFINE e == i + 1
               y == r[e]
    <3>1. e \in 1 .. Len(t) + 1 /\ e >= Len(t) + 1 - k /\ i \in 1 .. Len(t)
      BY <1>0, <2>2
    <3>2. ~StandsAt(from, t, i)
      BY <3>1 DEF Occurs
    <3>3. r[i] = <<t[i]>> \o y
      BY <1>0, <1>1, <2>2, <3>2 DEF Unfolded
    <3>4. y \in Seq(Byte) /\ t[i] \in Byte
      BY <1>1, <3>1, ElementOfSeq
    <3>5. Len(y) = Len(t) + 1 - e /\ \A j \in 1 .. Len(y) : y[j] = t[e + j - 1]
      BY <1>3, <3>1
    <3> HIDE DEF y
    <3>6. Len(r[i]) = 1 + Len(y) /\ \A j \in 1 .. 1 + Len(y) :
             r[i][j] = IF j <= 1 THEN t[i] ELSE y[j - 1]
      BY <3>3, <3>4, ConsProperties
    <3>7. Len(y) \in Nat
      BY <3>4, LenProperties
    <3>8. ASSUME NEW j \in 1 .. Len(r[i]) PROVE r[i][j] = t[i + j - 1]
      <4>1. CASE j = 1
        BY <1>0, <3>6, <3>7, <4>1
      <4>2. CASE j # 1
        <5>1. j - 1 \in 1 .. Len(y) /\ ~(j <= 1) /\ e + (j - 1) - 1 = i + j - 1
          BY <1>0, <3>6, <3>7, <4>2
        <5> QED
          BY <3>5, <3>6, <5>1
      <4> QED
        BY <4>1, <4>2
    <3> QED
      BY <1>0, <3>5, <3>6, <3>8
  <2> QED
    BY <1>0, <2>1, <2>2
<1> HIDE DEF K
<1>4. Len(t) \in K
  BY <1>0, <1>2, <1>3, InductionOnNat
<1>5. 1 \in 1 .. Len(t) + 1 /\ 1 >= Len(t) + 1 - Len(t)
  BY <1>0
<1>6. Len(r[1]) = Len(t) + 1 - 1 /\ \A j \in 1 .. Len(r[1]) : r[1][j] = t[1 + j - 1]
  BY <1>4, <1>5 DEF K
<1>7. r[1] \in Seq(Byte)
  BY <1>1, <1>5
<1>8. Len(r[1]) = Len(t) /\ \A j \in 1 .. Len(t) : r[1][j] = t[j]
  BY <1>0, <1>6
<1>9. r[1] = t
  BY <1>7, <1>8, SeqEqual
<1> QED
  BY <1>1, <1>9

(* Where a clean text stands in the result, it stood in the text.          *)
LEMMA TracedBack ==
  ASSUME NEW x \in Seq(Byte), NEW t \in Seq(Byte), NEW from,
         Traces(x, t, from, 1), NEW s, Clean(s), Occurs(s, x)
  PROVE  \E o \in 1 .. Len(t) : StandsAt(s, t, o) /\ ~StandsAt(from, t, o)
<1>0. Len(x) \in Nat /\ Len(t) \in Nat /\ s \in Seq(Byte) /\ Len(s) \in Nat \ {0}
  BY LenProperties, EmptySeq DEF Clean, ApartFromMarker
<1>1. PICK p \in 1 .. Len(x) : StandsAt(s, x, p)
  BY DEF Occurs
<1> DEFINE n == Len(s) - 1
<1>2. p \in Nat \ {0} /\ n \in Nat
  BY <1>0
<1>3. p + Len(s) - 1 <= Len(x) /\ \A j \in 1 .. Len(s) : x[p + j - 1] = s[j]
  BY <1>0, <1>1, <1>2, StandsBytewise
<1>4. p + n <= Len(x)
  BY <1>0, <1>3
<1>5. \A j \in 0 .. n : j + 1 \in 1 .. Len(s) /\ x[p + j] = s[j + 1]
  <2> SUFFICES ASSUME NEW j \in 0 .. n
               PROVE  j + 1 \in 1 .. Len(s) /\ x[p + j] = s[j + 1]
    OBVIOUS
  <2>1. j + 1 \in 1 .. Len(s) /\ p + (j + 1) - 1 = p + j
    BY <1>0
  <2> QED
    BY <1>3, <2>1
<1>6. \A j \in 0 .. n : ~IsBracket(x[p + j])
  BY <1>5, CleanBytes
<1>a. ~InMarker(x, p, n)
  <2> SUFFICES ASSUME NEW k \in 1 .. 10, k + n <= 10,
                      \A j \in 0 .. n : x[p + j] = Marker[k + j]
               PROVE  FALSE
    BY DEF InMarker
  <2>1. ASSUME NEW j \in 1 .. Len(s) PROVE Marker[k + j - 1] = s[j]
    <3>1. j - 1 \in 0 .. n /\ k + (j - 1) = k + j - 1 /\ (j - 1) + 1 = j
      BY <1>0
    <3> QED
      BY <1>5, <3>1
  <2>2. k \in Nat \ {0} /\ k + Len(s) - 1 <= 10
    BY <1>0
  <2>3. StandsAt(s, Marker, k)
    BY <1>0, <2>1, <2>2, MarkerType, StandsBytewise
  <2> QED
    BY <2>3, MarkerType DEF Occurs, Clean, ApartFromMarker
<1> HIDE DEF n
<1>7. PICK o \in 1 .. Len(t) : /\ o + n <= Len(t)
                               /\ ~StandsAt(from, t, o)
                               /\ \A j \in 0 .. n : x[p + j] = t[o + j]
  BY <1>2, <1>4, <1>6, <1>a DEF Traces, InText
<1>8. o \in Nat \ {0} /\ o + Len(s) - 1 <= Len(t)
  BY <1>0, <1>7 DEF n
<1>9. ASSUME NEW j \in 1 .. Len(s) PROVE t[o + j - 1] = s[j]
  <2>1. j - 1 \in 0 .. n /\ o + (j - 1) = o + j - 1 /\ (j - 1) + 1 = j
    BY <1>0 DEF n
  <2> QED
    BY <1>5, <1>7, <2>1
<1>10. StandsAt(s, t, o)
  BY <1>0, <1>8, <1>9, StandsBytewise
<1> QED
  BY <1>7, <1>10

(* str::replace with the marker: `from` is gone, and nothing clean is      *)
(* there that was not there before.                                        *)
LEMMA ReplaceFacts ==
  ASSUME NEW t \in Seq(Byte), NEW from, Clean(from)
  PROVE  /\ Replace(t, from, Marker) \in Seq(Byte)
         /\ ~Occurs(from, Replace(t, from, Marker))
         /\ \A s : Clean(s) /\ ~Occurs(s, t) =>
                      ~Occurs(s, Replace(t, from, Marker))
         /\ ~Occurs(from, t) => Replace(t, from, Marker) = t
<1> DEFINE x == Replace(t, from, Marker)
<1>0. from \in Seq(Byte) /\ from # <<>>
  BY DEF Clean, ApartFromMarker
<1>1. x \in Seq(Byte) /\ Traces(x, t, from, 1)
  BY <1>0, ReplaceTraces
<1>2. ~Occurs(from, t) => x = t
  BY <1>0, MarkerType, ReplaceNothing
<1> HIDE DEF x
<1>3. ~Occurs(from, x)
  BY <1>1, TracedBack
<1>4. \A s : Clean(s) /\ ~Occurs(s, t) => ~Occurs(s, x)
  BY <1>1, TracedBack DEF Occurs
<1> QED
  BY <1>1, <1>2, <1>3, <1>4 DEF x

-----------------------------------------------------------------------------
(* What ScrubValue must remove because of one value.                       *)
Removed(v) == {v} \cup (IF Long(v) THEN {Prefix(v), Suffix(v)} ELSE {})

AllClean(v) == \A f \in Removed(v) : Clean(f)

(* The ends of a long value.                                               *)
LEMMA EndsType ==
  ASSUME NEW v \in Seq(Byte), Long(v)
  PROVE  Prefix(v) \in Seq(Byte) /\ Suffix(v) \in Seq(Byte)
<1>0. Len(v) \in Nat /\ PART \in Nat \ {0} /\ Len(v) >= 2 * PART
  BY LenProperties, PartAssumption DEF Long
<1>1. ASSUME NEW a \in 1 .. Len(v), NEW b \in 1 .. Len(v)
      PROVE  SubSeq(v, a, b) \in Seq(Byte)
  <2>1. \A j \in a .. b : v[j] \in Byte
    BY <1>0, ElementOfSeq
  <2> QED
    BY <1>0, <2>1
<1>2. 1 \in 1 .. Len(v) /\ PART \in 1 .. Len(v)
  BY <1>0
<1>3. Len(v) - PART + 1 \in 1 .. Len(v) /\ Len(v) \in 1 .. Len(v)
  BY <1>0
<1> QED
  BY <1>1, <1>2, <1>3 DEF Prefix, Suffix

(* One value scrubbed: nothing of it is left, nothing else comes back.     *)
LEMMA ScrubValueFacts ==
  ASSUME NEW u \in Seq(Byte), NEW v, AllClean(v)
  PROVE  /\ ScrubValue(u, v) \in Seq(Byte)
         /\ \A f \in Removed(v) : ~Occurs(f, ScrubValue(u, v))
         /\ \A s : Clean(s) /\ ~Occurs(s, u) => ~Occurs(s, ScrubValue(u, v))
         /\ (\A f \in Removed(v) : ~Occurs(f, u)) => ScrubValue(u, v) = u
<1> DEFINE x == Replace(u, v, Marker)
           y == Replace(x, Prefix(v), Marker)
           z == Replace(y, Suffix(v), Marker)
<1>0. Clean(v)
  BY DEF AllClean, Removed
<1>1. /\ x \in Seq(Byte) /\ ~Occurs(v, x)
      /\ \A s : Clean(s) /\ ~Occurs(s, u) => ~Occurs(s, x)
      /\ ~Occurs(v, u) => x = u
  BY <1>0, ReplaceFacts
<1>2. CASE ~Long(v)
  <2>1. ScrubValue(u, v) = x /\ Removed(v) = {v}
    BY <1>2 DEF ScrubValue, Removed
  <2> QED
    BY <1>1, <2>1
<1>3. CASE Long(v)
  <2>0. Clean(Prefix(v)) /\ Clean(Suffix(v))
    BY <1>3 DEF AllClean, Removed
  <2>1. ScrubValue(u, v) = z /\ Removed(v) = {v, Prefix(v), Suffix(v)}
    BY <1>3 DEF ScrubValue, Removed
  <2> HIDE DEF x
  <2>2. /\ y \in Seq(Byte) /\ ~Occurs(Prefix(v), y)
        /\ \A s : Clean(s) /\ ~Occurs(s, x) => ~Occurs(s, y)
        /\ ~Occurs(Prefix(v), x) => y = x
    BY <1>1, <2>0, ReplaceFacts
  <2> HIDE DEF y
  <2>3. /\ z \in Seq(Byte) /\ ~Occurs(Suffix(v), z)
        /\ \A s : Clean(s) /\ ~Occurs(s, y) => ~Occurs(s, z)
        /\ ~Occurs(Suffix(v), y) => z = y
    BY <2>0, <2>2, ReplaceFacts
  <2> HIDE DEF z
  <2>4. ~Occurs(v, z) /\ ~Occurs(Prefix(v), z)
    BY <1>0, <1>1, <2>0, <2>2, <2>3
  <2> QED
    BY <1>1, <2>1, <2>2, <2>3, <2>4
<1> QED
  BY <1>2, <1>3

(* The fold of scrub_response, one value after the other.                  *)
ScrubFold(g, response, values) ==
    g = [s \in SUBSET DOMAIN values |->
            IF s = {} THEN response
            ELSE ScrubValue(g[s \ {Max(s)}], values[Max(s)])]

LEMMA FoldLeftIs ==
  ASSUME NEW response, NEW values
  PROVE  FoldLeft(ScrubValue, response, values) =
            (CHOOSE g : ScrubFold(g, response, values))[DOMAIN values]
BY DEF FoldLeft, MapThenFoldSet, ScrubFold

(* What has been scrubbed when the first k values are done.                *)
LEMMA ScrubSteps ==
  ASSUME NEW response \in Seq(Byte), NEW values \in Seq(Seq(Byte)),
         \A i \in 1 .. Len(values) : AllClean(values[i])
  PROVE  \E h : /\ h[0] = response
                /\ \A k \in 0 .. Len(values) - 1 :
                      h[k + 1] = ScrubValue(h[k], values[k + 1])
                /\ FoldLeft(ScrubValue, response, values) = h[Len(values)]
<1> DEFINE n == Len(values)
           V == Seq(Byte)
           step == [p \in V \X (1 .. n) |-> ScrubValue(p[1], values[p[2]])]
<1>0. n \in Nat /\ DOMAIN values = 1 .. n
  BY LenProperties
<1>1. step \in [V \X (1 .. n) -> V]
  BY ScrubValueFacts
<1>2. \A u \in V, i \in 1 .. n : step[<<u, i>>] = ScrubValue(u, values[i])
  OBVIOUS
<1> HIDE DEF step, V, n
<1>3. response \in V
  BY DEF V
<1>a. FoldDefined(response, step, V, n)
  BY <1>0, <1>1, <1>3, FoldExists
<1>4. PICK g \in [SUBSET (1 .. n) -> V] : \A s \in SUBSET (1 .. n) :
         g[s] = IF s = {} THEN response ELSE step[<<g[s \ {Max(s)}], Max(s)>>]
  BY <1>a DEF FoldDefined
<1>5. \A s \in SUBSET (1 .. n) :
         g[s] = IF s = {} THEN response
                ELSE ScrubValue(g[s \ {Max(s)}], values[Max(s)])
  <2> SUFFICES ASSUME NEW s \in SUBSET (1 .. n), s # {}
               PROVE  g[s] = ScrubValue(g[s \ {Max(s)}], values[Max(s)])
    BY <1>4
  <2>1. Max(s) \in 1 .. n
    BY <1>0, MaxOf
  <2>2. g[s \ {Max(s)}] \in V
    OBVIOUS
  <2> QED
    BY <1>2, <1>4, <2>1, <2>2
<1>6. ScrubFold(g, response, values)
  BY <1>0, <1>5 DEF ScrubFold
<1> DEFINE q == CHOOSE p : ScrubFold(p, response, values)
<1>7. ScrubFold(q, response, values)
  BY <1>6, Zenon
<1>8. FoldLeft(ScrubValue, response, values) = q[1 .. n]
  BY <1>0, FoldLeftIs
<1> HIDE DEF q
<1>9. \A s \in SUBSET (1 .. n) :
         q[s] = IF s = {} THEN response
                ELSE ScrubValue(q[s \ {Max(s)}], values[Max(s)])
  BY <1>0, <1>7 DEF ScrubFold
<1> DEFINE h == [k \in 0 .. n |-> q[1 .. k]]
<1>10. h[0] = response
  <2>1. 1 .. 0 = {} /\ 0 \in 0 .. n
    BY <1>0
  <2>2. q[{}] = response
    BY <1>9
  <2> QED
    BY <2>1, <2>2
<1>11. ASSUME NEW k \in 0 .. n - 1
       PROVE  h[k + 1] = ScrubValue(h[k], values[k + 1])
  <2>1. k \in 0 .. n /\ k + 1 \in 0 .. n /\ k + 1 \in Nat \ {0} /\ (k + 1) - 1 = k
        /\ 1 .. k + 1 \in SUBSET (1 .. n)
    BY <1>0
  <2> DEFINE m == k + 1
  <2> HIDE DEF m
  <2>2. Max(1 .. m) = m /\ (1 .. m) \ {m} = 1 .. k /\ 1 .. m # {}
    BY <2>1, MaxOfInterval DEF m
  <2>3. q[1 .. m] = ScrubValue(q[1 .. k], values[m])
    BY <1>9, <2>1, <2>2 DEF m
  <2> QED
    BY <2>1, <2>3 DEF m
<1>12. h[n] = q[1 .. n]
  BY <1>0
<1> HIDE DEF h
<1> QED
  BY <1>8, <1>10, <1>11, <1>12 DEF n

(* scrub_response without a panic, for values that are clean.              *)
LEMMA ScrubResponseFacts ==
  ASSUME NEW response \in Seq(Byte), NEW values \in Seq(Seq(Byte)),
         \A i \in 1 .. Len(values) : AllClean(values[i])
  PROVE  LET x == FoldLeft(ScrubValue, response, values)
         IN  /\ \A i \in 1 .. Len(values) : \A f \in Removed(values[i]) : ~Occurs(f, x)
             /\ (\A i \in 1 .. Len(values) :
                    \A f \in Removed(values[i]) : ~Occurs(f, response)) =>
                  x = response
<1> DEFINE n == Len(values)
<1>0. n \in Nat
  BY LenProperties
<1>1. PICK h : /\ h[0] = response
               /\ \A k \in 0 .. n - 1 : h[k + 1] = ScrubValue(h[k], values[k + 1])
               /\ FoldLeft(ScrubValue, response, values) = h[n]
  BY ScrubSteps
<1> DEFINE Absent == \A i \in 1 .. n : \A f \in Removed(values[i]) : ~Occurs(f, response)
           Done(k) == /\ h[k] \in Seq(Byte)
                      /\ \A i \in 1 .. k : \A f \in Removed(values[i]) : ~Occurs(f, h[k])
                      /\ Absent => h[k] = response
           A == {k \in Nat : k <= n => Done(k)}
<1> HIDE DEF n, Absent
<1>2. 0 \in A
  <2>1. 1 .. 0 = {}
    OBVIOUS
  <2> QED
    BY <1>1, <2>1
<1>3. ASSUME NEW k \in Nat, k \in A PROVE k + 1 \in A
  <2> SUFFICES ASSUME k + 1 <= n PROVE Done(k + 1)
    OBVIOUS
  <2> DEFINE u == h[k]
             v == values[k + 1]
             w == h[k + 1]
  <2>1. k <= n /\ k \in 0 .. n - 1 /\ k + 1 \in 1 .. n
    BY <1>0
  <2>2. /\ u \in Seq(Byte)
        /\ \A i \in 1 .. k : \A f \in Removed(values[i]) : ~Occurs(f, u)
        /\ Absent => u = response
    BY <1>3, <2>1
  <2>3. w = ScrubValue(u, v)
    BY <1>1, <2>1
  <2>4. AllClean(v)
    BY <2>1 DEF n
  <2>5. \A i \in 1 .. k : \A f \in Removed(values[i]) : Clean(f)
    <3>1. \A i \in 1 .. k : i \in 1 .. n
      BY <1>0, <2>1
    <3>2. \A i \in 1 .. k : AllClean(values[i])
      BY <3>1 DEF n
    <3> QED
      BY <3>2 DEF AllClean
  <2>6. Absent => \A f \in Removed(v) : ~Occurs(f, response)
    BY <2>1 DEF Absent
  <2> HIDE DEF u, v, w
  <2>7. /\ w \in Seq(Byte)
        /\ \A f \in Removed(v) : ~Occurs(f, w)
        /\ \A s : Clean(s) /\ ~Occurs(s, u) => ~Occurs(s, w)
        /\ (\A f \in Removed(v) : ~Occurs(f, u)) => w = u
    BY <2>2, <2>3, <2>4, ScrubValueFacts
  <2>8. ASSUME NEW i \in 1 .. k + 1, NEW f \in Removed(values[i])
        PROVE  ~Occurs(f, w)
    <3>1. CASE i = k + 1
      BY <2>7, <2>8, <3>1 DEF v
    <3>2. CASE i # k + 1
      <4>1. i \in 1 .. k
        BY <3>2
      <4> QED
        BY <2>2, <2>5, <2>7, <2>8, <4>1
    <3> QED
      BY <3>1, <3>2
  <2>9. Absent => w = response
    BY <2>2, <2>6, <2>7
  <2> QED
    BY <2>7, <2>8, <2>9 DEF w
<1> HIDE DEF A
<1>4. n \in A
  BY <1>0, <1>2, <1>3, InductionOnNat
<1>5. Done(n)
  BY <1>0, <1>4 DEF A
<1> QED
  BY <1>1, <1>5 DEF n, Absent

(* A sequence over a set is one over a larger set.                         *)
LEMMA SeqWider ==
  ASSUME NEW S, NEW T, S \subseteq T, NEW s \in Seq(S)
  PROVE  s \in Seq(T)
<1>1. Len(s) \in Nat /\ s \in [1 .. Len(s) -> S]
  BY LenProperties
<1>2. s \in [1 .. Len(s) -> T]
  BY <1>1
<1> QED
  BY <1>1, <1>2

(* A call of scrub_response that has returned is the call that was made.   *)
Scrubbed ==
    fn = "scrub_response" =>
        /\ arg \in Responses
        /\ out # None => out = scrub_response(arg.response, arg.values)

(* Scrubbed is an invariant.                                               *)
LEMMA ScrubbedInit == Init => Scrubbed
BY DEF Init, Scrubbed

LEMMA ScrubbedStep == Scrubbed /\ [Next]_vars => Scrubbed'
<1> SUFFICES ASSUME Scrubbed, [Next]_vars PROVE Scrubbed'
  OBVIOUS
<1>1. CASE ScrubResponse
  BY <1>1 DEF ScrubResponse, Called, Scrubbed
<1>2. CASE ParsePlaceholders \/ Substitute \/ SubstituteTemplate \/ ParseAmount
  <2>1. fn' = fn /\ fn # "scrub_response"
    BY <1>2 DEF ParsePlaceholders, Substitute, SubstituteTemplate, ParseAmount, Called
  <2> QED
    BY <2>1 DEF Scrubbed
<1>3. CASE UNCHANGED vars
  BY <1>3 DEF Scrubbed, vars
<1> QED
  BY <1>1, <1>2, <1>3 DEF Next

(* A scrubbed response does not leak.                                      *)
LEMMA ScrubbedClean == Scrubbed => NothingLeaks
<1> DEFINE response == arg.response
           values == arg.values
<1> SUFFICES ASSUME Scrubbed, Returned("scrub_response"), out # Panic,
                    \A f \in Forbidden(values) : ApartFromMarker(f)
             PROVE  /\ \A f \in Forbidden(values) : ~Occurs(f, out)
                    /\ (\A f \in Forbidden(values) : ~Occurs(f, response)) =>
                          out = response
  BY DEF NothingLeaks
<1>1. arg \in Responses /\ out = scrub_response(response, values)
  BY DEF Scrubbed, Returned
<1>2. response \in Seq(STRING) /\ values \in Seq(Seq(STRING))
  BY <1>1, ResponseAssumption
<1>3. out = FoldLeft(ScrubValue, response, values)
  BY <1>1 DEF scrub_response
<1> HIDE DEF response, values
<1>4. STRING \subseteq Byte
  BY DEF Byte
<1>5. response \in Seq(Byte) /\ \A s \in Seq(STRING) : s \in Seq(Byte)
  BY <1>2, <1>4, SeqWider
<1>6. Seq(STRING) \subseteq Seq(Byte)
  BY <1>5
<1>7. values \in Seq(Seq(Byte))
  BY <1>2, <1>6, SeqWider
<1>8. Len(values) \in Nat /\ DOMAIN values = 1 .. Len(values)
  BY <1>7, LenProperties
<1>9. \A f : f \in Forbidden(values)
               <=> \E i \in 1 .. Len(values) : f \in Removed(values[i])
  BY <1>8 DEF Forbidden, Removed, ToSet
<1>10. ASSUME NEW i \in 1 .. Len(values) PROVE AllClean(values[i])
  <2>1. values[i] \in Seq(Byte)
    BY <1>7, ElementOfSeq
  <2>2. \A f \in Removed(values[i]) : f \in Seq(Byte)
    BY <2>1, EndsType DEF Removed
  <2> QED
    BY <1>9, <2>2 DEF AllClean, Clean
<1>11. /\ \A i \in 1 .. Len(values) : \A f \in Removed(values[i]) : ~Occurs(f, out)
       /\ (\A i \in 1 .. Len(values) :
              \A f \in Removed(values[i]) : ~Occurs(f, response)) =>
            out = response
  BY <1>3, <1>5, <1>7, <1>10, ScrubResponseFacts
<1> QED
  BY <1>9, <1>11

(* scrub_response removes every injected value and both ends of each long  *)
(* one, and leaves a response without them alone: for every response, any  *)
(* number of values of any length, in every order, and every PART.         *)
THEOREM ScrubbingHolds == Spec => []NothingLeaks
<1>1. Init => Scrubbed
  BY ScrubbedInit
<1>2. Scrubbed /\ [Next]_vars => Scrubbed'
  BY ScrubbedStep
<1>3. Scrubbed => NothingLeaks
  BY ScrubbedClean
<1> QED
  BY <1>1, <1>2, <1>3, PTL DEF Spec

-----------------------------------------------------------------------------
(* Replacing in a text with something in front of it.                      *)

(* What stands at a position behind w stands there without w.              *)
LEMMA StandsBehind ==
  ASSUME NEW B, NEW w \in Seq(B), NEW y \in Seq(B), NEW from \in Seq(B),
         NEW i \in Nat \ {0}
  PROVE  StandsAt(from, w \o y, Len(w) + i) <=> StandsAt(from, y, i)
<1> DEFINE x == w \o y
           m == Len(w)
<1>0. m \in Nat /\ Len(y) \in Nat /\ Len(from) \in Nat
  BY LenProperties
<1>1. x \in Seq(B) /\ Len(x) = m + Len(y)
      /\ \A k \in 1 .. m + Len(y) : x[k] = IF k <= m THEN w[k] ELSE y[k - m]
  BY ConcatProperties
<1> HIDE DEF x, m
<1>2. StandsAt(from, x, m + i) <=>
         /\ (m + i) + Len(from) - 1 <= Len(x)
         /\ \A j \in 1 .. Len(from) : x[(m + i) + j - 1] = from[j]
  <2> DEFINE a == m + i
  <2>1. a \in Nat \ {0}
    BY <1>0
  <2> HIDE DEF a
  <2>2. StandsAt(from, x, a) <=>
           /\ a + Len(from) - 1 <= Len(x)
           /\ \A j \in 1 .. Len(from) : x[a + j - 1] = from[j]
    BY <1>1, <2>1, StandsBytewise
  <2> QED
    BY <2>2 DEF a
<1>3. StandsAt(from, y, i) <=>
         /\ i + Len(from) - 1 <= Len(y)
         /\ \A j \in 1 .. Len(from) : y[i + j - 1] = from[j]
  BY StandsBytewise
<1>4. (m + i) + Len(from) - 1 <= Len(x) <=> i + Len(from) - 1 <= Len(y)
  BY <1>0, <1>1
<1>5. i + Len(from) - 1 <= Len(y) =>
         \A j \in 1 .. Len(from) : x[(m + i) + j - 1] = y[i + j - 1]
  <2> SUFFICES ASSUME i + Len(from) - 1 <= Len(y), NEW j \in 1 .. Len(from)
               PROVE  x[(m + i) + j - 1] = y[i + j - 1]
    OBVIOUS
  <2>1. /\ (m + i) + j - 1 \in 1 .. m + Len(y) /\ ~((m + i) + j - 1 <= m)
        /\ ((m + i) + j - 1) - m = i + j - 1
    BY <1>0
  <2> QED
    BY <1>1, <2>1
<1> QED
  BY <1>2, <1>3, <1>4, <1>5 DEF x, m

(* Behind w, Replace does what it does without w.                          *)
Behind(r, w, y, from, to) ==
    r[Len(w) + 1] = Replace(y, from, to)

(* A solution for w and y in a row is, behind w, the result for y.         *)
LEMMA ReplaceBehind ==
  ASSUME NEW B, NEW w \in Seq(B), NEW y \in Seq(B), NEW from \in Seq(B),
         from # <<>>, NEW to \in Seq(B),
         NEW r, \A i \in 1 .. Len(w \o y) + 1 :
                   r[i] = Unfolded(r, w \o y, from, to, i)
  PROVE  Behind(r, w, y, from, to)
<1> DEFINE x == w \o y
           m == Len(w)
           n == Len(y)
<1>0. m \in Nat /\ n \in Nat /\ Len(from) \in Nat \ {0}
  BY LenProperties, EmptySeq
<1>1. x \in Seq(B) /\ Len(x) = m + n
      /\ \A k \in 1 .. m + n : x[k] = IF k <= m THEN w[k] ELSE y[k - m]
  BY ConcatProperties
<1>2. \A i \in Nat \ {0} : StandsAt(from, x, m + i) <=> StandsAt(from, y, i)
  BY StandsBehind
<1>a. Unfolds(B, y, from, to)
  BY ReplaceUnfolds
<1>3. PICK q \in [1 .. n + 1 -> Seq(B)] :
         /\ \A i \in 1 .. n + 1 : q[i] = Unfolded(q, y, from, to, i)
         /\ Replace(y, from, to) = q[1]
  BY <1>a DEF Unfolds
<1>4. \A i \in 1 .. Len(x) + 1 : r[i] = Unfolded(r, x, from, to, i)
  OBVIOUS
<1> HIDE DEF x, m, n
<1> DEFINE K == {k \in Nat : \A i \in 1 .. n + 1 :
                                i >= n + 1 - k => r[m + i] = q[i]}
<1>5. \A i \in 1 .. n + 1 :
         r[m + i] = IF i > n THEN <<>>
                    ELSE IF StandsAt(from, y, i) THEN to \o r[m + (i + Len(from))]
                    ELSE <<y[i]>> \o r[m + (i + 1)]
  <2> SUFFICES ASSUME NEW i \in 1 .. n + 1
               PROVE  r[m + i] = IF i > n THEN <<>>
                         ELSE IF StandsAt(from, y, i) THEN to \o r[m + (i + Len(from))]
                         ELSE <<y[i]>> \o r[m + (i + 1)]
    OBVIOUS
  <2> DEFINE a == m + i
  <2>1. /\ a \in 1 .. Len(x) + 1 /\ (a > Len(x) <=> i > n)
        /\ a + Len(from) = m + (i + Len(from)) /\ a + 1 = m + (i + 1)
        /\ i \in Nat \ {0}
    BY <1>0, <1>1
  <2>2. i <= n => x[a] = y[i]
    <3>1. i <= n => a \in 1 .. m + n /\ ~(a <= m) /\ a - m = i
      BY <1>0
    <3> QED
      BY <1>1, <3>1
  <2>3. StandsAt(from, x, a) <=> StandsAt(from, y, i)
    BY <1>2, <2>1
  <2> HIDE DEF a
  <2>4. r[a] = IF a > Len(x) THEN <<>>
               ELSE IF StandsAt(from, x, a) THEN to \o r[a + Len(from)]
               ELSE <<x[a]>> \o r[a + 1]
    BY <1>4, <2>1 DEF Unfolded
  <2>5. i > n \/ i <= n
    BY <1>0
  <2> QED
    BY <2>1, <2>2, <2>3, <2>4, <2>5 DEF a
<1>6. 0 \in K
  <2>1. \A i \in 1 .. n + 1 : i >= n + 1 - 0 => i > n
    BY <1>0
  <2> QED
    BY <1>3, <1>5, <2>1 DEF Unfolded, n
<1>7. ASSUME NEW k \in Nat, k \in K PROVE k + 1 \in K
  <2> SUFFICES ASSUME NEW i \in 1 .. n + 1, i >= n + 1 - (k + 1)
               PROVE  r[m + i] = q[i]
    OBVIOUS
  <2>1. i <= n => r[m + (i + 1)] = q[i + 1]
    <3>1. i <= n => i + 1 \in 1 .. n + 1 /\ i + 1 >= n + 1 - k
      BY <1>0
    <3> QED
      BY <1>7, <3>1
  <2>2. i <= n /\ StandsAt(from, y, i) => r[m + (i + Len(from))] = q[i + Len(from)]
    <3> SUFFICES ASSUME i <= n, StandsAt(from, y, i)
                 PROVE  r[m + (i + Len(from))] = q[i + Len(from)]
      OBVIOUS
    <3> DEFINE e == i + Len(from)
    <3>1. e \in 1 .. n + 1 /\ e >= n + 1 - k
      BY <1>0 DEF StandsAt, n
    <3> HIDE DEF e
    <3>2. r[m + e] = q[e]
      BY <1>7, <3>1
    <3> QED
      BY <3>2 DEF e
  <2>3. q[i] = IF i > n THEN <<>>
               ELSE IF StandsAt(from, y, i) THEN to \o q[i + Len(from)]
               ELSE <<y[i]>> \o q[i + 1]
    BY <1>3 DEF Unfolded, n
  <2>4. r[m + i] = IF i > n THEN <<>>
                   ELSE IF StandsAt(from, y, i) THEN to \o r[m + (i + Len(from))]
                   ELSE <<y[i]>> \o r[m + (i + 1)]
    BY <1>5
  <2>5. i > n \/ i <= n
    BY <1>0
  <2> QED
    BY <2>1, <2>2, <2>3, <2>4, <2>5
<1> HIDE DEF K
<1>8. n \in K
  BY <1>0, <1>6, <1>7, InductionOnNat
<1>9. 1 \in 1 .. n + 1 /\ 1 >= n + 1 - n
  BY <1>0
<1>10. r[m + 1] = q[1]
  BY <1>8, <1>9 DEF K
<1> QED
  BY <1>3, <1>10 DEF Behind, m

(* Where `from` begins nowhere in w, Replace leaves w alone.               *)
LEMMA ReplaceSkips ==
  ASSUME NEW B, NEW w \in Seq(B), NEW y \in Seq(B), NEW from \in Seq(B),
         from # <<>>, NEW to \in Seq(B),
         \A k \in 1 .. Len(w) : ~StandsAt(from, w \o y, k)
  PROVE  Replace(w \o y, from, to) = w \o Replace(y, from, to)
<1> DEFINE x == w \o y
           m == Len(w)
           R == Replace(y, from, to)
<1>0. m \in Nat /\ Len(y) \in Nat
  BY LenProperties
<1>1. x \in Seq(B) /\ Len(x) = m + Len(y)
      /\ \A k \in 1 .. m + Len(y) : x[k] = IF k <= m THEN w[k] ELSE y[k - m]
  BY ConcatProperties
<1>a. Unfolds(B, x, from, to) /\ Unfolds(B, y, from, to)
  BY <1>1, ReplaceUnfolds
<1>2. PICK r \in [1 .. Len(x) + 1 -> Seq(B)] :
         /\ \A i \in 1 .. Len(x) + 1 : r[i] = Unfolded(r, x, from, to, i)
         /\ Replace(x, from, to) = r[1]
  BY <1>a DEF Unfolds
<1>3. Behind(r, w, y, from, to)
  BY <1>2, ReplaceBehind
<1>4. r[m + 1] = R
  BY <1>3 DEF Behind
<1>5. R \in Seq(B)
  <2>1. m + 1 \in 1 .. Len(x) + 1
    BY <1>0, <1>1
  <2> HIDE DEF x, m, R
  <2> QED
    BY <1>2, <1>4, <2>1
<1>6. \A k \in 1 .. m : ~StandsAt(from, x, k)
  OBVIOUS
<1> HIDE DEF x, m, R
<1> DEFINE P(k) == k <= m => r[(m - k) + 1] = SubSeq(w, (m - k) + 1, m) \o R
           K == {k \in Nat : P(k)}
<1>7. 0 \in K
  <2>1. (m - 0) + 1 = m + 1 /\ m < m + 1 /\ m \in Int /\ m + 1 \in Int
    BY <1>0
  <2>2. SubSeq(w, m + 1, m) = <<>>
    BY <2>1, SubSeqEmpty
  <2>3. <<>> \o R = R
    BY <1>5, ConcatEmptySeq
  <2> QED
    BY <1>4, <2>1, <2>2, <2>3
<1>8. ASSUME NEW k \in Nat, k \in K PROVE k + 1 \in K
  <2>0. k + 1 \in Nat /\ P(k)
    <3>1. k + 1 \in Nat
      OBVIOUS
    <3> HIDE DEF P
    <3> QED
      BY <1>8, <3>1
  <2>a. P(k + 1) => k + 1 \in K
    <3> HIDE DEF P
    <3> QED
      BY <2>0
  <2> SUFFICES ASSUME k + 1 <= m
               PROVE  r[(m - (k + 1)) + 1] = SubSeq(w, (m - (k + 1)) + 1, m) \o R
    BY <2>a
  <2> DEFINE i == (m - (k + 1)) + 1
             u == SubSeq(w, i + 1, m)
  <2>1. /\ i \in 1 .. m /\ i \in 1 .. Len(x) + 1 /\ (m - k) + 1 = i + 1 /\ k <= m
        /\ i \in 1 .. m + Len(y) /\ i <= m /\ ~(i > Len(x)) /\ m \in i .. m
    BY <1>0, <1>1
  <2>2. r[i + 1] = SubSeq(w, i + 1, m) \o R
    BY <2>0, <2>1
  <2> HIDE DEF i
  <2>3. r[i] = <<x[i]>> \o r[i + 1]
    BY <1>2, <1>6, <2>1 DEF Unfolded
  <2>4. x[i] = w[i]
    BY <1>1, <2>1
  <2>5. SubSeq(w, i, m) = <<w[i]>> \o u
    BY <2>1, SubSeqRecursiveFirst DEF m
  <2>6. <<w[i]>> \in Seq(B)
    BY <2>1, ElementOfSeq DEF m
  <2>7. u \in Seq(B)
    <3>1. \A j \in i + 1 .. m : w[j] \in B
      <4>1. \A j \in i + 1 .. m : j \in 1 .. m
        BY <2>1
      <4> QED
        BY <4>1, ElementOfSeq DEF m
    <3>2. i + 1 \in Int /\ m \in Int
      BY <1>0, <2>1
    <3> QED
      BY <3>1, <3>2, SubSeqProperties
  <2> HIDE DEF u
  <2>8. (<<w[i]>> \o u) \o R = <<w[i]>> \o (u \o R)
    BY <1>5, <2>6, <2>7, ConcatAssociative
  <2>9. r[i] = SubSeq(w, i, m) \o R
    BY <2>2, <2>3, <2>4, <2>5, <2>8 DEF u
  <2> QED
    BY <2>9 DEF i
<1> HIDE DEF K
<1>9. m \in K
  BY <1>0, <1>7, <1>8, InductionOnNat
<1>10. (m - m) + 1 = 1
  BY <1>0
<1>11. r[1] = SubSeq(w, 1, m) \o R
  BY <1>0, <1>9, <1>10 DEF K
<1>12. SubSeq(w, 1, m) = w
  BY SubSeqFull DEF m
<1> QED
  BY <1>2, <1>11, <1>12 DEF x, R

(* Where `from` stands in front, it is replaced.                           *)
LEMMA ReplaceFront ==
  ASSUME NEW B, NEW y \in Seq(B), NEW from \in Seq(B), from # <<>>,
         NEW to \in Seq(B)
  PROVE  Replace(from \o y, from, to) = to \o Replace(y, from, to)
<1> DEFINE x == from \o y
           m == Len(from)
<1>0. m \in Nat \ {0} /\ Len(y) \in Nat
  BY LenProperties, EmptySeq
<1>1. x \in Seq(B) /\ Len(x) = m + Len(y)
      /\ \A k \in 1 .. m + Len(y) : x[k] = IF k <= m THEN from[k] ELSE y[k - m]
  BY ConcatProperties
<1>a. Unfolds(B, x, from, to)
  BY <1>1, ReplaceUnfolds
<1>2. PICK r \in [1 .. Len(x) + 1 -> Seq(B)] :
         /\ \A i \in 1 .. Len(x) + 1 : r[i] = Unfolded(r, x, from, to, i)
         /\ Replace(x, from, to) = r[1]
  BY <1>a DEF Unfolds
<1>3. Behind(r, from, y, from, to)
  BY <1>2, ReplaceBehind
<1>4. r[m + 1] = Replace(y, from, to)
  BY <1>3 DEF Behind
<1> HIDE DEF x
<1>5. StandsAt(from, x, 1)
  <2>1. /\ 1 + m - 1 <= Len(x)
        /\ \A j \in 1 .. m : 1 + j - 1 = j /\ j \in 1 .. m + Len(y) /\ j <= m
    BY <1>0, <1>1
  <2>2. \A j \in 1 .. m : x[1 + j - 1] = from[j]
    BY <1>1, <2>1
  <2>3. 1 \in Nat \ {0}
    OBVIOUS
  <2> QED
    BY <1>1, <2>1, <2>2, <2>3, StandsBytewise
<1>6. 1 \in 1 .. Len(x) + 1 /\ ~(1 > Len(x)) /\ 1 + m = m + 1
  BY <1>0, <1>1
<1>7. r[1] = to \o r[1 + m]
  BY <1>2, <1>5, <1>6 DEF Unfolded
<1> QED
  BY <1>2, <1>4, <1>6, <1>7 DEF x

(* Nothing is replaced in an empty text.                                   *)
LEMMA ReplaceEmpty ==
  ASSUME NEW B, NEW from \in Seq(B), from # <<>>, NEW to \in Seq(B)
  PROVE  Replace(<<>>, from, to) = <<>>
<1> DEFINE x == <<>>
<1>1. x \in Seq(B) /\ Len(x) = 0
  BY EmptySeq
<1> HIDE DEF x
<1>a. Unfolds(B, x, from, to)
  BY <1>1, ReplaceUnfolds
<1>2. PICK r : /\ \A i \in 1 .. Len(x) + 1 : r[i] = Unfolded(r, x, from, to, i)
               /\ Replace(x, from, to) = r[1]
  BY <1>a DEF Unfolds
<1>3. r[1] = <<>>
  BY <1>1, <1>2 DEF Unfolded
<1> QED
  BY <1>2, <1>3 DEF x

-----------------------------------------------------------------------------
(* Substitution.  Equal bytes are the same braces.                         *)
LEMMA SameByte ==
  ASSUME NEW t, NEW i, NEW u, NEW j, t[i] = u[j]
  PROVE  (Opens(t, i) <=> Opens(u, j)) /\ (Closes(t, i) <=> Closes(u, j))
BY Zenon DEF Opens, Closes

(* Opening braces are equal bytes.                                         *)
LEMMA SameOpening ==
  ASSUME NEW t, NEW i, NEW u, NEW j, Opens(t, i), Opens(u, j)
  PROVE  t[i] = u[j]
BY Zenon DEF Opens

(* So are closing braces.                                                  *)
LEMMA SameClosing ==
  ASSUME NEW t, NEW i, NEW u, NEW j, Closes(t, i), Closes(u, j)
  PROVE  t[i] = u[j]
BY Zenon DEF Closes

Unbraced(v) == \A k \in 1 .. Len(v) : ~Opens(v, k) /\ ~Closes(v, k)

(* A text that has no brace is unbraced.                                   *)
LEMMA UnbracedIs ==
  ASSUME NEW v \in Seq(Byte), ~HasBrace(v)
  PROVE  Unbraced(v)
<1>1. DOMAIN v = 1 .. Len(v)
  BY LenProperties
<1>2. \A k \in DOMAIN v : ~Opens(v, k) /\ ~Closes(v, k)
  BY Zenon DEF HasBrace, Opens, Closes
<1> QED
  BY <1>1, <1>2 DEF Unbraced

(* Position k is of a name or of a placeholder.                            *)
Covered(t, k) ==
    \/ is_placeholder_continue(t[k])
    \/ \E r \in Spans(t) : r[1] <= k /\ k <= r[2]

(* Nested, with braces named instead of written.                           *)
LEMMA NestedIs ==
  ASSUME NEW t, NEW s \in Spans(t), NEW i \in 1 .. Len(t), NEW j \in 1 .. Len(t),
         i < s[1], s[2] < j, Opens(t, i), Closes(t, j),
         \A k \in i + 1 .. j - 1 : Covered(t, k)
  PROVE  Nested(t)
BY Zenon DEF Nested, Opens, Closes, Covered

(* A placeholder, byte by byte.                                            *)
Shaped(x, name) ==
    /\ x \in Seq(Byte) /\ x # <<>> /\ Len(x) = Len(name) + 2
    /\ Opens(x, 1) /\ Closes(x, Len(name) + 2)
    /\ \A k \in 1 .. Len(name) : x[k + 1] = name[k]

(* A token is a brace, the name, a brace.                                  *)
LEMMA TokenShape ==
  ASSUME NEW name \in Seq(Byte)
  PROVE  Shaped(Token(name), name)
<1> DEFINE a == "{"
           b == "}"
           n == Len(name)
           x == Token(name)
<1>1. a \in Byte /\ b \in Byte
  BY NamedBytes, Zenon
<1>2. x = (<<a>> \o name) \o <<b>>
  BY Zenon DEF Token
<1>3. n \in Nat
  BY LenProperties
<1> HIDE DEF a, b, x
<1> DEFINE y == <<a>> \o name
<1>4. /\ y \in Seq(Byte) /\ Len(y) = 1 + n
      /\ \A j \in 1 .. 1 + n : y[j] = IF j <= 1 THEN a ELSE name[j - 1]
  <2>1. <<a>> \in Seq(Byte)
    BY <1>1
  <2> QED
    BY <1>1, <2>1, ConsProperties, ConcatProperties
<1>5. <<b>> \in Seq(Byte) /\ Len(<<b>>) = 1 /\ <<b>>[1] = b
  BY <1>1
<1> HIDE DEF y
<1>6. /\ x \in Seq(Byte) /\ Len(x) = (1 + n) + 1
      /\ \A j \in 1 .. (1 + n) + 1 :
            x[j] = IF j <= 1 + n THEN y[j] ELSE <<b>>[j - (1 + n)]
  BY <1>2, <1>4, <1>5, ConcatProperties DEF y
<1>7. x[1] = a
  <2>1. 1 \in 1 .. (1 + n) + 1 /\ 1 <= 1 + n /\ 1 \in 1 .. 1 + n
    BY <1>3
  <2> QED
    BY <1>4, <1>6, <2>1
<1>8. x[n + 2] = b
  <2>1. n + 2 \in 1 .. (1 + n) + 1 /\ ~(n + 2 <= 1 + n) /\ (n + 2) - (1 + n) = 1
    BY <1>3
  <2> QED
    BY <1>5, <1>6, <2>1
<1>9. ASSUME NEW k \in 1 .. n PROVE x[k + 1] = name[k]
  <2>1. /\ k + 1 \in 1 .. (1 + n) + 1 /\ k + 1 <= 1 + n /\ ~(k + 1 <= 1)
        /\ k + 1 \in 1 .. 1 + n /\ (k + 1) - 1 = k
    BY <1>3
  <2> QED
    BY <1>4, <1>6, <2>1
<1>10. Len(x) = n + 2 /\ x # <<>>
  BY <1>3, <1>6, EmptySeq
<1>11. Opens(x, 1) /\ Closes(x, n + 2)
  BY <1>7, <1>8, Zenon DEF Opens, Closes, a, b
<1> QED
  BY <1>6, <1>9, <1>10, <1>11 DEF Shaped, x

(* Where a placeholder stands, a brace opens, its name follows and a brace *)
(* closes.                                                                 *)
LEMMA TokenStands ==
  ASSUME NEW name \in Seq(Byte), NEW x \in Seq(Byte), NEW i \in Nat \ {0},
         StandsAt(Token(name), x, i)
  PROVE  /\ Opens(x, i)
         /\ i + Len(name) + 1 <= Len(x)
         /\ Closes(x, i + Len(name) + 1)
         /\ \A k \in 1 .. Len(name) : x[i + k] = name[k]
<1> DEFINE y == Token(name)
           n == Len(name)
<1>0. n \in Nat /\ Len(x) \in Nat
  BY LenProperties
<1>1. /\ y \in Seq(Byte) /\ Len(y) = n + 2 /\ Opens(y, 1) /\ Closes(y, n + 2)
      /\ \A k \in 1 .. n : y[k + 1] = name[k]
  BY TokenShape DEF Shaped
<1>2. StandsAt(y, x, i)
  OBVIOUS
<1> HIDE DEF y, n
<1>3. i + Len(y) - 1 <= Len(x) /\ \A j \in 1 .. Len(y) : x[i + j - 1] = y[j]
  BY <1>1, <1>2, StandsBytewise
<1>4. 1 \in 1 .. Len(y) /\ n + 2 \in 1 .. Len(y) /\ i + 1 - 1 = i
      /\ i + (n + 2) - 1 = i + n + 1 /\ i + n + 1 <= Len(x)
  BY <1>0, <1>1, <1>3
<1>5. x[i] = y[1] /\ x[i + n + 1] = y[n + 2]
  BY <1>3, <1>4
<1>6. Opens(x, i) /\ Closes(x, i + n + 1)
  <2> DEFINE c == i + n + 1
             d == n + 2
  <2>1. x[c] = y[d] /\ Closes(y, d)
    BY <1>1, <1>5
  <2> HIDE DEF c, d
  <2>2. Closes(x, c)
    BY <2>1, SameByte
  <2>3. Opens(x, i)
    BY <1>1, <1>5, SameByte
  <2> QED
    BY <2>2, <2>3 DEF c
<1>7. ASSUME NEW k \in 1 .. n PROVE x[i + k] = name[k]
  <2>1. k + 1 \in 1 .. Len(y) /\ i + (k + 1) - 1 = i + k
    BY <1>0, <1>1
  <2> QED
    BY <1>1, <1>3, <2>1
<1> QED
  BY <1>4, <1>6, <1>7 DEF n

(* A placeholder does not begin inside another, and in front of another    *)
(* only if both are the same.                                              *)
Named(name) ==
    name \in Seq(Byte) /\ \A k \in 1 .. Len(name) : is_placeholder_continue(name[k])

(* A token that stands in another is that one.                             *)
LEMMA OtherToken ==
  ASSUME NEW name, Named(name), NEW other, Named(other), NEW y \in Seq(Byte),
         NEW k \in 1 .. Len(Token(other)),
         StandsAt(Token(name), Token(other) \o y, k)
  PROVE  name = other
<1> DEFINE w == Token(other)
           x == w \o y
           n == Len(name)
           m == Len(other)
<1>0. n \in Nat /\ m \in Nat /\ Len(y) \in Nat
  BY LenProperties DEF Named
<1>1. /\ w \in Seq(Byte) /\ Len(w) = m + 2 /\ Opens(w, 1) /\ Closes(w, m + 2)
      /\ \A j \in 1 .. m : w[j + 1] = other[j]
  BY TokenShape DEF Shaped, Named
<1>2. StandsAt(Token(name), x, k)
  OBVIOUS
<1> HIDE DEF w
<1>3. x \in Seq(Byte) /\ Len(x) = (m + 2) + Len(y)
      /\ \A j \in 1 .. (m + 2) + Len(y) :
            x[j] = IF j <= m + 2 THEN w[j] ELSE y[j - (m + 2)]
  <2>1. x \in Seq(Byte) /\ Len(x) = Len(w) + Len(y)
        /\ \A j \in 1 .. Len(w) + Len(y) :
              x[j] = IF j <= Len(w) THEN w[j] ELSE y[j - Len(w)]
    BY <1>1, ConcatProperties
  <2> QED
    BY <1>1, <2>1
<1> HIDE DEF x
<1>4. k \in 1 .. m + 2 /\ k \in Nat \ {0}
  BY <1>0, <1>1 DEF w
<1>5. /\ Opens(x, k) /\ k + n + 1 <= Len(x) /\ Closes(x, k + n + 1)
      /\ \A j \in 1 .. n : x[k + j] = name[j]
  BY <1>2, <1>3, <1>4, TokenStands DEF Named
<1>6. \A j \in 1 .. m + 2 : x[j] = w[j]
  <2>1. \A j \in 1 .. m + 2 : j \in 1 .. (m + 2) + Len(y) /\ j <= m + 2
    BY <1>0
  <2> QED
    BY <1>3, <2>1
<1>7. \A j \in 1 .. m : x[j + 1] = other[j]
  <2>1. \A j \in 1 .. m : j + 1 \in 1 .. m + 2
    BY <1>0
  <2> QED
    BY <1>1, <1>6, <2>1
<1>8. Closes(x, m + 2)
  <2>1. m + 2 \in 1 .. m + 2
    BY <1>0
  <2> QED
    BY <1>1, <1>6, <2>1, SameByte
<1>9. \A j \in 1 .. m : ~Opens(x, j + 1) /\ ~Closes(x, j + 1)
  <2> SUFFICES ASSUME NEW j \in 1 .. m PROVE ~Opens(x, j + 1) /\ ~Closes(x, j + 1)
    OBVIOUS
  <2>1. is_placeholder_continue(x[j + 1])
    BY <1>7 DEF Named
  <2> QED
    BY <2>1, BracesEndNames
<1>10. k = 1
  <2> SUFFICES ASSUME k # 1 PROVE FALSE
    OBVIOUS
  <2>1. CASE k = m + 2
    BY <1>5, <1>8, <2>1, BracesEndNames
  <2>2. CASE k # m + 2
    <3>1. k - 1 \in 1 .. m /\ (k - 1) + 1 = k
      BY <1>0, <1>4, <2>2
    <3> QED
      BY <1>5, <1>9, <3>1
  <2> QED
    BY <2>1, <2>2
<1>11. Closes(x, n + 2) /\ \A j \in 1 .. n : x[j + 1] = name[j]
  <2>1. 1 + n + 1 = n + 2 /\ \A j \in 1 .. n : 1 + j = j + 1
    BY <1>0
  <2> QED
    BY <1>5, <1>10, <2>1
<1>12. ~(n < m)
  <2> SUFFICES ASSUME n < m PROVE FALSE
    OBVIOUS
  <2>1. n + 1 \in 1 .. m /\ (n + 1) + 1 = n + 2
    BY <1>0
  <2> QED
    BY <1>9, <1>11, <2>1
<1>13. ~(m < n)
  <2> SUFFICES ASSUME m < n PROVE FALSE
    OBVIOUS
  <2>1. m + 1 \in 1 .. n /\ (m + 1) + 1 = m + 2
    BY <1>0
  <2>2. is_placeholder_continue(x[m + 2])
    BY <1>11, <2>1 DEF Named
  <2> QED
    BY <1>8, <2>2, BracesEndNames
<1>14. n = m
  BY <1>0, <1>12, <1>13
<1> QED
  BY <1>7, <1>11, <1>14, SeqEqual DEF Named

(* The text with the placeholders of the names in D replaced at once, from *)
(* each position on: r joins the pieces.                                   *)
PieceOf(t, secrets, D, i) ==
    IF IsToken(t, i)
    THEN IF NameFrom(t, i) \in D THEN secrets[NameFrom(t, i)]
         ELSE Token(NameFrom(t, i))
    ELSE <<t[i]>>

After(t, i) == IF IsToken(t, i) THEN NameEnd(t, i + 1) + 1 ELSE i + 1

Partly(r, t, secrets, D) ==
    /\ r \in [1 .. Len(t) + 1 -> Seq(Byte)]
    /\ \A i \in 1 .. Len(t) + 1 :
          r[i] = IF i > Len(t) THEN <<>>
                 ELSE PieceOf(t, secrets, D, i) \o r[After(t, i)]

(* Values that bring no braces with them.                                  *)
Plain(secrets, D) == \A n \in D : secrets[n] \in Seq(Byte) /\ Unbraced(secrets[n])

(* A position contributes a text.                                          *)
LEMMA PieceTypes ==
  ASSUME NEW t \in Seq(Byte), NEW i \in 1 .. Len(t), NEW secrets, NEW D,
         \A n \in D : secrets[n] \in Seq(Byte)
  PROVE  /\ After(t, i) \in i + 1 .. Len(t) + 1
         /\ PieceOf(t, secrets, D, i) \in Seq(Byte)
<1>0. Len(t) \in Nat
  BY LenProperties
<1>1. CASE IsToken(t, i)
  <2> DEFINE e == NameEnd(t, i + 1)
             name == NameFrom(t, i)
  <2>1. e \in i + 1 .. Len(t) /\ name \in Seq(Byte)
    BY <1>1, TokenFacts
  <2>2. Token(name) \in Seq(Byte)
    BY <2>1, TokenShape DEF Shaped
  <2>3. e + 1 \in i + 1 .. Len(t) + 1
    BY <1>0, <2>1
  <2> QED
    BY <1>1, <2>2, <2>3 DEF After, PieceOf
<1>2. CASE ~IsToken(t, i)
  <2>1. i + 1 \in i + 1 .. Len(t) + 1
    BY <1>0
  <2>2. <<t[i]>> \in Seq(Byte)
    BY ElementOfSeq
  <2> QED
    BY <1>2, <2>1, <2>2 DEF After, PieceOf
<1> QED
  BY <1>1, <1>2

PartlyExists(t, secrets, D) == \E r : Partly(r, t, secrets, D)

(* The equation of Partly has a solution.                                  *)
LEMMA PartlyDefined ==
  ASSUME NEW t \in Seq(Byte), NEW secrets, NEW D,
         \A n \in D : secrets[n] \in Seq(Byte)
  PROVE  PartlyExists(t, secrets, D)
<1> DEFINE n == Len(t)
           piece == [i \in 1 .. n |-> PieceOf(t, secrets, D, i)]
           next == [i \in 1 .. n |-> After(t, i)]
<1>0. n \in Nat
  BY LenProperties
<1>1. piece \in [1 .. n -> Seq(Byte)]
  BY PieceTypes
<1>2. Steps(n, next)
  BY PieceTypes DEF Steps
<1>3. PICK r \in [1 .. n + 1 -> Seq(Byte)] : Solves(r, piece, next, n)
  <2> HIDE DEF piece, next, n
  <2> QED
    BY <1>0, <1>1, <1>2, Solvable
<1>4. \A i \in 1 .. n + 1 : i > n \/ i \in 1 .. n
  BY <1>0
<1>5. Partly(r, t, secrets, D)
  BY <1>3, <1>4 DEF Solves, Joined, Partly
<1> QED
  BY <1>5 DEF PartlyExists

(* x begins with L bytes of a name and a brace that closes.                *)
Ends(x, L) ==
    /\ L \in Nat /\ L + 1 <= Len(x) /\ Closes(x, L + 1)
    /\ \A k \in 1 .. L : is_placeholder_continue(x[k])

(* A front without closing braces can be taken off.                        *)
LEMMA EndsBehind ==
  ASSUME NEW v \in Seq(Byte), NEW y \in Seq(Byte), NEW L, Ends(v \o y, L),
         \A k \in 1 .. Len(v) : ~Closes(v, k)
  PROVE  L >= Len(v) /\ Ends(y, L - Len(v))
<1> DEFINE x == v \o y
           m == Len(v)
<1>0. m \in Nat /\ Len(y) \in Nat
  BY LenProperties
<1>1. Len(x) = m + Len(y)
      /\ \A k \in 1 .. m + Len(y) : x[k] = IF k <= m THEN v[k] ELSE y[k - m]
  BY ConcatProperties
<1>2. /\ L \in Nat /\ L + 1 <= Len(x) /\ Closes(x, L + 1)
      /\ \A k \in 1 .. L : is_placeholder_continue(x[k])
  BY DEF Ends
<1>a. \A k \in 1 .. m : ~Closes(v, k)
  OBVIOUS
<1> HIDE DEF x, m
<1>3. L >= m
  <2> SUFFICES ASSUME ~(L >= m) PROVE FALSE
    OBVIOUS
  <2>1. L + 1 \in 1 .. m /\ L + 1 \in 1 .. m + Len(y) /\ L + 1 <= m
    BY <1>0, <1>2
  <2>2. x[L + 1] = v[L + 1]
    BY <1>1, <2>1
  <2> QED
    BY <1>2, <1>a, <2>1, <2>2, SameByte
<1>4. Closes(y, (L - m) + 1)
  <2>1. /\ L + 1 \in 1 .. m + Len(y) /\ ~(L + 1 <= m)
        /\ (L + 1) - m = (L - m) + 1
    BY <1>0, <1>1, <1>2, <1>3
  <2>2. x[L + 1] = y[(L - m) + 1]
    BY <1>1, <2>1
  <2> QED
    BY <1>2, <2>2, SameByte
<1>5. ASSUME NEW k \in 1 .. L - m PROVE is_placeholder_continue(y[k])
  <2>1. /\ m + k \in 1 .. m + Len(y) /\ ~(m + k <= m) /\ (m + k) - m = k
        /\ m + k \in 1 .. L
    BY <1>0, <1>1, <1>2, <1>3
  <2>2. x[m + k] = y[k]
    BY <1>1, <2>1
  <2> QED
    BY <1>2, <2>1, <2>2
<1>6. L - m \in Nat /\ (L - m) + 1 <= Len(y)
  BY <1>0, <1>1, <1>2, <1>3
<1> QED
  BY <1>3, <1>4, <1>5, <1>6 DEF Ends, m

(* In the text it is a brace at m that closes; what lies before is of      *)
(* names and of placeholders, and with no placeholder the bytes are those. *)
ClosedBy(x, t, j, L, m) ==
    /\ m \in j .. Len(t) /\ Closes(t, m)
    /\ \A k \in j .. m - 1 : Covered(t, k)
    /\ \/ \E s \in Spans(t) : j <= s[1] /\ s[2] < m
       \/ L = m - j /\ \A k \in 1 .. L : x[k] = t[j + k - 1]

Closed(x, t, j) == \A L : Ends(x, L) => \E m : ClosedBy(x, t, j, L, m)

(* A value in front of it: the placeholder it is for.                      *)
LEMMA ClosedValue ==
  ASSUME NEW t \in Seq(Byte), NEW j \in 1 .. Len(t), IsToken(t, j),
         NEW v \in Seq(Byte), Unbraced(v), NEW y \in Seq(Byte),
         Closed(y, t, After(t, j))
  PROVE  Closed(v \o y, t, j)
<1> SUFFICES ASSUME NEW L, Ends(v \o y, L)
             PROVE  \E m : ClosedBy(v \o y, t, j, L, m)
  BY DEF Closed
<1> DEFINE e == NameEnd(t, j + 1)
<1>0. Len(t) \in Nat
  BY LenProperties
<1>1. e \in j + 1 .. Len(t) /\ After(t, j) = e + 1
  BY TokenFacts DEF After
<1>2. <<j, e>> \in Spans(t)
  BY TokensAreSpans
<1> HIDE DEF e
<1>3. Ends(y, L - Len(v))
  BY EndsBehind DEF Unbraced
<1>4. PICK m : ClosedBy(y, t, e + 1, L - Len(v), m)
  BY <1>1, <1>3 DEF Closed
<1>5. m \in e + 1 .. Len(t) /\ Closes(t, m) /\ \A k \in e + 1 .. m - 1 : Covered(t, k)
  BY <1>4 DEF ClosedBy
<1>6. <<j, e>>[1] = j /\ <<j, e>>[2] = e
  OBVIOUS
<1>7. ASSUME NEW k \in j .. m - 1 PROVE Covered(t, k)
  <2>1. CASE k <= e
    <3>1. j <= k
      BY <1>0
    <3> QED
      BY <1>2, <1>6, <2>1, <3>1 DEF Covered
  <2>2. CASE ~(k <= e)
    <3>1. k \in e + 1 .. m - 1
      BY <1>0, <1>1, <1>5, <2>2
    <3> QED
      BY <1>5, <3>1
  <2> QED
    BY <2>1, <2>2
<1>8. m \in j .. Len(t) /\ e < m /\ j <= j
  BY <1>0, <1>1, <1>5
<1>9. ClosedBy(v \o y, t, j, L, m)
  BY <1>2, <1>5, <1>6, <1>7, <1>8 DEF ClosedBy
<1> QED
  BY <1>9

(* A byte of the text in front of it.                                      *)
LEMMA ClosedByte ==
  ASSUME NEW t \in Seq(Byte), NEW j \in 1 .. Len(t), NEW y \in Seq(Byte),
         Closed(y, t, j + 1)
  PROVE  Closed(<<t[j]>> \o y, t, j)
<1> DEFINE x == <<t[j]>> \o y
<1> SUFFICES ASSUME NEW L, Ends(x, L)
             PROVE  \E m : ClosedBy(x, t, j, L, m)
  BY DEF Closed
<1>0. Len(t) \in Nat /\ Len(y) \in Nat /\ t[j] \in Byte
  BY LenProperties, ElementOfSeq
<1>1. Len(x) = 1 + Len(y)
      /\ \A k \in 1 .. 1 + Len(y) : x[k] = IF k <= 1 THEN t[j] ELSE y[k - 1]
  BY <1>0, ConsProperties
<1>2. /\ L \in Nat /\ L + 1 <= Len(x) /\ Closes(x, L + 1)
      /\ \A k \in 1 .. L : is_placeholder_continue(x[k])
  BY DEF Ends
<1>3. x[1] = t[j]
  <2>1. 1 \in 1 .. 1 + Len(y)
    BY <1>0
  <2> QED
    BY <1>1, <2>1
<1>4. CASE L = 0
  <2>1. 0 + 1 = 1
    OBVIOUS
  <2>2. Closes(t, j)
    BY <1>2, <1>3, <1>4, <2>1, SameByte
  <2>3. j \in j .. Len(t) /\ j .. j - 1 = {} /\ L = j - j /\ 1 .. L = {}
    BY <1>0, <1>4
  <2>4. ClosedBy(x, t, j, L, j)
    BY <2>2, <2>3 DEF ClosedBy
  <2> QED
    BY <2>4
<1>5. CASE L # 0
  <2>1. is_placeholder_continue(t[j])
    <3>1. 1 \in 1 .. L
      BY <1>2, <1>5
    <3> QED
      BY <1>2, <1>3, <3>1
  <2>2. ~Closes(t, j)
    BY <2>1, BracesEndNames
  <2>3. Ends(y, L - 1)
    <3> DEFINE v == <<t[j]>>
    <3>1. v \in Seq(Byte) /\ Len(v) = 1 /\ v[1] = t[j]
      BY <1>0
    <3>2. ~Closes(v, 1)
      BY <2>2, <3>1, SameByte
    <3>3. Ends(v \o y, L)
      OBVIOUS
    <3> HIDE DEF v
    <3>4. \A k \in 1 .. Len(v) : ~Closes(v, k)
      <4>1. \A k \in 1 .. Len(v) : k = 1
        BY <3>1
      <4> QED
        BY <3>2, <4>1
    <3> QED
      BY <3>1, <3>3, <3>4, EndsBehind
  <2>4. PICK m : ClosedBy(y, t, j + 1, L - 1, m)
    BY <2>3 DEF Closed
  <2>5. /\ m \in j + 1 .. Len(t) /\ Closes(t, m)
        /\ \A k \in j + 1 .. m - 1 : Covered(t, k)
        /\ \/ \E s \in Spans(t) : j + 1 <= s[1] /\ s[2] < m
           \/ L - 1 = m - (j + 1)
              /\ \A k \in 1 .. L - 1 : y[k] = t[(j + 1) + k - 1]
    BY <2>4 DEF ClosedBy
  <2> HIDE DEF x
  <2>6. ASSUME NEW k \in j .. m - 1 PROVE Covered(t, k)
    <3>1. k = j \/ k \in j + 1 .. m - 1
      BY <1>0, <2>5
    <3> QED
      BY <2>1, <2>5, <3>1 DEF Covered
  <2>7. CASE \E s \in Spans(t) : j + 1 <= s[1] /\ s[2] < m
    <3>1. PICK s \in Spans(t) : j + 1 <= s[1] /\ s[2] < m
      BY <2>7
    <3>2. s[1] \in 1 .. Len(t)
      BY SpansOfTokens
    <3>3. j <= s[1] /\ m \in j .. Len(t)
      BY <1>0, <2>5, <3>1, <3>2
    <3>4. ClosedBy(x, t, j, L, m)
      BY <2>5, <2>6, <3>1, <3>3 DEF ClosedBy
    <3> QED
      BY <3>4
  <2>8. CASE L - 1 = m - (j + 1) /\ \A k \in 1 .. L - 1 : y[k] = t[(j + 1) + k - 1]
    <3>1. L = m - j /\ m \in j .. Len(t)
      BY <1>0, <1>2, <2>5, <2>8
    <3>2. ASSUME NEW k \in 1 .. L PROVE x[k] = t[j + k - 1]
      <4>1. CASE k = 1
        <5>1. j + 1 - 1 = j
          BY <1>0
        <5> QED
          BY <1>3, <4>1, <5>1
      <4>2. CASE k # 1
        <5>1. /\ k - 1 \in 1 .. L - 1 /\ k \in 1 .. 1 + Len(y) /\ ~(k <= 1)
              /\ (j + 1) + (k - 1) - 1 = j + k - 1
          BY <1>0, <1>1, <1>2, <4>2
        <5>2. x[k] = y[k - 1]
          BY <1>1, <5>1
        <5>3. y[k - 1] = t[(j + 1) + (k - 1) - 1]
          BY <2>8, <5>1
        <5> QED
          BY <5>1, <5>2, <5>3
      <4> QED
        BY <4>1, <4>2
    <3>3. ClosedBy(x, t, j, L, m)
      BY <2>5, <2>6, <3>1, <3>2 DEF ClosedBy
    <3> QED
      BY <3>3
  <2> QED
    BY <2>5, <2>7, <2>8
<1> QED
  BY <1>4, <1>5

(* An opening brace in front is no end of a name.                          *)
LEMMA ClosedToken ==
  ASSUME NEW t \in Seq(Byte), NEW j, NEW name \in Seq(Byte), NEW y \in Seq(Byte)
  PROVE  Closed(Token(name) \o y, t, j)
<1> DEFINE w == Token(name)
           x == w \o y
<1> SUFFICES ASSUME NEW L, Ends(x, L) PROVE FALSE
  BY DEF Closed
<1>1. w \in Seq(Byte) /\ Opens(w, 1) /\ Len(w) = Len(name) + 2 /\ Len(name) \in Nat
  BY TokenShape, LenProperties DEF Shaped
<1> HIDE DEF w
<1>2. x[1] = w[1]
  <2>1. 1 \in 1 .. Len(w) + Len(y) /\ 1 <= Len(w)
    BY <1>1, LenProperties
  <2> QED
    BY <1>1, <2>1, ConcatProperties
<1> HIDE DEF x
<1>3. Opens(x, 1)
  BY <1>1, <1>2, SameByte
<1>4. /\ L \in Nat /\ Closes(x, L + 1)
      /\ \A k \in 1 .. L : is_placeholder_continue(x[k])
  BY DEF Ends
<1>5. CASE L = 0
  <2>1. L + 1 = 1
    BY <1>5
  <2> QED
    BY <1>3, <1>4, <2>1, BracesEndNames
<1>6. CASE L # 0
  <2>1. 1 \in 1 .. L
    BY <1>4, <1>6
  <2> QED
    BY <1>3, <1>4, <2>1, BracesEndNames
<1> QED
  BY <1>5, <1>6

(* From every position on, by induction from the end of the text.          *)
LEMMA PartlyClosed ==
  ASSUME NEW t \in Seq(Byte), NEW secrets, NEW D, Plain(secrets, D),
         NEW r, Partly(r, t, secrets, D)
  PROVE  \A j \in 1 .. Len(t) + 1 : Closed(r[j], t, j)
<1> DEFINE n == Len(t)
           K == {k \in Nat : \A j \in 1 .. n + 1 :
                                j >= n + 1 - k => Closed(r[j], t, j)}
<1>0. n \in Nat
  BY LenProperties
<1>1. \A j \in 1 .. n + 1 :
         /\ r[j] \in Seq(Byte)
         /\ r[j] = IF j > n THEN <<>> ELSE PieceOf(t, secrets, D, j) \o r[After(t, j)]
  BY DEF Partly
<1>2. \A j \in 1 .. n + 1 : j > n => Closed(r[j], t, j)
  <2> SUFFICES ASSUME NEW j \in 1 .. n + 1, j > n, NEW L, Ends(r[j], L) PROVE FALSE
    BY DEF Closed
  <2>1. Len(r[j]) = 0
    BY <1>1, EmptySeq
  <2> QED
    BY <2>1 DEF Ends
<1> HIDE DEF n
<1>3. 0 \in K
  <2>1. \A j \in 1 .. n + 1 : j >= n + 1 - 0 => j > n
    BY <1>0
  <2> QED
    BY <1>2, <2>1
<1>4. ASSUME NEW k \in Nat, k \in K PROVE k + 1 \in K
  <2> SUFFICES ASSUME NEW j \in 1 .. n + 1, j >= n + 1 - (k + 1)
               PROVE  Closed(r[j], t, j)
    OBVIOUS
  <2>1. CASE j > n
    BY <1>2, <2>1
  <2>2. CASE ~(j > n)
    <3> DEFINE a == After(t, j)
               y == r[a]
    <3>1. j \in 1 .. Len(t) /\ j \in 1 .. n
      BY <1>0, <2>2 DEF n
    <3>2. a \in j + 1 .. n + 1
      BY <3>1, PieceTypes DEF Plain, n
    <3>3. a \in 1 .. n + 1 /\ a >= n + 1 - k
      BY <1>0, <3>1, <3>2
    <3> HIDE DEF a
    <3>4. Closed(y, t, a) /\ y \in Seq(Byte)
      BY <1>1, <1>4, <3>3
    <3>5. r[j] = PieceOf(t, secrets, D, j) \o y
      BY <1>1, <2>2 DEF a
    <3> HIDE DEF y
    <3>6. CASE ~IsToken(t, j)
      <4>1. a = j + 1 /\ r[j] = <<t[j]>> \o y
        BY <3>5, <3>6 DEF a, After, PieceOf
      <4> QED
        BY <3>1, <3>4, <4>1, ClosedByte
    <3>7. CASE IsToken(t, j) /\ NameFrom(t, j) \in D
      <4> DEFINE v == secrets[NameFrom(t, j)]
      <4>1. r[j] = v \o y /\ v \in Seq(Byte) /\ Unbraced(v)
        BY <3>5, <3>7 DEF PieceOf, Plain
      <4> HIDE DEF v
      <4> QED
        BY <3>1, <3>4, <3>7, <4>1, ClosedValue DEF a
    <3>8. CASE IsToken(t, j) /\ NameFrom(t, j) \notin D
      <4> DEFINE name == NameFrom(t, j)
      <4>1. r[j] = Token(name) \o y
        BY <3>5, <3>8 DEF PieceOf
      <4>2. name \in Seq(Byte)
        BY <3>1, <3>8, TokenFacts
      <4> HIDE DEF name
      <4> QED
        BY <3>4, <4>1, <4>2, ClosedToken
    <3> QED
      BY <3>6, <3>7, <3>8
  <2> QED
    BY <2>1, <2>2
<1> HIDE DEF K
<1>5. n \in K
  BY <1>0, <1>3, <1>4, InductionOnNat
<1>6. \A j \in 1 .. n + 1 : j >= n + 1 - n
  BY <1>0
<1> QED
  BY <1>5, <1>6 DEF K, n

(* Unless braces are nested, a brace that begins no placeholder of the     *)
(* text begins none when values have been put in behind it.                *)
LEMMA NoNewToken ==
  ASSUME NEW t \in Seq(Byte), ~Nested(t), NEW i \in 1 .. Len(t), ~IsToken(t, i),
         NEW y \in Seq(Byte), Closed(y, t, i + 1),
         NEW name \in Seq(Byte), IsName(name),
         StandsAt(Token(name), <<t[i]>> \o y, 1)
  PROVE  FALSE
<1> DEFINE x == <<t[i]>> \o y
           L == Len(name)
<1>0. Len(t) \in Nat /\ Len(y) \in Nat /\ L \in Nat /\ t[i] \in Byte
      /\ DOMAIN name = 1 .. L
  BY LenProperties, ElementOfSeq
<1>1. x \in Seq(Byte) /\ Len(x) = 1 + Len(y)
      /\ \A k \in 1 .. 1 + Len(y) : x[k] = IF k <= 1 THEN t[i] ELSE y[k - 1]
  <2>1. <<t[i]>> \in Seq(Byte)
    BY <1>0
  <2>2. x \in Seq(Byte)
    BY <2>1, ConcatProperties
  <2> QED
    BY <1>0, <2>2, ConsProperties
<1>2. StandsAt(Token(name), x, 1)
  OBVIOUS
<1> HIDE DEF x
<1>3. /\ Opens(x, 1) /\ 1 + L + 1 <= Len(x) /\ Closes(x, 1 + L + 1)
      /\ \A k \in 1 .. L : x[1 + k] = name[k]
  <2>1. 1 \in Nat \ {0}
    OBVIOUS
  <2> QED
    BY <1>1, <1>2, <2>1, TokenStands
<1> HIDE DEF L
<1>4. \A k \in 1 .. L + 1 : x[1 + k] = y[k]
  <2>1. \A k \in 1 .. L + 1 : /\ 1 + k \in 1 .. 1 + Len(y) /\ ~(1 + k <= 1)
                              /\ (1 + k) - 1 = k
    BY <1>0, <1>1, <1>3
  <2> QED
    BY <1>1, <2>1
<1>5. Opens(t, i)
  <2>1. 1 \in 1 .. 1 + Len(y)
    BY <1>0
  <2>2. x[1] = t[i]
    BY <1>1, <2>1
  <2> QED
    BY <1>3, <2>2, SameByte
<1>6. \A k \in 1 .. L : y[k] = name[k]
  <2>1. \A k \in 1 .. L : k \in 1 .. L + 1
    BY <1>0
  <2> QED
    BY <1>3, <1>4, <2>1
<1>7. Ends(y, L)
  <2>1. L + 1 \in 1 .. L + 1 /\ 1 + L + 1 = 1 + (L + 1) /\ L + 1 <= Len(y)
    BY <1>0, <1>1, <1>3
  <2>2. x[1 + L + 1] = y[L + 1]
    BY <1>4, <2>1
  <2>3. Closes(y, L + 1)
    <3> DEFINE c == 1 + L + 1
               d == L + 1
    <3>1. x[c] = y[d] /\ Closes(x, c)
      BY <1>3, <2>2
    <3> HIDE DEF c, d
    <3>2. Closes(y, d)
      BY <3>1, SameByte
    <3> QED
      BY <3>2 DEF d
  <2>4. \A k \in 1 .. L : is_placeholder_continue(y[k])
    BY <1>0, <1>6 DEF IsName
  <2> QED
    BY <1>0, <2>1, <2>3, <2>4 DEF Ends
<1>8. PICK m : ClosedBy(y, t, i + 1, L, m)
  BY <1>7 DEF Closed
<1>9. /\ m \in i + 1 .. Len(t) /\ Closes(t, m)
      /\ \A k \in i + 1 .. m - 1 : Covered(t, k)
      /\ \/ \E s \in Spans(t) : i + 1 <= s[1] /\ s[2] < m
         \/ L = m - (i + 1) /\ \A k \in 1 .. L : y[k] = t[(i + 1) + k - 1]
  BY <1>8 DEF ClosedBy
<1>10. m \in 1 .. Len(t) /\ i < m
  BY <1>0, <1>9
<1>11. CASE \E s \in Spans(t) : i + 1 <= s[1] /\ s[2] < m
  <2>1. PICK s \in Spans(t) : i + 1 <= s[1] /\ s[2] < m
    BY <1>11
  <2>2. s[1] \in 1 .. Len(t)
    BY SpansOfTokens
  <2>3. i < s[1]
    BY <2>1, <2>2
  <2> QED
    BY <1>5, <1>9, <1>10, <2>1, <2>3, NestedIs
<1>12. CASE L = m - (i + 1) /\ \A k \in 1 .. L : y[k] = t[(i + 1) + k - 1]
  <2> DEFINE u == SubSeq(t, i + 1, m - 1)
  <2>1. /\ u \in Seq(Byte) /\ Len(u) = L
        /\ \A k \in 1 .. L : u[k] = t[(i + 1) + k - 1]
    <3>1. \A k \in i + 1 .. m - 1 : t[k] \in Byte
      <4>1. \A k \in i + 1 .. m - 1 : k \in 1 .. Len(t)
        BY <1>0, <1>10
      <4> QED
        BY <4>1, ElementOfSeq
    <3> DEFINE a == i + 1
               b == m - 1
    <3>2. a \in Int /\ b \in Int /\ \A k \in a .. b : t[k] \in Byte
      BY <1>0, <1>10, <3>1
    <3>3. (b - a) + 1 = L /\ (a <= b => b - a + 1 = L) /\ (~(a <= b) => 0 = L)
      BY <1>0, <1>10, <1>12
    <3> HIDE DEF a, b
    <3>4. /\ SubSeq(t, a, b) \in Seq(Byte)
          /\ Len(SubSeq(t, a, b)) = IF a <= b THEN b - a + 1 ELSE 0
          /\ \A k \in 1 .. b - a + 1 : SubSeq(t, a, b)[k] = t[a + k - 1]
      BY <3>2, SubSeqProperties
    <3> QED
      BY <3>3, <3>4 DEF a, b
  <2> HIDE DEF u
  <2>2. u = name
    <3>1. \A k \in 1 .. L : u[k] = name[k]
      BY <1>6, <1>12, <2>1
    <3> QED
      BY <2>1, <3>1, SeqEqual DEF L
  <2>3. IsName(SubSeq(t, i + 1, m - 1))
    BY <2>2 DEF u
  <2>4. <<i, m>> \in Spans(t)
    BY <1>5, <1>9, <1>10, <2>3, SpanIs
  <2> QED
    BY <2>4, TokensAreSpans
<1> QED
  BY <1>9, <1>11, <1>12

(* A name has nothing but bytes of names.                                  *)
LEMMA NameNamed ==
  ASSUME NEW name \in Seq(Byte), IsName(name)
  PROVE  Named(name)
<1>1. DOMAIN name = 1 .. Len(name)
  BY LenProperties
<1> QED
  BY <1>1 DEF IsName, Named

(* The same for the name read from a position.                             *)
LEMMA TokenNamed ==
  ASSUME NEW t \in Seq(Byte), NEW i \in 1 .. Len(t), IsToken(t, i)
  PROVE  NameFrom(t, i) \in Seq(Byte) /\ IsName(NameFrom(t, i))
<1>1. NameFrom(t, i) \in Seq(Byte)
  BY TokenFacts
<1>2. <<i, NameEnd(t, i + 1)>> \in Spans(t)
  BY TokensAreSpans
<1>3. IsName(NameFrom(t, i))
  BY <1>2, SpanIs DEF NameFrom
<1> QED
  BY <1>1, <1>3

(* No placeholder begins in a text without braces.                         *)
LEMMA NoneInValue ==
  ASSUME NEW v \in Seq(Byte), NEW y \in Seq(Byte), NEW name \in Seq(Byte),
         NEW k \in 1 .. Len(v), ~Opens(v, k)
  PROVE  ~StandsAt(Token(name), v \o y, k)
<1> DEFINE x == v \o y
<1>0. Len(v) \in Nat /\ Len(y) \in Nat
  BY LenProperties
<1>1. x \in Seq(Byte)
  BY ConcatProperties
<1>2. x[k] = v[k]
  <2>1. k \in 1 .. Len(v) + Len(y) /\ k <= Len(v)
    BY <1>0
  <2> QED
    BY <2>1, ConcatProperties
<1> HIDE DEF x
<1>3. ~Opens(x, k)
  BY <1>2, SameByte
<1>4. k \in Nat \ {0}
  BY <1>0
<1>5. ~StandsAt(Token(name), x, k)
  BY <1>1, <1>3, <1>4, TokenStands
<1> QED
  BY <1>5 DEF x

(* What Replace does with the piece in front.                              *)
Replaces(t, secrets, D, d, i, y) ==
    Replace(PieceOf(t, secrets, D, i) \o y, Token(d), secrets[d])
        = PieceOf(t, secrets, D \cup {d}, i) \o Replace(y, Token(d), secrets[d])

(* Replacing a name takes one step over what a position contributes.       *)
LEMMA ReplacePiece ==
  ASSUME NEW t \in Seq(Byte), ~Nested(t), NEW i \in 1 .. Len(t),
         NEW secrets, NEW D, NEW d \in Seq(Byte), IsName(d),
         Plain(secrets, D \cup {d}),
         NEW y \in Seq(Byte), Closed(y, t, After(t, i))
  PROVE  Replaces(t, secrets, D, d, i, y)
<1> DEFINE from == Token(d)
           to == secrets[d]
           w == PieceOf(t, secrets, D, i)
           name == NameFrom(t, i)
<1>1. from \in Seq(Byte) /\ from # <<>> /\ to \in Seq(Byte)
  BY TokenShape DEF Shaped, Plain
<1>2. w \in Seq(Byte)
  BY PieceTypes DEF Plain
<1>3. Named(d)
  BY NameNamed
<1>4. ASSUME PieceOf(t, secrets, D \cup {d}, i) = w,
             \A k \in 1 .. Len(w) : ~StandsAt(from, w \o y, k)
      PROVE  Replace(w \o y, from, to) =
                PieceOf(t, secrets, D \cup {d}, i) \o Replace(y, from, to)
  <2>1. \A k \in 1 .. Len(w) : ~StandsAt(from, w \o y, k)
    BY <1>4
  <2>2. Replace(w \o y, from, to) = w \o Replace(y, from, to)
    <3> HIDE DEF w, from, to
    <3> QED
      BY <1>1, <1>2, <2>1, ReplaceSkips
  <2> QED
    BY <1>4, <2>2
<1>5. CASE ~IsToken(t, i)
  <2>1. w = <<t[i]>> /\ PieceOf(t, secrets, D \cup {d}, i) = w /\ After(t, i) = i + 1
    BY <1>5 DEF PieceOf, After
  <2>2. Len(<<t[i]>>) = 1 /\ \A k \in 1 .. 1 : k = 1
    OBVIOUS
  <2>3. ~StandsAt(from, <<t[i]>> \o y, 1)
    BY <1>5, <2>1, NoNewToken
  <2>4. \A k \in 1 .. Len(w) : ~StandsAt(from, w \o y, k)
    <3> HIDE DEF w, from
    <3> QED
      BY <2>1, <2>2, <2>3
  <2> QED
    BY <1>4, <2>1, <2>4 DEF Replaces
<1>6. CASE IsToken(t, i) /\ name \in D
  <2>1. w = secrets[name] /\ PieceOf(t, secrets, D \cup {d}, i) = w /\ Unbraced(w)
    BY <1>6 DEF PieceOf, Plain
  <2>2. \A k \in 1 .. Len(w) : ~StandsAt(from, w \o y, k)
    <3> HIDE DEF w
    <3> QED
      BY <1>2, <2>1, NoneInValue DEF Unbraced
  <2> QED
    BY <1>4, <2>1, <2>2 DEF Replaces
<1>7. CASE IsToken(t, i) /\ name \notin D /\ name # d
  <2>1. w = Token(name) /\ PieceOf(t, secrets, D \cup {d}, i) = w
    BY <1>7 DEF PieceOf
  <2>2. Named(name)
    BY <1>7, TokenNamed, NameNamed
  <2>3. \A k \in 1 .. Len(w) : ~StandsAt(from, w \o y, k)
    <3> HIDE DEF w, name
    <3> QED
      BY <1>3, <1>7, <2>1, <2>2, OtherToken
  <2> QED
    BY <1>4, <2>1, <2>3 DEF Replaces
<1>8. CASE IsToken(t, i) /\ name \notin D /\ name = d
  <2>1. w = from /\ PieceOf(t, secrets, D \cup {d}, i) = to
    BY <1>8 DEF PieceOf
  <2> HIDE DEF w, from, to
  <2>2. Replace(from \o y, from, to) = to \o Replace(y, from, to)
    BY <1>1, ReplaceFront
  <2> QED
    BY <2>1, <2>2 DEF w, from, to, Replaces
<1> QED
  BY <1>5, <1>6, <1>7, <1>8 DEF Replaces

(* Replacing one more name in the text with those of D replaced.           *)
LeadsTo(r, q, secrets, d) == Replace(r[1], Token(d), secrets[d]) = q[1]

(* Replacing one more name in a partly substituted text.                   *)
LEMMA ReplaceMore ==
  ASSUME NEW t \in Seq(Byte), ~Nested(t), NEW secrets, NEW D,
         NEW d \in Seq(Byte), IsName(d), Plain(secrets, D \cup {d}),
         NEW r, Partly(r, t, secrets, D), NEW q, Partly(q, t, secrets, D \cup {d})
  PROVE  LeadsTo(r, q, secrets, d)
<1> DEFINE n == Len(t)
           from == Token(d)
           to == secrets[d]
           E == D \cup {d}
           K == {k \in Nat : \A i \in 1 .. n + 1 :
                                i >= n + 1 - k => Replace(r[i], from, to) = q[i]}
<1>0. n \in Nat
  BY LenProperties
<1>1. /\ \A i \in 1 .. n + 1 : r[i] \in Seq(Byte) /\ q[i] \in Seq(Byte)
      /\ \A i \in 1 .. n + 1 :
            r[i] = IF i > n THEN <<>> ELSE PieceOf(t, secrets, D, i) \o r[After(t, i)]
      /\ \A i \in 1 .. n + 1 :
            q[i] = IF i > n THEN <<>> ELSE PieceOf(t, secrets, E, i) \o q[After(t, i)]
  BY DEF Partly
<1>2. Plain(secrets, D)
  BY DEF Plain
<1>3. \A i \in 1 .. n + 1 : Closed(r[i], t, i)
  BY <1>2, PartlyClosed
<1>4. from \in Seq(Byte) /\ from # <<>> /\ to \in Seq(Byte)
  BY TokenShape DEF Shaped, Plain
<1>5. Replace(<<>>, from, to) = <<>>
  <2> HIDE DEF from, to
  <2> QED
    BY <1>4, ReplaceEmpty
<1>6. \A i \in 1 .. n : After(t, i) \in i + 1 .. n + 1
  BY <1>2, PieceTypes DEF Plain
<1>7. \A i \in 1 .. n : \A y \in Seq(Byte) : Closed(y, t, After(t, i)) =>
         Replace(PieceOf(t, secrets, D, i) \o y, from, to)
            = PieceOf(t, secrets, E, i) \o Replace(y, from, to)
  <2> SUFFICES ASSUME NEW i \in 1 .. n, NEW y \in Seq(Byte),
                      Closed(y, t, After(t, i))
               PROVE  Replace(PieceOf(t, secrets, D, i) \o y, from, to)
                         = PieceOf(t, secrets, E, i) \o Replace(y, from, to)
    OBVIOUS
  <2>1. Replaces(t, secrets, D, d, i, y)
    BY ReplacePiece
  <2> QED
    BY <2>1 DEF Replaces
<1> HIDE DEF n, from, to, E
<1>8. 0 \in K
  <2>1. \A i \in 1 .. n + 1 : i >= n + 1 - 0 => i > n
    BY <1>0
  <2> QED
    BY <1>1, <1>5, <2>1
<1>9. ASSUME NEW k \in Nat, k \in K PROVE k + 1 \in K
  <2> SUFFICES ASSUME NEW i \in 1 .. n + 1, i >= n + 1 - (k + 1)
               PROVE  Replace(r[i], from, to) = q[i]
    OBVIOUS
  <2>1. CASE i > n
    BY <1>1, <1>5, <2>1
  <2>2. CASE ~(i > n)
    <3> DEFINE a == After(t, i)
    <3>1. i \in 1 .. n
      BY <1>0, <2>2
    <3>2. a \in i + 1 .. n + 1
      BY <1>6, <3>1
    <3>3. a \in 1 .. n + 1 /\ a >= n + 1 - k
      BY <1>0, <3>1, <3>2
    <3>4. Replace(r[a], from, to) = q[a] /\ r[a] \in Seq(Byte) /\ Closed(r[a], t, a)
      <4> HIDE DEF a
      <4> QED
        BY <1>1, <1>3, <1>9, <3>3
    <3>5. Replace(PieceOf(t, secrets, D, i) \o r[a], from, to)
             = PieceOf(t, secrets, E, i) \o Replace(r[a], from, to)
      BY <1>7, <3>1, <3>4
    <3> QED
      BY <1>1, <2>2, <3>4, <3>5
  <2> QED
    BY <2>1, <2>2
<1> HIDE DEF K
<1>10. n \in K
  BY <1>0, <1>8, <1>9, InductionOnNat
<1>11. 1 \in 1 .. n + 1 /\ 1 >= n + 1 - n
  BY <1>0
<1> QED
  BY <1>10, <1>11 DEF K, from, to, LeadsTo

(* With no name replaced it is the text itself.                            *)
LEMMA PartlyNone ==
  ASSUME NEW t \in Seq(Byte), NEW secrets, NEW r, Partly(r, t, secrets, {})
  PROVE  r[1] = t
<1> DEFINE n == Len(t)
           K == {k \in Nat : \A i \in 1 .. n + 1 :
                                i >= n + 1 - k => r[i] = SubSeq(t, i, n)}
<1>0. n \in Nat
  BY LenProperties
<1>1. \A i \in 1 .. n + 1 :
         r[i] = IF i > n THEN <<>> ELSE PieceOf(t, secrets, {}, i) \o r[After(t, i)]
  BY DEF Partly
<1>2. ASSUME NEW i \in 1 .. n
      PROVE  /\ After(t, i) \in i + 1 .. n + 1
             /\ PieceOf(t, secrets, {}, i) = SubSeq(t, i, After(t, i) - 1)
  <2>1. After(t, i) \in i + 1 .. n + 1
    <3> DEFINE D == {}
    <3>1. \A x \in D : secrets[x] \in Seq(Byte)
      OBVIOUS
    <3> HIDE DEF D
    <3> QED
      BY <3>1, PieceTypes
  <2>2. CASE ~IsToken(t, i)
    <3>1. After(t, i) - 1 = i /\ PieceOf(t, secrets, {}, i) = <<t[i]>>
      BY <2>2 DEF After, PieceOf
    <3>2. t[i] \in Byte
      BY ElementOfSeq
    <3>3. SubSeq(t, i, i) = <<t[i]>>
      <4>1. i \in i .. n /\ i < i + 1 /\ i \in Int /\ i + 1 \in Int
        BY <1>0
      <4>2. SubSeq(t, i, i) = <<t[i]>> \o SubSeq(t, i + 1, i)
        BY <4>1, SubSeqRecursiveFirst
      <4>3. SubSeq(t, i + 1, i) = <<>>
        BY <4>1, SubSeqEmpty
      <4>4. <<t[i]>> \in Seq(Byte)
        BY <3>2
      <4> QED
        BY <4>2, <4>3, <4>4, ConcatEmptySeq
    <3> QED
      BY <2>1, <3>1, <3>3
  <2>3. CASE IsToken(t, i)
    <3> DEFINE e == NameEnd(t, i + 1)
               name == NameFrom(t, i)
               x == Token(name)
               u == SubSeq(t, i, e)
               L == Len(name)
    <3>1. e \in i + 1 .. n /\ name \in Seq(Byte)
      BY <2>3, TokenFacts
    <3>2. After(t, i) = e + 1 /\ PieceOf(t, secrets, {}, i) = x
      BY <2>3 DEF After, PieceOf
    <3>3. <<i, e>> \in Spans(t)
      BY <2>3, TokensAreSpans
    <3>4. Opens(t, i) /\ Closes(t, e)
      BY <3>3, SpanIs
    <3>5. /\ x \in Seq(Byte) /\ Len(x) = L + 2 /\ Opens(x, 1) /\ Closes(x, L + 2)
          /\ \A k \in 1 .. L : x[k + 1] = name[k]
      BY <3>1, TokenShape DEF Shaped
    <3>6. name = SubSeq(t, i + 1, e - 1)
      BY DEF NameFrom
    <3> HIDE DEF e, name, x
    <3>7. L = e - i - 1 /\ \A k \in 1 .. L : name[k] = t[i + k]
      <4> DEFINE a == i + 1
                 b == e - 1
      <4>1. a \in Int /\ b \in Int /\ \A k \in a .. b : k \in 1 .. n
        BY <1>0, <3>1
      <4>2. \A k \in a .. b : t[k] \in Byte
        BY <4>1, ElementOfSeq
      <4>3. (a <= b => b - a + 1 = e - i - 1) /\ (~(a <= b) => 0 = e - i - 1)
            /\ b - a + 1 = e - i - 1 /\ \A k \in 1 .. e - i - 1 : a + k - 1 = i + k
        BY <1>0, <3>1
      <4>4. name = SubSeq(t, a, b)
        BY <3>6
      <4> HIDE DEF a, b
      <4>5. /\ Len(name) = IF a <= b THEN b - a + 1 ELSE 0
            /\ \A k \in 1 .. b - a + 1 : name[k] = t[a + k - 1]
        BY <4>1, <4>2, <4>4, SubSeqProperties
      <4> QED
        BY <4>3, <4>5
    <3>8. /\ u \in Seq(Byte) /\ Len(u) = e - i + 1
          /\ \A k \in 1 .. e - i + 1 : u[k] = t[i + k - 1]
      <4>1. i \in Int /\ e \in Int /\ i <= e /\ \A k \in i .. e : k \in 1 .. n
        BY <1>0, <3>1
      <4>2. \A k \in i .. e : t[k] \in Byte
        BY <4>1, ElementOfSeq
      <4> QED
        BY <4>1, <4>2, SubSeqProperties
    <3> HIDE DEF u, L
    <3>a. x[1] = t[i]
      <4> DEFINE c == 1
      <4>1. Opens(x, c) /\ Opens(t, i)
        BY <3>4, <3>5
      <4> HIDE DEF c
      <4>2. x[c] = t[i]
        BY <4>1, SameOpening
      <4> QED
        BY <4>2 DEF c
    <3>b. x[L + 2] = t[e]
      <4> DEFINE c == L + 2
      <4>1. Closes(x, c)
        BY <3>5
      <4> HIDE DEF c
      <4>2. x[c] = t[e]
        BY <3>4, <4>1, SameClosing
      <4> QED
        BY <4>2 DEF c
    <3>9. L \in Nat /\ Len(x) = Len(u)
      BY <1>0, <3>1, <3>5, <3>7, <3>8
    <3>10. ASSUME NEW k \in 1 .. Len(x) PROVE x[k] = u[k]
      <4>0. u[k] = t[i + k - 1]
        BY <3>8, <3>9
      <4>1. CASE k = 1
        <5>1. i + k - 1 = i
          BY <1>0, <4>1
        <5> QED
          BY <3>a, <4>0, <4>1, <5>1
      <4>2. CASE k = L + 2
        <5>1. i + k - 1 = e
          BY <1>0, <3>1, <3>7, <4>2
        <5> QED
          BY <3>b, <4>0, <4>2, <5>1
      <4>3. CASE k # 1 /\ k # L + 2
        <5>1. k - 1 \in 1 .. L /\ (k - 1) + 1 = k /\ i + (k - 1) = i + k - 1
          BY <1>0, <3>5, <3>9, <4>3
        <5>2. x[k] = name[k - 1] /\ name[k - 1] = t[i + (k - 1)]
          BY <3>5, <3>7, <5>1
        <5> QED
          BY <4>0, <5>1, <5>2
      <4> QED
        BY <4>1, <4>2, <4>3
    <3>11. x = u
      BY <3>5, <3>8, <3>9, <3>10, SeqEqual
    <3>12. (e + 1) - 1 = e
      BY <1>0, <3>1
    <3> QED
      BY <2>1, <3>2, <3>11, <3>12 DEF u
  <2> QED
    BY <2>2, <2>3
<1> HIDE DEF n
<1>3. \A i \in 1 .. n + 1 : i > n => SubSeq(t, i, n) = <<>>
  BY <1>0, SubSeqEmpty
<1>4. 0 \in K
  <2>1. \A i \in 1 .. n + 1 : i >= n + 1 - 0 => i > n
    BY <1>0
  <2> QED
    BY <1>1, <1>3, <2>1
<1>5. ASSUME NEW k \in Nat, k \in K PROVE k + 1 \in K
  <2> SUFFICES ASSUME NEW i \in 1 .. n + 1, i >= n + 1 - (k + 1)
               PROVE  r[i] = SubSeq(t, i, n)
    OBVIOUS
  <2>1. CASE i > n
    BY <1>1, <1>3, <2>1
  <2>2. CASE ~(i > n)
    <3> DEFINE a == After(t, i)
    <3>1. i \in 1 .. n
      BY <1>0, <2>2
    <3>2. a \in i + 1 .. n + 1 /\ PieceOf(t, secrets, {}, i) = SubSeq(t, i, a - 1)
      BY <1>2, <3>1
    <3>3. r[i] = PieceOf(t, secrets, {}, i) \o r[a]
      BY <1>1, <2>2
    <3> HIDE DEF a
    <3>4. /\ a \in 1 .. n + 1 /\ a >= n + 1 - k /\ (a - 1) + 1 = a
          /\ a - 1 \in i - 1 .. n /\ n \in a - 1 .. n
      BY <1>0, <3>1, <3>2
    <3>5. r[a] = SubSeq(t, a, n)
      BY <1>5, <3>4
    <3> DEFINE c == a - 1
    <3>6. c + 1 = a /\ c \in i - 1 .. n /\ n \in c .. n
      BY <3>4
    <3>7. r[i] = SubSeq(t, i, c) \o SubSeq(t, c + 1, n)
      BY <3>2, <3>3, <3>5, <3>6
    <3> HIDE DEF c
    <3>8. SubSeq(t, i, c) \o SubSeq(t, c + 1, n) = SubSeq(t, i, n)
      BY <3>6, ConcatAdjacentSubSeq DEF n
    <3> QED
      BY <3>7, <3>8
  <2> QED
    BY <2>1, <2>2
<1> HIDE DEF K
<1>6. n \in K
  BY <1>0, <1>4, <1>5, InductionOnNat
<1>7. 1 \in 1 .. n + 1 /\ 1 >= n + 1 - n
  BY <1>0
<1>8. r[1] = SubSeq(t, 1, n)
  BY <1>6, <1>7 DEF K
<1> QED
  BY <1>8, SubSeqFull DEF n

(* The equation of Simultaneous.                                           *)
SpanFrom(t, i) == CHOOSE s \in Spans(t) : s[1] = i

OnceFrom(r, t, secrets, i) ==
    IF i > Len(t) THEN <<>>
    ELSE IF \E s \in Spans(t) : s[1] = i
         THEN secrets[NameAt(t, SpanFrom(t, i))] \o r[SpanFrom(t, i)[2] + 1]
    ELSE <<t[i]>> \o r[i + 1]

AtOnce(r, t, secrets) ==
    r = [i \in 1 .. Len(t) + 1 |-> OnceFrom(r, t, secrets, i)]

(* Simultaneous is the solution of its equation.                           *)
LEMMA SimultaneousIs ==
  ASSUME NEW t, NEW secrets
  PROVE  Simultaneous(t, secrets) = (CHOOSE r : AtOnce(r, t, secrets))[1]
BY DEF Simultaneous, AtOnce, OnceFrom, SpanFrom

(* With every name replaced it is the simultaneous substitution.           *)
LEMMA PartlyAll ==
  ASSUME NEW t \in Seq(Byte), NEW secrets, NEW D,
         \A n \in D : secrets[n] \in Seq(Byte),
         \A s \in Spans(t) : NameAt(t, s) \in D,
         NEW r, Partly(r, t, secrets, D)
  PROVE  Simultaneous(t, secrets) = r[1]
<1> DEFINE n == Len(t)
           piece == [i \in 1 .. n |-> PieceOf(t, secrets, D, i)]
           next == [i \in 1 .. n |-> After(t, i)]
           Line(q, i) == IF i > n THEN <<>>
                         ELSE PieceOf(t, secrets, D, i) \o q[After(t, i)]
<1>0. n \in Nat
  BY LenProperties
<1>1. Steps(n, next)
  BY PieceTypes DEF Steps
<1>2. \A i \in 1 .. n : (\E s \in Spans(t) : s[1] = i) <=> IsToken(t, i)
  BY SpansOfTokens
<1>3. \A q : AtOnce(q, t, secrets) <=> q = [i \in 1 .. n + 1 |-> Line(q, i)]
  <2> SUFFICES \A q : \A i \in 1 .. n + 1 : Line(q, i) = OnceFrom(q, t, secrets, i)
    <3> HIDE DEF Line
    <3> QED
      BY DEF AtOnce
  <2> SUFFICES ASSUME NEW q, NEW i \in 1 .. n + 1
               PROVE  Line(q, i) = OnceFrom(q, t, secrets, i)
    OBVIOUS
  <2>1. CASE i > n
    BY <2>1 DEF OnceFrom
  <2>2. CASE ~(i > n)
    <3>1. i \in 1 .. n
      BY <1>0, <2>2
    <3>2. CASE ~IsToken(t, i)
      BY <1>2, <2>2, <3>1, <3>2 DEF PieceOf, After, OnceFrom
    <3>3. CASE IsToken(t, i)
      <4> DEFINE s == SpanFrom(t, i)
      <4>1. s \in Spans(t) /\ s[1] = i
        BY <1>2, <3>1, <3>3 DEF SpanFrom
      <4> HIDE DEF s
      <4>2. s = <<i, s[2]>>
        BY <4>1, SpanPair
      <4>3. <<i, s[2]>> \in Spans(t)
        BY <4>1, <4>2
      <4>4. s[2] = NameEnd(t, i + 1)
        BY <3>1, <4>3, TokensAreSpans
      <4>5. NameAt(t, s) = NameFrom(t, i) /\ NameAt(t, s) \in D
        BY <4>1, SpansOfTokens
      <4>6. Line(q, i) = secrets[NameAt(t, s)] \o q[s[2] + 1]
        BY <2>2, <3>3, <4>4, <4>5 DEF PieceOf, After
      <4> QED
        BY <1>2, <2>2, <3>1, <3>3, <4>6 DEF s, OnceFrom
    <3> QED
      BY <3>2, <3>3
  <2> QED
    BY <2>1, <2>2
<1>4. \A q, i : i \in 1 .. n + 1 => Line(q, i) = Joined(q, piece, next, n, i)
  <2>1. \A i \in 1 .. n + 1 : i > n \/ i \in 1 .. n
    BY <1>0
  <2> QED
    BY <2>1 DEF Joined
<1>5. r = [i \in 1 .. n + 1 |-> Line(r, i)]
  BY DEF Partly
<1> HIDE DEF Line, piece, next
<1>6. AtOnce(r, t, secrets)
  BY <1>3, <1>5
<1> DEFINE q == CHOOSE p : AtOnce(p, t, secrets)
<1>7. AtOnce(q, t, secrets)
  BY <1>6, Zenon
<1>8. Simultaneous(t, secrets) = q[1]
  BY SimultaneousIs
<1> HIDE DEF q
<1>9. q = [i \in 1 .. n + 1 |-> Line(q, i)]
  BY <1>3, <1>7
<1>10. Solves(r, piece, next, n)
  BY <1>4, <1>5 DEF Solves
<1>11. Solves(q, piece, next, n)
  BY <1>4, <1>9 DEF Solves
<1>12. \A i \in 1 .. n + 1 : q[i] = r[i]
  <2> HIDE DEF n
  <2> QED
    BY <1>0, <1>1, <1>10, <1>11, SolutionsAgree
<1>13. 1 \in 1 .. n + 1
  BY <1>0
<1> QED
  BY <1>8, <1>12, <1>13

(* The fold of substitute, one name after the other.                       *)
SubStep(secrets, text, name) ==
    IF text = Err \/ name \notin DOMAIN secrets THEN Err
    ELSE Replace(text, Token(name), secrets[name])

SubFold(g, t, secrets, names) ==
    g = [s \in SUBSET DOMAIN names |->
            IF s = {} THEN t
            ELSE SubStep(secrets, g[s \ {Max(s)}], names[Max(s)])]

(* substitute, as the solution of the recursion in its fold.               *)
LEMMA SubstituteIs ==
  ASSUME NEW t, NEW secrets
  PROVE  substitute(t, secrets) =
            (CHOOSE g : SubFold(g, t, secrets, parse_placeholders(t)))
                [DOMAIN parse_placeholders(t)]
BY DEF substitute, FoldLeft, MapThenFoldSet, SubFold, SubStep

(* Replacing text by text yields text.                                     *)
LEMMA ReplaceType ==
  ASSUME NEW t \in Seq(STRING), NEW from \in Seq(Byte), from # <<>>,
         NEW to \in Seq(STRING)
  PROVE  Replace(t, from, to) \in Seq(STRING)
<1>1. Len(from) \in Nat \ {0}
  BY LenProperties, EmptySeq
<1> DEFINE S == STRING
<1>0. t \in Seq(S) /\ to \in Seq(S)
  OBVIOUS
<1> HIDE DEF S
<1>2. Unfolds(S, t, from, to)
  BY <1>0, <1>1, ReplaceUnfoldsAny
<1>3. PICK r \in [1 .. Len(t) + 1 -> Seq(S)] : Replace(t, from, to) = r[1]
  BY <1>2 DEF Unfolds
<1>4. 1 \in 1 .. Len(t) + 1
  BY <1>0, LenProperties
<1>5. r[1] \in Seq(S)
  BY <1>3, <1>4
<1> QED
  BY <1>3, <1>5 DEF S

(* Every text is a sequence of bytes.                                      *)
LEMMA WiderBytes == \A s \in Seq(STRING) : s \in Seq(Byte)
<1>1. STRING \subseteq Byte
  BY DEF Byte
<1> QED
  BY <1>1, SeqWider

(* The names are texts, one for every token.                               *)
LEMMA ParseType ==
  ASSUME NEW B, NEW t \in Seq(B)
  PROVE  /\ parse_placeholders(t) \in Seq(Seq(B))
         /\ ToSet(parse_placeholders(t)) = {NameAt(t, s) : s \in Spans(t)}
<1> DEFINE x == Scan(t)
<1>1. x \in Seq(Seq(B))
  BY ScanFinds DEF ScanFound
<1>2. parse_placeholders(t) = Dedup(x)
  BY ParseIs
<1> HIDE DEF x
<1>3. Dedup(x) \in Seq(Seq(B))
  BY <1>1, DedupFirsts DEF DedupFound
<1>4. Parsed(t)
  BY ParseFinds
<1> QED
  BY <1>2, <1>3, <1>4 DEF Parsed

(* The texts that substitute goes through.                                 *)
Passes(h, t, secrets, names) ==
    /\ h[0] = t
    /\ \A k \in 0 .. Len(names) - 1 :
          h[k + 1] = SubStep(secrets, h[k], names[k + 1])
    /\ substitute(t, secrets) = h[Len(names)]

Texty(secrets) == \A n \in DOMAIN secrets : secrets[n] \in Seq(STRING)

SubPasses(t, secrets) == \E h : Passes(h, t, secrets, parse_placeholders(t))

(* A step of substitute yields a text or Err.                              *)
LEMMA SubStepType ==
  ASSUME NEW secrets, Texty(secrets), NEW text \in Seq(STRING) \cup {Err},
         NEW name \in Seq(STRING)
  PROVE  SubStep(secrets, text, name) \in Seq(STRING) \cup {Err}
<1>1. CASE text = Err \/ name \notin DOMAIN secrets
  BY <1>1 DEF SubStep
<1>2. CASE ~(text = Err \/ name \notin DOMAIN secrets)
  <2>1. Token(name) \in Seq(Byte) /\ Token(name) # <<>>
    BY TokenShape, WiderBytes DEF Shaped
  <2>2. Replace(text, Token(name), secrets[name]) \in Seq(STRING)
    BY <1>2, <2>1, ReplaceType DEF Texty
  <2> QED
    BY <1>2, <2>2 DEF SubStep
<1> QED
  BY <1>1, <1>2

(* substitute goes through the names from the first to the last.           *)
LEMMA SubstituteSteps ==
  ASSUME NEW t \in Seq(STRING), NEW secrets, Texty(secrets)
  PROVE  SubPasses(t, secrets)
<1> DEFINE names == parse_placeholders(t)
           n == Len(names)
           V == Seq(STRING) \cup {Err}
           step == [p \in V \X (1 .. n) |-> SubStep(secrets, p[1], names[p[2]])]
<1>a. names \in Seq(Seq(STRING))
  BY ParseType
<1> HIDE DEF names
<1>0. n \in Nat /\ DOMAIN names = 1 .. n /\ \A i \in 1 .. n : names[i] \in Seq(STRING)
  BY <1>a, LenProperties, ElementOfSeq
<1>1. step \in [V \X (1 .. n) -> V]
  BY <1>0, SubStepType
<1>2. \A u \in V, i \in 1 .. n : step[<<u, i>>] = SubStep(secrets, u, names[i])
  OBVIOUS
<1>3. t \in V
  OBVIOUS
<1> HIDE DEF step, V, n
<1>b. FoldDefined(t, step, V, n)
  BY <1>0, <1>1, <1>3, FoldExists
<1>4. PICK g \in [SUBSET (1 .. n) -> V] : \A s \in SUBSET (1 .. n) :
         g[s] = IF s = {} THEN t ELSE step[<<g[s \ {Max(s)}], Max(s)>>]
  BY <1>b DEF FoldDefined
<1>5. \A s \in SUBSET (1 .. n) :
         g[s] = IF s = {} THEN t
                ELSE SubStep(secrets, g[s \ {Max(s)}], names[Max(s)])
  <2> SUFFICES ASSUME NEW s \in SUBSET (1 .. n), s # {}
               PROVE  g[s] = SubStep(secrets, g[s \ {Max(s)}], names[Max(s)])
    BY <1>4
  <2>1. Max(s) \in 1 .. n
    BY <1>0, MaxOf
  <2>2. g[s \ {Max(s)}] \in V
    OBVIOUS
  <2> QED
    BY <1>2, <1>4, <2>1, <2>2
<1>6. SubFold(g, t, secrets, names)
  BY <1>0, <1>5 DEF SubFold
<1> DEFINE q == CHOOSE p : SubFold(p, t, secrets, names)
<1>7. SubFold(q, t, secrets, names)
  BY <1>6, Zenon
<1>8. substitute(t, secrets) = q[1 .. n]
  BY <1>0, SubstituteIs DEF names
<1> HIDE DEF q
<1>9. \A s \in SUBSET (1 .. n) :
         q[s] = IF s = {} THEN t
                ELSE SubStep(secrets, q[s \ {Max(s)}], names[Max(s)])
  BY <1>0, <1>7 DEF SubFold
<1> DEFINE h == [k \in 0 .. n |-> q[1 .. k]]
<1>10. h[0] = t
  <2>1. 1 .. 0 = {} /\ 0 \in 0 .. n
    BY <1>0
  <2>2. q[{}] = t
    BY <1>9
  <2> QED
    BY <2>1, <2>2
<1>11. ASSUME NEW k \in 0 .. n - 1
       PROVE  h[k + 1] = SubStep(secrets, h[k], names[k + 1])
  <2>1. k \in 0 .. n /\ k + 1 \in 0 .. n /\ k + 1 \in Nat \ {0} /\ (k + 1) - 1 = k
        /\ 1 .. k + 1 \in SUBSET (1 .. n)
    BY <1>0
  <2> DEFINE m == k + 1
  <2> HIDE DEF m
  <2>2. Max(1 .. m) = m /\ (1 .. m) \ {m} = 1 .. k /\ 1 .. m # {}
    BY <2>1, MaxOfInterval DEF m
  <2>3. q[1 .. m] = SubStep(secrets, q[1 .. k], names[m])
    BY <1>9, <2>1, <2>2 DEF m
  <2> QED
    BY <2>1, <2>3 DEF m
<1>12. h[n] = q[1 .. n]
  BY <1>0
<1> HIDE DEF h
<1>13. Passes(h, t, secrets, names)
  BY <1>8, <1>10, <1>11, <1>12 DEF Passes, n
<1> QED
  BY <1>13 DEF SubPasses, names

(* It fails exactly where a name has no secret.                            *)
LEMMA FailsIfUnknown ==
  ASSUME NEW t \in Seq(STRING), NEW secrets, Texty(secrets), Err \notin Seq(STRING),
         NEW names \in Seq(Seq(STRING)), NEW h, Passes(h, t, secrets, names)
  PROVE  /\ substitute(t, secrets) \in Seq(STRING) \cup {Err}
         /\ substitute(t, secrets) = Err
               <=> \E i \in 1 .. Len(names) : names[i] \notin DOMAIN secrets
         /\ (\A i \in 1 .. Len(names) : names[i] \in DOMAIN secrets) =>
               \A k \in 0 .. Len(names) : h[k] # Err
<1> DEFINE n == Len(names)
           Unknown(k) == \E i \in 1 .. k : names[i] \notin DOMAIN secrets
           A == {k \in Nat : k <= n =>
                    /\ h[k] \in Seq(STRING) \cup {Err}
                    /\ h[k] = Err <=> Unknown(k)}
<1>0. n \in Nat /\ \A i \in 1 .. n : names[i] \in Seq(STRING)
  BY LenProperties, ElementOfSeq
<1>1. /\ h[0] = t
      /\ \A k \in 0 .. n - 1 : h[k + 1] = SubStep(secrets, h[k], names[k + 1])
      /\ substitute(t, secrets) = h[n]
  BY DEF Passes
<1> HIDE DEF n
<1>2. 0 \in A
  <2>1. 1 .. 0 = {}
    OBVIOUS
  <2> QED
    BY <1>1, <2>1
<1>3. ASSUME NEW k \in Nat, k \in A PROVE k + 1 \in A
  <2> SUFFICES ASSUME k + 1 <= n
               PROVE  /\ h[k + 1] \in Seq(STRING) \cup {Err}
                      /\ h[k + 1] = Err <=> Unknown(k + 1)
    OBVIOUS
  <2> DEFINE u == h[k]
             w == h[k + 1]
             name == names[k + 1]
  <2>1. k <= n /\ k \in 0 .. n - 1 /\ k + 1 \in 1 .. n
    BY <1>0
  <2>2. u \in Seq(STRING) \cup {Err} /\ (u = Err <=> Unknown(k))
    BY <1>3, <2>1
  <2>3. w = SubStep(secrets, u, name) /\ name \in Seq(STRING)
    BY <1>0, <1>1, <2>1
  <2>4. Unknown(k + 1) <=> Unknown(k) \/ name \notin DOMAIN secrets
    <3>1. \A i : i \in 1 .. k + 1 <=> i \in 1 .. k \/ i = k + 1
      OBVIOUS
    <3> QED
      BY <3>1
  <2> HIDE DEF u, w, name, Unknown
  <2>5. w \in Seq(STRING) \cup {Err}
    BY <2>2, <2>3, SubStepType
  <2>6. CASE u = Err \/ name \notin DOMAIN secrets
    BY <2>2, <2>3, <2>4, <2>5, <2>6 DEF SubStep, w
  <2>7. CASE ~(u = Err \/ name \notin DOMAIN secrets)
    <3>1. Token(name) \in Seq(Byte) /\ Token(name) # <<>>
      BY <2>3, TokenShape, WiderBytes DEF Shaped
    <3>2. w \in Seq(STRING)
      BY <2>2, <2>3, <2>7, <3>1, ReplaceType DEF SubStep, Texty
    <3> QED
      BY <2>2, <2>4, <2>7, <3>2 DEF w
  <2> QED
    BY <2>6, <2>7
<1> HIDE DEF A
<1>4. \A k \in Nat : k \in A
  BY <1>2, <1>3, InductionOnNat
<1>5. \A k \in 0 .. n : h[k] = Err <=> Unknown(k)
  <2>1. \A k \in 0 .. n : k \in Nat /\ k <= n
    BY <1>0
  <2> QED
    BY <1>4, <2>1 DEF A
<1>6. h[n] \in Seq(STRING) \cup {Err} /\ (h[n] = Err <=> Unknown(n))
  <2>1. n \in 0 .. n /\ n <= n /\ n \in A
    BY <1>0, <1>4
  <2>2. h[n] \in Seq(STRING) \cup {Err}
    BY <2>1 DEF A
  <2> QED
    BY <1>5, <2>1, <2>2
<1>7. \A k \in 0 .. n : \A i \in 1 .. k : i \in 1 .. n
  BY <1>0
<1> QED
  BY <1>1, <1>5, <1>6, <1>7 DEF n

(* Otherwise every step replaces one more name.                            *)
Replaced(x, t, secrets, D) == \E r : Partly(r, t, secrets, D) /\ x = r[1]

(* In the end every name is replaced.                                      *)
LEMMA PassesPartly ==
  ASSUME NEW t \in Seq(Byte), ~Nested(t), NEW secrets,
         Plain(secrets, DOMAIN secrets), NEW names \in Seq(Seq(Byte)),
         \A i \in 1 .. Len(names) : names[i] \in DOMAIN secrets /\ IsName(names[i]),
         NEW h, Passes(h, t, secrets, names),
         \A k \in 0 .. Len(names) : h[k] # Err
  PROVE  Replaced(substitute(t, secrets), t, secrets,
                  {names[i] : i \in 1 .. Len(names)})
<1> DEFINE n == Len(names)
           D(k) == {names[i] : i \in 1 .. k}
           A == {k \in Nat : k <= n => Replaced(h[k], t, secrets, D(k))}
<1>0. n \in Nat /\ \A i \in 1 .. n : names[i] \in Seq(Byte)
  BY LenProperties, ElementOfSeq
<1>1. /\ h[0] = t
      /\ \A k \in 0 .. n - 1 : h[k + 1] = SubStep(secrets, h[k], names[k + 1])
      /\ substitute(t, secrets) = h[n]
  BY DEF Passes
<1>2. \A i \in 1 .. n : names[i] \in DOMAIN secrets /\ IsName(names[i])
  OBVIOUS
<1>a. \A k \in 0 .. n : h[k] # Err
  OBVIOUS
<1> HIDE DEF n
<1>3. \A k \in Nat : k <= n => Plain(secrets, D(k))
  <2>1. \A k \in Nat : k <= n => \A i \in 1 .. k : i \in 1 .. n
    BY <1>0
  <2> QED
    BY <1>2, <2>1 DEF Plain
<1>4. 0 \in A
  <2>1. D(0) = {}
    OBVIOUS
  <2>2. PartlyExists(t, secrets, D(0))
    BY <2>1, PartlyDefined
  <2>3. PICK r : Partly(r, t, secrets, D(0))
    BY <2>2 DEF PartlyExists
  <2>4. r[1] = t
    BY <2>1, <2>3, PartlyNone
  <2> QED
    BY <1>1, <2>3, <2>4 DEF Replaced
<1>5. ASSUME NEW k \in Nat, k \in A PROVE k + 1 \in A
  <2> SUFFICES ASSUME k + 1 <= n
               PROVE  Replaced(h[k + 1], t, secrets, D(k + 1))
    OBVIOUS
  <2> DEFINE d == names[k + 1]
             E == D(k)
  <2>1. k <= n /\ k \in 0 .. n - 1 /\ k + 1 \in 1 .. n /\ k \in 0 .. n /\ k + 1 \in Nat
    BY <1>0
  <2>2. PICK r : Partly(r, t, secrets, E) /\ h[k] = r[1]
    BY <1>5, <2>1 DEF Replaced
  <2>3. D(k + 1) = E \cup {d}
    <3>1. \A i : i \in 1 .. k + 1 <=> i \in 1 .. k \/ i = k + 1
      OBVIOUS
    <3> QED
      BY <3>1
  <2>4. Plain(secrets, E \cup {d})
    BY <1>3, <2>1, <2>3
  <2>5. d \in Seq(Byte) /\ IsName(d) /\ d \in DOMAIN secrets
    BY <1>0, <1>2, <2>1
  <2>6. h[k + 1] = Replace(h[k], Token(d), secrets[d])
    BY <1>1, <1>a, <2>1, <2>5 DEF SubStep
  <2> HIDE DEF E, d, D
  <2>7. PartlyExists(t, secrets, E \cup {d})
    BY <2>4, PartlyDefined DEF Plain
  <2>8. PICK q : Partly(q, t, secrets, E \cup {d})
    BY <2>7 DEF PartlyExists
  <2>9. LeadsTo(r, q, secrets, d)
    BY <2>2, <2>4, <2>5, <2>8, ReplaceMore
  <2> QED
    BY <2>2, <2>3, <2>6, <2>8, <2>9 DEF Replaced, LeadsTo
<1> HIDE DEF A
<1>6. n \in A
  BY <1>0, <1>4, <1>5, InductionOnNat
<1>7. Replaced(h[n], t, secrets, D(n))
  BY <1>0, <1>6 DEF A
<1> QED
  BY <1>1, <1>7 DEF n

(* substitute of any text, whatever the secrets.                           *)
LEMMA SubstituteFacts ==
  ASSUME NEW t \in Seq(STRING), NEW secrets, Texty(secrets), Err \notin Seq(STRING)
  PROVE  /\ substitute(t, secrets) \in Seq(STRING) \cup {Err}
         /\ substitute(t, secrets) = Err <=> ~AllKnown(t, secrets)
         /\ AllKnown(t, secrets) /\ OrderFree(t, secrets) =>
               substitute(t, secrets) = Simultaneous(t, secrets)
<1> DEFINE names == parse_placeholders(t)
           n == Len(names)
<1>1. /\ names \in Seq(Seq(STRING))
      /\ ToSet(names) = {NameAt(t, s) : s \in Spans(t)}
  BY ParseType
<1>2. PICK h : Passes(h, t, secrets, names)
  BY SubstituteSteps DEF SubPasses
<1> HIDE DEF names
<1>3. n \in Nat /\ DOMAIN names = 1 .. n /\ \A i \in 1 .. n : names[i] \in Seq(STRING)
  BY <1>1, LenProperties, ElementOfSeq
<1>4. \A d : (\E i \in 1 .. n : names[i] = d) <=> (\E s \in Spans(t) : NameAt(t, s) = d)
  BY <1>1, <1>3 DEF ToSet
<1>5. AllKnown(t, secrets) <=> \A i \in 1 .. n : names[i] \in DOMAIN secrets
  BY <1>4 DEF AllKnown
<1>6. /\ substitute(t, secrets) \in Seq(STRING) \cup {Err}
      /\ substitute(t, secrets) = Err
            <=> \E i \in 1 .. n : names[i] \notin DOMAIN secrets
      /\ (\A i \in 1 .. n : names[i] \in DOMAIN secrets) => \A k \in 0 .. n : h[k] # Err
  BY <1>1, <1>2, FailsIfUnknown
<1>7. ASSUME AllKnown(t, secrets), OrderFree(t, secrets)
      PROVE  substitute(t, secrets) = Simultaneous(t, secrets)
  <2> DEFINE D == {names[i] : i \in 1 .. n}
  <2>1. t \in Seq(Byte) /\ \A i \in 1 .. n : names[i] \in Seq(Byte)
    BY <1>3, WiderBytes
  <2>2. names \in Seq(Seq(Byte))
    <3>1. Seq(STRING) \subseteq Seq(Byte)
      BY WiderBytes
    <3> QED
      BY <1>1, <3>1, SeqWider
  <2>3. Plain(secrets, DOMAIN secrets)
    <3> SUFFICES ASSUME NEW d \in DOMAIN secrets
                 PROVE  secrets[d] \in Seq(Byte) /\ Unbraced(secrets[d])
      BY DEF Plain
    <3>1. secrets[d] \in Seq(Byte)
      BY WiderBytes DEF Texty
    <3>2. ~HasBrace(secrets[d])
      BY <1>7 DEF OrderFree
    <3> QED
      BY <3>1, <3>2, UnbracedIs
  <2>4. \A i \in 1 .. n : IsName(names[i])
    <3> SUFFICES ASSUME NEW i \in 1 .. n PROVE IsName(names[i])
      OBVIOUS
    <3>1. PICK s \in Spans(t) : NameAt(t, s) = names[i]
      BY <1>4
    <3>2. s[1] \in 1 .. Len(t) /\ IsToken(t, s[1]) /\ NameAt(t, s) = NameFrom(t, s[1])
      BY <2>1, SpansOfTokens
    <3>3. IsName(NameFrom(t, s[1]))
      BY <2>1, <3>2, TokenNamed
    <3> QED
      BY <3>1, <3>2, <3>3
  <2>5. ~Nested(t)
    BY <1>7 DEF OrderFree
  <2>6. \A i \in 1 .. n : names[i] \in DOMAIN secrets
    BY <1>5, <1>7
  <2>7. \A k \in 0 .. n : h[k] # Err
    BY <1>6, <2>6
  <2>8. Replaced(substitute(t, secrets), t, secrets, D)
    BY <1>2, <2>1, <2>2, <2>3, <2>4, <2>5, <2>6, <2>7, PassesPartly
  <2>9. PICK r : Partly(r, t, secrets, D) /\ substitute(t, secrets) = r[1]
    BY <2>8 DEF Replaced
  <2>10. \A d \in D : secrets[d] \in Seq(Byte)
    BY <2>3, <2>6 DEF Plain
  <2>11. \A s \in Spans(t) : NameAt(t, s) \in D
    BY <1>4
  <2> HIDE DEF D
  <2> QED
    BY <2>1, <2>9, <2>10, <2>11, PartlyAll
<1> QED
  BY <1>5, <1>6, <1>7

(* A call of substitute that has returned is the call that was made.       *)
Substituted ==
    fn = "substitute" =>
        /\ arg \in Substitutions
        /\ out # None => out = substitute(arg.text, arg.secrets)

(* Substituted is an invariant.                                            *)
LEMMA SubstitutedInit == Init => Substituted
BY DEF Init, Substituted

LEMMA SubstitutedStep == Substituted /\ [Next]_vars => Substituted'
<1> SUFFICES ASSUME Substituted, [Next]_vars PROVE Substituted'
  OBVIOUS
<1>1. CASE Substitute
  BY <1>1 DEF Substitute, Called, Substituted
<1>2. CASE ParsePlaceholders \/ ScrubResponse \/ SubstituteTemplate \/ ParseAmount
  <2>1. fn' = fn /\ fn # "substitute"
    BY <1>2 DEF ParsePlaceholders, ScrubResponse, SubstituteTemplate, ParseAmount,
                Called
  <2> QED
    BY <2>1 DEF Substituted
<1>3. CASE UNCHANGED vars
  BY <1>3 DEF Substituted, vars
<1> QED
  BY <1>1, <1>2, <1>3 DEF Next

(* substitute is the simultaneous substitution, in every text without      *)
(* nested braces and for all values without braces, although it replaces   *)
(* one name after the other; and it fails exactly if a placeholder of the  *)
(* text has no secret, whatever the text and the values are.               *)
THEOREM SubstitutionHolds == Spec => []SubstitutesAtOnce
<1>1. Init => Substituted
  BY SubstitutedInit
<1>2. Substituted /\ [Next]_vars => Substituted'
  BY SubstitutedStep
<1>3. Substituted => SubstitutesAtOnce
  <2> DEFINE t == arg.text
             secrets == arg.secrets
  <2> SUFFICES ASSUME Substituted, Returned("substitute")
               PROVE  /\ out = Err <=> ~AllKnown(t, secrets)
                      /\ out # Err /\ OrderFree(t, secrets) =>
                            out = Simultaneous(t, secrets)
    BY DEF SubstitutesAtOnce
  <2>1. arg \in Substitutions /\ out = substitute(t, secrets)
    BY DEF Substituted, Returned
  <2>2. t \in Seq(STRING) /\ Texty(secrets) /\ Err \notin Seq(STRING)
    BY <2>1, SubstitutionAssumption DEF Texty
  <2> HIDE DEF t, secrets
  <2>3. /\ substitute(t, secrets) = Err <=> ~AllKnown(t, secrets)
        /\ AllKnown(t, secrets) /\ OrderFree(t, secrets) =>
              substitute(t, secrets) = Simultaneous(t, secrets)
    BY <2>2, SubstituteFacts
  <2> QED
    BY <2>1, <2>3
<1> QED
  BY <1>1, <1>2, <1>3, PTL DEF Spec

-----------------------------------------------------------------------------
(* Templates.  The elements of a sequence, of two in a row, and of a       *)
(* sequence of sequences.                                                  *)
LEMMA ElementsOf ==
  ASSUME NEW S, NEW s \in Seq(S)
  PROVE  \A x : x \in ToSet(s) <=> \E i \in 1 .. Len(s) : x = s[i]
<1>1. DOMAIN s = 1 .. Len(s)
  BY LenProperties
<1> QED
  BY <1>1 DEF ToSet

(* The elements of two sequences in a row.                                 *)
LEMMA ElementsConcat ==
  ASSUME NEW S, NEW a \in Seq(S), NEW b \in Seq(S)
  PROVE  ToSet(a \o b) = ToSet(a) \cup ToSet(b)
<1> DEFINE c == a \o b
           m == Len(a)
           n == Len(b)
<1>0. m \in Nat /\ n \in Nat
  BY LenProperties
<1>1. c \in Seq(S) /\ Len(c) = m + n
      /\ \A i \in 1 .. m + n : c[i] = IF i <= m THEN a[i] ELSE b[i - m]
  BY ConcatProperties
<1> HIDE DEF c
<1>2. /\ \A x : x \in ToSet(a) <=> \E i \in 1 .. m : x = a[i]
      /\ \A x : x \in ToSet(b) <=> \E i \in 1 .. n : x = b[i]
      /\ \A x : x \in ToSet(c) <=> \E i \in 1 .. m + n : x = c[i]
  <2>1. \A x : x \in ToSet(c) <=> \E i \in 1 .. Len(c) : x = c[i]
    BY <1>1, ElementsOf
  <2>2. /\ \A x : x \in ToSet(a) <=> \E i \in 1 .. m : x = a[i]
        /\ \A x : x \in ToSet(b) <=> \E i \in 1 .. n : x = b[i]
    BY ElementsOf
  <2> QED
    BY <1>1, <2>1, <2>2
<1> HIDE DEF m, n
<1>3. ASSUME NEW x \in ToSet(c) PROVE x \in ToSet(a) \cup ToSet(b)
  <2>1. PICK i \in 1 .. m + n : x = c[i]
    BY <1>2
  <2>2. CASE i <= m
    <3>1. i \in 1 .. m
      BY <1>0, <2>2
    <3> QED
      BY <1>1, <1>2, <2>1, <2>2, <3>1
  <2>3. CASE ~(i <= m)
    <3>1. i - m \in 1 .. n
      BY <1>0, <2>3
    <3> QED
      BY <1>1, <1>2, <2>1, <2>3, <3>1
  <2> QED
    BY <2>2, <2>3
<1>4. ASSUME NEW i \in 1 .. m PROVE a[i] \in ToSet(c)
  <2>1. i \in 1 .. m + n /\ i <= m
    BY <1>0
  <2> QED
    BY <1>1, <1>2, <2>1
<1>5. ASSUME NEW i \in 1 .. n PROVE b[i] \in ToSet(c)
  <2> DEFINE j == m + i
  <2>1. j \in 1 .. m + n /\ ~(j <= m) /\ j - m = i
    BY <1>0
  <2> HIDE DEF j
  <2>2. c[j] = b[i]
    BY <1>1, <2>1
  <2> QED
    BY <1>2, <2>1, <2>2
<1>6. ToSet(a) \subseteq ToSet(c) /\ ToSet(b) \subseteq ToSet(c)
  BY <1>2, <1>4, <1>5
<1> QED
  BY <1>3, <1>6 DEF c

(* The element of a sequence of one.                                       *)
LEMMA ElementsOne ==
  ASSUME NEW S, NEW x \in S
  PROVE  <<x>> \in Seq(S) /\ ToSet(<<x>>) = {x}
<1>1. <<x>> \in Seq(S) /\ Len(<<x>>) = 1 /\ <<x>>[1] = x
  OBVIOUS
<1> DEFINE s == <<x>>
<1> HIDE DEF s
<1>2. \A y : y \in ToSet(s) <=> \E i \in 1 .. Len(s) : y = s[i]
  BY <1>1, ElementsOf DEF s
<1>3. Len(s) = 1 /\ s[1] = x
  BY <1>1 DEF s
<1>4. \A i \in 1 .. 1 : i = 1
  OBVIOUS
<1>5. 1 \in 1 .. 1
  OBVIOUS
<1>6. ToSet(s) = {x}
  BY <1>2, <1>3, <1>4, <1>5
<1> QED
  BY <1>1, <1>6 DEF s

(* The equation of the recursion in FlattenSeq.                            *)
FlatFrom(f, seqs, i) == IF i = 1 THEN seqs[i] ELSE f[i - 1] \o seqs[i]

Flat(f, seqs) == f = [i \in 1 .. Len(seqs) |-> FlatFrom(f, seqs, i)]

(* FlattenSeq is the last value of the solution.                           *)
LEMMA FlattenIs ==
  ASSUME NEW seqs, Len(seqs) # 0
  PROVE  FlattenSeq(seqs) = (CHOOSE f : Flat(f, seqs))[Len(seqs)]
BY DEF FlattenSeq, Flat, FlatFrom

FlatUpTo(f, seqs, k) == \A i \in 1 .. k : f[i] = FlatFrom(f, seqs, i)

(* There is a solution.                                                    *)
LEMMA FlatExists ==
  ASSUME NEW S, NEW seqs \in Seq(Seq(S))
  PROVE  \E f : Flat(f, seqs)
<1> DEFINE n == Len(seqs)
           F == [1 .. n -> Seq(S)]
           K == {k \in Nat : k <= n => \E f \in F : FlatUpTo(f, seqs, k)}
<1>0. n \in Nat /\ \A i \in 1 .. n : seqs[i] \in Seq(S)
  BY LenProperties, ElementOfSeq
<1> HIDE DEF n
<1>1. 0 \in K
  <2> DEFINE f == [i \in 1 .. n |-> seqs[i]]
  <2>1. f \in F
    BY <1>0
  <2>2. 1 .. 0 = {}
    OBVIOUS
  <2>3. FlatUpTo(f, seqs, 0)
    BY <2>2 DEF FlatUpTo
  <2> QED
    BY <2>1, <2>3
<1>2. ASSUME NEW k \in Nat, k \in K PROVE k + 1 \in K
  <2> SUFFICES ASSUME k + 1 <= n
               PROVE  \E f \in F : FlatUpTo(f, seqs, k + 1)
    OBVIOUS
  <2>1. k <= n /\ k + 1 \in 1 .. n /\ \A i \in 1 .. k : i \in 1 .. n /\ i # k + 1
    BY <1>0
  <2>2. PICK f \in F : FlatUpTo(f, seqs, k)
    BY <1>2, <2>1
  <2> DEFINE v == FlatFrom(f, seqs, k + 1)
             g == [f EXCEPT ![k + 1] = v]
  <2>3. v \in Seq(S)
    <3>1. CASE k + 1 = 1
      BY <1>0, <2>1, <3>1 DEF FlatFrom
    <3>2. CASE k + 1 # 1
      <4>1. (k + 1) - 1 \in 1 .. n
        BY <2>1, <3>2
      <4>2. f[(k + 1) - 1] \in Seq(S) /\ seqs[k + 1] \in Seq(S)
        BY <1>0, <2>1, <4>1
      <4> QED
        BY <3>2, <4>2, ConcatProperties DEF FlatFrom
    <3> QED
      BY <3>1, <3>2
  <2> HIDE DEF v
  <2>4. g \in F /\ g[k + 1] = v /\ \A i \in 1 .. k : g[i] = f[i]
    BY <2>1, <2>3
  <2>5. ASSUME NEW i \in 1 .. k + 1 PROVE g[i] = FlatFrom(g, seqs, i)
    <3>1. i # 1 => i - 1 \in 1 .. k
      OBVIOUS
    <3>2. FlatFrom(g, seqs, i) = FlatFrom(f, seqs, i)
      BY <2>4, <3>1 DEF FlatFrom
    <3>3. i = k + 1 \/ i \in 1 .. k
      OBVIOUS
    <3> QED
      BY <2>2, <2>4, <3>2, <3>3 DEF FlatUpTo, v
  <2> HIDE DEF g
  <2> QED
    BY <2>4, <2>5 DEF FlatUpTo
<1> HIDE DEF K
<1>3. n \in K
  BY <1>0, <1>1, <1>2, InductionOnNat
<1>4. PICK f \in F : FlatUpTo(f, seqs, n)
  BY <1>0, <1>3 DEF K
<1>5. Flat(f, seqs)
  BY <1>4 DEF FlatUpTo, Flat, n
<1> QED
  BY <1>5

Flattened(S, seqs) ==
    /\ FlattenSeq(seqs) \in Seq(S)
    /\ ToSet(FlattenSeq(seqs)) = UNION {ToSet(seqs[i]) : i \in 1 .. Len(seqs)}

(* FlattenSeq has the elements of all the sequences.                       *)
LEMMA FlattenElements ==
  ASSUME NEW S, NEW seqs \in Seq(Seq(S))
  PROVE  Flattened(S, seqs)
<1> DEFINE n == Len(seqs)
<1>0. n \in Nat /\ \A i \in 1 .. n : seqs[i] \in Seq(S)
  BY LenProperties, ElementOfSeq
<1>1. CASE n = 0
  <2>1. seqs = <<>> /\ FlattenSeq(seqs) = seqs
    BY <1>1, EmptySeq DEF FlattenSeq
  <2>2. FlattenSeq(seqs) \in Seq(S) /\ Len(FlattenSeq(seqs)) = 0
    BY <2>1, EmptySeq
  <2>3. \A x : x \in ToSet(FlattenSeq(seqs))
                 <=> \E i \in 1 .. Len(FlattenSeq(seqs)) : x = FlattenSeq(seqs)[i]
    BY <2>2, ElementsOf
  <2>4. 1 .. 0 = {}
    OBVIOUS
  <2>5. ToSet(FlattenSeq(seqs)) = {}
    BY <2>2, <2>3, <2>4
  <2> QED
    BY <1>1, <2>2, <2>4, <2>5 DEF Flattened
<1>2. CASE n # 0
  <2> DEFINE q == CHOOSE f : Flat(f, seqs)
  <2>1. Flat(q, seqs)
    BY FlatExists, Zenon
  <2>2. FlattenSeq(seqs) = q[n]
    BY <1>2, FlattenIs
  <2> HIDE DEF q, n
  <2>3. \A i \in 1 .. n : q[i] = IF i = 1 THEN seqs[i] ELSE q[i - 1] \o seqs[i]
    BY <2>1 DEF Flat, FlatFrom, n
  <2> DEFINE All(k) == UNION {ToSet(seqs[i]) : i \in 1 .. k}
             P(k) == q[k] \in Seq(S) /\ ToSet(q[k]) = All(k)
             K == {k \in Nat : k \in 1 .. n => P(k)}
  <2>4. 0 \in K
    OBVIOUS
  <2>5. ASSUME NEW k \in Nat, k \in K PROVE k + 1 \in K
    <3> SUFFICES ASSUME k + 1 \in 1 .. n PROVE P(k + 1)
      OBVIOUS
    <3>1. seqs[k + 1] \in Seq(S)
      BY <1>0
    <3>2. All(k + 1) = All(k) \cup ToSet(seqs[k + 1])
      <4>1. \A i : i \in 1 .. k + 1 <=> i \in 1 .. k \/ i = k + 1
        OBVIOUS
      <4> QED
        BY <4>1
    <3>3. CASE k = 0
      <4>1. All(0) = {}
        OBVIOUS
      <4>2. q[k + 1] = seqs[k + 1]
        BY <2>3, <3>3
      <4> HIDE DEF All
      <4> QED
        BY <3>1, <3>2, <3>3, <4>1, <4>2
    <3>4. CASE k # 0
      <4>1. k \in 1 .. n /\ k + 1 # 1 /\ (k + 1) - 1 = k
        BY <1>0, <3>4
      <4>2. q[k] \in Seq(S) /\ ToSet(q[k]) = All(k)
        BY <2>5, <4>1
      <4>3. q[k + 1] = q[k] \o seqs[k + 1]
        BY <2>3, <4>1
      <4> HIDE DEF All
      <4>4. q[k + 1] \in Seq(S)
        BY <3>1, <4>2, <4>3, ConcatProperties
      <4>5. ToSet(q[k + 1]) = ToSet(q[k]) \cup ToSet(seqs[k + 1])
        BY <3>1, <4>2, <4>3, ElementsConcat
      <4> QED
        BY <3>2, <4>2, <4>4, <4>5
    <3> QED
      BY <3>3, <3>4
  <2> HIDE DEF K
  <2>6. n \in K
    BY <1>0, <2>4, <2>5, InductionOnNat
  <2>7. n \in 1 .. n
    BY <1>0, <1>2
  <2>8. P(n)
    BY <2>6, <2>7 DEF K
  <2> QED
    BY <2>2, <2>8 DEF Flattened, n
<1> QED
  BY <1>1, <1>2

(* The texts of a template, in a row.                                      *)
AllTexts(template) ==
    <<template.url>> \o HeaderTexts(template) \o <<template.body>>

TextsOf(template) == {template.url, template.body} \cup ToSet(HeaderTexts(template))

Header == [key: Seq(STRING), value: Seq(STRING)]

Template == [url: Seq(STRING), headers: Seq(Header), body: Seq(STRING)]

(* The elements of a pair.                                                 *)
LEMMA PairElements ==
  ASSUME NEW S, NEW a \in S, NEW b \in S
  PROVE  <<a, b>> \in Seq(S) /\ ToSet(<<a, b>>) = {a, b}
<1> DEFINE s == <<a, b>>
<1>1. s \in Seq(S) /\ Len(s) = 2 /\ s[1] = a /\ s[2] = b
  BY PairOf
<1> HIDE DEF s
<1>2. \A y : y \in ToSet(s) <=> \E i \in 1 .. Len(s) : y = s[i]
  BY <1>1, ElementsOf
<1>3. 1 \in 1 .. 2 /\ 2 \in 1 .. 2 /\ \A i \in 1 .. 2 : i = 1 \/ i = 2
  OBVIOUS
<1>4. ToSet(s) = {a, b}
  BY <1>1, <1>2, <1>3
<1> QED
  BY <1>1, <1>4 DEF s

(* The keys and values of all headers are among HeaderTexts.               *)
LEMMA HeaderElements ==
  ASSUME NEW template \in Template
  PROVE  /\ HeaderTexts(template) \in Seq(Seq(STRING))
         /\ \A i \in 1 .. Len(template.headers) :
               /\ template.headers[i] \in Header
               /\ template.headers[i].key \in ToSet(HeaderTexts(template))
               /\ template.headers[i].value \in ToSet(HeaderTexts(template))
<1> DEFINE T == Seq(STRING)
           hs == template.headers
           n == Len(hs)
           pairs == [i \in DOMAIN hs |-> <<hs[i].key, hs[i].value>>]
<1>1. hs \in Seq(Header) /\ n \in Nat /\ DOMAIN hs = 1 .. n
  BY LenProperties DEF Template
<1>2. \A i \in 1 .. n : hs[i] \in Header
  BY <1>1, ElementOfSeq
<1>3. \A i \in 1 .. n : hs[i].key \in T /\ hs[i].value \in T
  BY <1>2 DEF Header
<1> HIDE DEF T
<1>4. \A i \in 1 .. n : /\ <<hs[i].key, hs[i].value>> \in Seq(T)
                        /\ ToSet(<<hs[i].key, hs[i].value>>) = {hs[i].key, hs[i].value}
  BY <1>3, PairElements
<1>5. pairs \in Seq(Seq(T)) /\ Len(pairs) = n
      /\ \A i \in 1 .. n : ToSet(pairs[i]) = {hs[i].key, hs[i].value}
  <2>1. pairs \in [1 .. n -> Seq(T)]
    BY <1>1, <1>4
  <2>2. pairs \in Seq(Seq(T))
    BY <1>1, <2>1
  <2>3. Len(pairs) = n
    BY <1>1, <2>1
  <2> QED
    BY <1>1, <1>4, <2>2, <2>3
<1>6. HeaderTexts(template) = FlattenSeq(pairs)
  BY DEF HeaderTexts
<1> HIDE DEF pairs, n, hs
<1>7. Flattened(T, pairs)
  BY <1>5, FlattenElements
<1>8. \A i \in 1 .. n : hs[i].key \in ToSet(FlattenSeq(pairs))
                        /\ hs[i].value \in ToSet(FlattenSeq(pairs))
  BY <1>5, <1>7 DEF Flattened
<1> QED
  BY <1>2, <1>6, <1>7, <1>8 DEF Flattened, T, n, hs

(* The texts of a template are its URL, its body and its header texts.     *)
LEMMA TextElements ==
  ASSUME NEW template \in Template
  PROVE  /\ AllTexts(template) \in Seq(Seq(STRING))
         /\ ToSet(AllTexts(template)) = TextsOf(template)
<1> DEFINE T == Seq(STRING)
           u == template.url
           b == template.body
           h == HeaderTexts(template)
<1>1. u \in T /\ b \in T /\ h \in Seq(T)
  BY HeaderElements DEF Template
<1> HIDE DEF T, u, b, h
<1>2. <<u>> \in Seq(T) /\ ToSet(<<u>>) = {u} /\ <<b>> \in Seq(T) /\ ToSet(<<b>>) = {b}
  BY <1>1, ElementsOne
<1> DEFINE x == <<u>>
           y == <<b>>
<1> HIDE DEF x, y
<1>3. x \in Seq(T) /\ ToSet(x) = {u} /\ y \in Seq(T) /\ ToSet(y) = {b}
  BY <1>2 DEF x, y
<1> DEFINE xh == x \o h
           all == xh \o y
<1>4. xh \in Seq(T)
  BY <1>1, <1>3, ConcatProperties
<1>5. ToSet(xh) = ToSet(x) \cup ToSet(h)
  BY <1>1, <1>3, ElementsConcat
<1> HIDE DEF xh
<1>8. all \in Seq(T)
  BY <1>3, <1>4, ConcatProperties
<1>9. ToSet(all) = ToSet(xh) \cup ToSet(y)
  BY <1>3, <1>4, ElementsConcat
<1> HIDE DEF all
<1>10. ToSet(all) = ({u} \cup ToSet(h)) \cup {b}
  BY <1>3, <1>5, <1>9
<1>6. AllTexts(template) = all
  BY DEF AllTexts, all, xh, x, y, u, b, h
<1>7. TextsOf(template) = ({u} \cup ToSet(h)) \cup {b}
  BY DEF TextsOf, u, b, h
<1> QED
  BY <1>6, <1>7, <1>8, <1>10 DEF T

(* Dedup loses no name and adds none.                                      *)
LEMMA DedupElements ==
  ASSUME NEW N, NEW names \in Seq(N)
  PROVE  ToSet(Dedup(names)) = ToSet(names)
<1> DEFINE d == Dedup(names)
<1>1. d \in Seq(N) /\ \E at : Firsts(d, at, names, Len(names))
  BY DedupFirsts DEF DedupFound
<1>2. PICK at : Firsts(d, at, names, Len(names))
  BY <1>1
<1> HIDE DEF d
<1>3. /\ \A x : x \in ToSet(d) <=> \E i \in 1 .. Len(d) : x = d[i]
      /\ \A x : x \in ToSet(names) <=> \E i \in 1 .. Len(names) : x = names[i]
  BY <1>1, ElementsOf
<1>4. /\ \A i \in 1 .. Len(d) : at[i] \in 1 .. Len(names) /\ d[i] = names[at[i]]
      /\ \A m \in 1 .. Len(names) : \E i \in 1 .. Len(d) : d[i] = names[m]
  BY <1>2 DEF Firsts
<1>5. ToSet(d) = ToSet(names)
  BY <1>3, <1>4
<1> QED
  BY <1>5 DEF d

(* collect_all_placeholders returns the names of all the texts.            *)
LEMMA CollectElements ==
  ASSUME NEW template \in Template
  PROVE  ToSet(collect_all_placeholders(template)) =
            UNION {{NameAt(x, s) : s \in Spans(x)} : x \in TextsOf(template)}
<1> DEFINE T == Seq(STRING)
           texts == AllTexts(template)
           n == Len(texts)
           found == [i \in DOMAIN texts |-> parse_placeholders(texts[i])]
           Names(x) == {NameAt(x, s) : s \in Spans(x)}
<1>1. texts \in Seq(T) /\ ToSet(texts) = TextsOf(template)
  BY TextElements
<1>2. collect_all_placeholders(template) = Dedup(FlattenSeq(found))
  BY DEF collect_all_placeholders, AllTexts
<1> HIDE DEF texts
<1>3. n \in Nat /\ DOMAIN texts = 1 .. n /\ \A i \in 1 .. n : texts[i] \in T
  BY <1>1, LenProperties, ElementOfSeq
<1>4. \A i \in 1 .. n : /\ parse_placeholders(texts[i]) \in Seq(T)
                        /\ ToSet(parse_placeholders(texts[i])) = Names(texts[i])
  BY <1>3, ParseType
<1> HIDE DEF T, Names
<1>5. found \in Seq(Seq(T)) /\ Len(found) = n
      /\ \A i \in 1 .. n : ToSet(found[i]) = Names(texts[i])
  <2>1. found \in [1 .. n -> Seq(T)]
    BY <1>3, <1>4
  <2>2. found \in Seq(Seq(T)) /\ Len(found) = n
    BY <1>3, <2>1
  <2> QED
    BY <1>3, <1>4, <2>2
<1> HIDE DEF found, n
<1>6. Flattened(T, found)
  BY <1>5, FlattenElements
<1>7. ToSet(Dedup(FlattenSeq(found))) = ToSet(FlattenSeq(found))
  BY <1>6, DedupElements DEF Flattened
<1>8. ToSet(FlattenSeq(found)) = UNION {Names(texts[i]) : i \in 1 .. n}
  BY <1>5, <1>6 DEF Flattened
<1>9. \A x : x \in TextsOf(template) <=> \E i \in 1 .. n : x = texts[i]
  BY <1>1, ElementsOf DEF n
<1>10. UNION {Names(texts[i]) : i \in 1 .. n}
          = UNION {Names(x) : x \in TextsOf(template)}
  BY <1>9
<1> QED
  BY <1>2, <1>7, <1>8, <1>10 DEF Names


(* The keys and the request that substitute_template builds.               *)
SentKeys(template, secrets) ==
    [i \in DOMAIN template.headers |-> substitute(template.headers[i].key, secrets)]

LastOf(keys, k) == Max({i \in DOMAIN keys : keys[i] = k})

Sent(template, secrets) ==
    LET keys == SentKeys(template, secrets)
    IN  [url |-> substitute(template.url, secrets),
         headers |-> [k \in ToSet(keys) |->
             substitute(template.headers[LastOf(keys, k)].value, secrets)],
         body |-> substitute(template.body, secrets)]

(* If no text fails, substitute_template returns this request.             *)
LEMMA SubstituteTemplateIs ==
  ASSUME NEW template, NEW secrets,
         \A i \in DOMAIN AllTexts(template) :
            substitute(AllTexts(template)[i], secrets) # Err
  PROVE  substitute_template(template, secrets) = Sent(template, secrets)
BY DEF substitute_template, AllTexts, Sent, SentKeys, LastOf

(* Of the headers with one key the last one is found.                      *)
LEMMA LastIs ==
  ASSUME NEW n \in Nat, NEW keys, DOMAIN keys = 1 .. n
  PROVE  /\ \A k \in ToSet(keys) : LastOf(keys, k) \in 1 .. n /\ keys[LastOf(keys, k)] = k
         /\ IsInjective(keys) => \A i \in 1 .. n : LastOf(keys, keys[i]) = i
<1> DEFINE At(k) == {i \in 1 .. n : keys[i] = k}
<1>1. ASSUME NEW k \in ToSet(keys)
      PROVE  LastOf(keys, k) \in At(k)
  <2>1. At(k) \in SUBSET (1 .. n) /\ At(k) # {}
    BY DEF ToSet
  <2>2. LastOf(keys, k) = Max(At(k))
    BY DEF LastOf
  <2> HIDE DEF At
  <2>3. Max(At(k)) \in At(k)
    BY <2>1, MaxOf
  <2> QED
    BY <2>2, <2>3
<1>2. ASSUME IsInjective(keys), NEW i \in 1 .. n
      PROVE  LastOf(keys, keys[i]) = i
  <2> DEFINE j == LastOf(keys, keys[i])
  <2>1. keys[i] \in ToSet(keys)
    BY DEF ToSet
  <2>2. j \in At(keys[i])
    BY <1>1, <2>1
  <2> HIDE DEF j
  <2>3. j \in 1 .. n /\ keys[j] = keys[i]
    BY <2>2
  <2> QED
    BY <1>2, <2>3 DEF IsInjective, j
<1> QED
  BY <1>1, <1>2

(* A secret for every name that collect_all_placeholders returns is a      *)
(* secret for every placeholder of the template.                           *)
LEMMA CollectedKnown ==
  ASSUME NEW template \in Template, NEW secrets,
         ToSet(collect_all_placeholders(template)) \subseteq DOMAIN secrets
  PROVE  \A x \in TextsOf(template) : AllKnown(x, secrets)
<1> SUFFICES ASSUME NEW x \in TextsOf(template), NEW s \in Spans(x)
             PROVE  NameAt(x, s) \in DOMAIN secrets
  BY DEF AllKnown
<1>1. NameAt(x, s) \in UNION {{NameAt(y, r) : r \in Spans(y)} : y \in TextsOf(template)}
  OBVIOUS
<1> QED
  BY <1>1, CollectElements

(* Every text of a template is a text.                                     *)
LEMMA TextsTyped ==
  ASSUME NEW template \in Template
  PROVE  /\ template.url \in TextsOf(template) /\ template.body \in TextsOf(template)
         /\ TextsOf(template) \subseteq Seq(STRING)
         /\ \A i \in 1 .. Len(template.headers) :
               /\ template.headers[i].key \in TextsOf(template)
               /\ template.headers[i].value \in TextsOf(template)
         /\ DOMAIN template.headers = 1 .. Len(template.headers)
         /\ Len(template.headers) \in Nat
<1> DEFINE T == Seq(STRING)
           texts == AllTexts(template)
<1>1. template.url \in TextsOf(template) /\ template.body \in TextsOf(template)
  BY DEF TextsOf
<1>2. \A i \in 1 .. Len(template.headers) :
         /\ template.headers[i].key \in TextsOf(template)
         /\ template.headers[i].value \in TextsOf(template)
  BY HeaderElements DEF TextsOf
<1>3. texts \in Seq(T) /\ ToSet(texts) = TextsOf(template)
  BY TextElements
<1> HIDE DEF T, texts
<1>4. \A x : x \in TextsOf(template) <=> \E i \in 1 .. Len(texts) : x = texts[i]
  BY <1>3, ElementsOf
<1>5. \A i \in 1 .. Len(texts) : texts[i] \in T
  BY <1>3, ElementOfSeq
<1>6. TextsOf(template) \subseteq T
  BY <1>4, <1>5
<1>7. template.headers \in Seq(Header)
  BY DEF Template
<1>8. DOMAIN template.headers = 1 .. Len(template.headers) /\ Len(template.headers) \in Nat
  BY <1>7, LenProperties
<1> QED
  BY <1>1, <1>2, <1>6, <1>8 DEF T

(* What substitute_template returns, then.                                 *)
LEMMA HydratedFacts ==
  ASSUME NEW template \in Template, NEW secrets, Texty(secrets), Err \notin Seq(STRING),
         ToSet(collect_all_placeholders(template)) \subseteq DOMAIN secrets
  PROVE  /\ \A x \in TextsOf(template) :
               /\ substitute(x, secrets) \in Seq(STRING)
               /\ OrderFree(x, secrets) =>
                     substitute(x, secrets) = Simultaneous(x, secrets)
         /\ substitute_template(template, secrets) = Sent(template, secrets)
<1>1. \A x \in TextsOf(template) : x \in Seq(STRING) /\ AllKnown(x, secrets)
  BY CollectedKnown, TextsTyped
<1>2. ASSUME NEW x \in TextsOf(template)
      PROVE  /\ substitute(x, secrets) \in Seq(STRING)
             /\ substitute(x, secrets) # Err
             /\ OrderFree(x, secrets) =>
                   substitute(x, secrets) = Simultaneous(x, secrets)
  <2>1. /\ substitute(x, secrets) \in Seq(STRING) \cup {Err}
        /\ substitute(x, secrets) = Err <=> ~AllKnown(x, secrets)
        /\ AllKnown(x, secrets) /\ OrderFree(x, secrets) =>
              substitute(x, secrets) = Simultaneous(x, secrets)
    BY <1>1, SubstituteFacts
  <2> QED
    BY <1>1, <2>1
<1>3. \A i \in DOMAIN AllTexts(template) : AllTexts(template)[i] \in TextsOf(template)
  <2>1. ToSet(AllTexts(template)) = TextsOf(template)
    BY TextElements
  <2> QED
    BY <2>1 DEF ToSet
<1>4. substitute_template(template, secrets) = Sent(template, secrets)
  BY <1>2, <1>3, SubstituteTemplateIs
<1> QED
  BY <1>2, <1>4

(* A request with these header keys.                                       *)
Requests(keys) ==
    [url: Seq(STRING), headers: [keys -> Seq(STRING)], body: Seq(STRING)]

(* The request is one.                                                     *)
LEMMA SentType ==
  ASSUME NEW template \in Template, NEW secrets,
         \A x \in TextsOf(template) : substitute(x, secrets) \in Seq(STRING)
  PROVE  Sent(template, secrets) \in Requests(ToSet(SentKeys(template, secrets)))
<1> DEFINE T == Seq(STRING)
           n == Len(template.headers)
           keys == SentKeys(template, secrets)
           value(k) == substitute(template.headers[LastOf(keys, k)].value, secrets)
<1>1. n \in Nat /\ DOMAIN keys = 1 .. n
  BY TextsTyped DEF SentKeys
<1>2. \A i \in 1 .. n : substitute(template.headers[i].value, secrets) \in T
  BY TextsTyped
<1>3. \A k \in ToSet(keys) : LastOf(keys, k) \in 1 .. n
  BY <1>1, LastIs
<1>4. \A k \in ToSet(keys) : value(k) \in T
  BY <1>2, <1>3
<1>5. [k \in ToSet(keys) |-> value(k)] \in [ToSet(keys) -> T]
  BY <1>4
<1>6. substitute(template.url, secrets) \in T /\ substitute(template.body, secrets) \in T
  BY TextsTyped
<1> QED
  BY <1>5, <1>6 DEF Sent, Requests

(* The request, if no text depends on the order of the replacements.       *)
LEMMA SentIs ==
  ASSUME NEW template \in Template, NEW secrets,
         \A x \in TextsOf(template) :
            substitute(x, secrets) = Simultaneous(x, secrets)
  PROVE  LET sent == Sent(template, secrets)
             keys == [i \in DOMAIN template.headers |->
                         Simultaneous(template.headers[i].key, secrets)]
         IN  /\ sent.url = Simultaneous(template.url, secrets)
             /\ sent.body = Simultaneous(template.body, secrets)
             /\ DOMAIN sent.headers = ToSet(keys)
             /\ IsInjective(keys) => \A i \in DOMAIN keys :
                   sent.headers[keys[i]] =
                       Simultaneous(template.headers[i].value, secrets)
<1> DEFINE n == Len(template.headers)
           sent == Sent(template, secrets)
           keys == [i \in DOMAIN template.headers |->
                       Simultaneous(template.headers[i].key, secrets)]
<1>1. n \in Nat /\ DOMAIN template.headers = 1 .. n
  BY TextsTyped
<1>2. \A i \in 1 .. n :
         /\ substitute(template.headers[i].key, secrets)
               = Simultaneous(template.headers[i].key, secrets)
         /\ substitute(template.headers[i].value, secrets)
               = Simultaneous(template.headers[i].value, secrets)
  BY TextsTyped
<1>3. SentKeys(template, secrets) = keys
  BY <1>1, <1>2 DEF SentKeys
<1>4. DOMAIN keys = 1 .. n
  BY <1>1
<1> HIDE DEF keys
<1>5. /\ sent.url = substitute(template.url, secrets)
      /\ sent.body = substitute(template.body, secrets)
      /\ sent.headers = [k \in ToSet(keys) |->
             substitute(template.headers[LastOf(keys, k)].value, secrets)]
  BY <1>3 DEF Sent
<1> HIDE DEF sent
<1>6. sent.url = Simultaneous(template.url, secrets)
      /\ sent.body = Simultaneous(template.body, secrets)
  BY <1>5, TextsTyped
<1>7. DOMAIN sent.headers = ToSet(keys)
  BY <1>5
<1>8. ASSUME IsInjective(keys), NEW i \in DOMAIN keys
      PROVE  sent.headers[keys[i]] = Simultaneous(template.headers[i].value, secrets)
  <2>1. i \in 1 .. n
    BY <1>4
  <2>2. LastOf(keys, keys[i]) = i
    BY <1>1, <1>4, <1>8, <2>1, LastIs
  <2>3. keys[i] \in ToSet(keys)
    BY DEF ToSet
  <2>4. sent.headers[keys[i]] = substitute(template.headers[i].value, secrets)
    BY <1>5, <2>2, <2>3
  <2> QED
    BY <1>2, <2>1, <2>4
<1> QED
  BY <1>6, <1>7, <1>8 DEF keys, sent

(* A call of substitute_template that has returned is the call made.       *)
Hydrated ==
    fn = "substitute_template" =>
        /\ arg \in Templates
        /\ out # None => out = substitute_template(arg.template, arg.secrets)

(* Hydrated is an invariant.                                               *)
LEMMA HydratedInit == Init => Hydrated
BY DEF Init, Hydrated

LEMMA HydratedStep == Hydrated /\ [Next]_vars => Hydrated'
<1> SUFFICES ASSUME Hydrated, [Next]_vars PROVE Hydrated'
  OBVIOUS
<1>1. CASE SubstituteTemplate
  BY <1>1 DEF SubstituteTemplate, Called, Hydrated
<1>2. CASE ParsePlaceholders \/ ScrubResponse \/ Substitute \/ ParseAmount
  <2>1. fn' = fn /\ fn # "substitute_template"
    BY <1>2 DEF ParsePlaceholders, ScrubResponse, Substitute, ParseAmount, Called
  <2> QED
    BY <2>1 DEF Hydrated
<1>3. CASE UNCHANGED vars
  BY <1>3 DEF Hydrated, vars
<1> QED
  BY <1>1, <1>2, <1>3 DEF Next

(* With a secret for every name that collect_all_placeholders returns,     *)
(* substitute_template does not fail, and where the order of the           *)
(* replacements cannot matter it puts the secrets into the URL, the body   *)
(* and every header, and loses no header whose key stays distinct.         *)
THEOREM TemplatesHydrated == Spec => []TemplateIsHydrated
<1>1. Init => Hydrated
  BY HydratedInit
<1>2. Hydrated /\ [Next]_vars => Hydrated'
  BY HydratedStep
<1>3. Hydrated => TemplateIsHydrated
  <2> DEFINE t == arg.template
             s == arg.secrets
             texts == {t.url, t.body} \cup ToSet(HeaderTexts(t))
             keys == [i \in DOMAIN t.headers |-> Simultaneous(t.headers[i].key, s)]
             Goal == /\ out # Err
                     /\ (\A x \in texts : OrderFree(x, s)) =>
                           /\ out.url = Simultaneous(t.url, s)
                           /\ out.body = Simultaneous(t.body, s)
                           /\ DOMAIN out.headers = ToSet(keys)
                           /\ IsInjective(keys) => \A i \in DOMAIN keys :
                                 out.headers[keys[i]] =
                                     Simultaneous(t.headers[i].value, s)
  <2> SUFFICES ASSUME Hydrated, Returned("substitute_template"),
                      ToSet(collect_all_placeholders(t)) \subseteq DOMAIN s
               PROVE  Goal
    BY DEF TemplateIsHydrated
  <2>1. arg \in Templates /\ out = substitute_template(t, s)
    BY DEF Hydrated, Returned
  <2>2. t \in Template /\ Texty(s) /\ Err \notin Seq(STRING)
    BY <2>1, TemplateAssumption, SubstitutionAssumption DEF Texty, Template, Header
  <2>3. Err \notin Requests({substitute(t.headers[i].key, s) : i \in DOMAIN t.headers})
    BY <2>1, TemplateAssumption DEF Requests
  <2>4. texts = TextsOf(t)
    BY DEF TextsOf
  <2> HIDE DEF t, s, texts
  <2>5. /\ \A x \in TextsOf(t) :
               /\ substitute(x, s) \in Seq(STRING)
               /\ OrderFree(x, s) => substitute(x, s) = Simultaneous(x, s)
        /\ substitute_template(t, s) = Sent(t, s)
    BY <2>2, HydratedFacts
  <2>6. out # Err
    <3>1. Sent(t, s) \in Requests(ToSet(SentKeys(t, s)))
      BY <2>2, <2>5, SentType
    <3>2. ToSet(SentKeys(t, s))
             = {substitute(t.headers[i].key, s) : i \in DOMAIN t.headers}
      BY DEF ToSet, SentKeys
    <3> QED
      BY <2>1, <2>3, <2>5, <3>1, <3>2
  <2>7. ASSUME \A x \in texts : OrderFree(x, s)
        PROVE  /\ out.url = Simultaneous(t.url, s)
               /\ out.body = Simultaneous(t.body, s)
               /\ DOMAIN out.headers = ToSet(keys)
               /\ IsInjective(keys) => \A i \in DOMAIN keys :
                     out.headers[keys[i]] = Simultaneous(t.headers[i].value, s)
    <3>1. out = Sent(t, s)
      BY <2>1, <2>5
    <3>2. \A x \in TextsOf(t) : substitute(x, s) = Simultaneous(x, s)
      BY <2>4, <2>5, <2>7
    <3> QED
      BY <2>2, <3>1, <3>2, SentIs
  <2> QED
    BY <2>6, <2>7
<1> QED
  BY <1>1, <1>2, <1>3, PTL DEF Spec

-----------------------------------------------------------------------------
(* Amounts.  Numerals and powers of ten are both values of Horner's scheme *)
(* over n digits.                                                          *)
Horner(h, a, c, n) ==
    h[0] = a /\ \A i \in 1 .. n : h[i] = 10 * h[i - 1] + c[i]

(* The scheme has a solution.                                              *)
LEMMA HornerExists ==
  ASSUME NEW n \in Nat, NEW a \in Nat, NEW c \in [1 .. n -> Nat]
  PROVE  \E h \in [0 .. n -> Nat] : Horner(h, a, c, n)
<1> DEFINE F == [0 .. n -> Nat]
           Solved(k) == \E h \in F : Horner(h, a, c, k)
           K == {k \in Nat : k <= n => Solved(k)}
<1>1. 0 \in K
  <2> DEFINE h == [i \in 0 .. n |-> a]
  <2>1. h \in F /\ h[0] = a /\ 1 .. 0 = {}
    OBVIOUS
  <2> QED
    BY <2>1 DEF Horner
<1>2. ASSUME NEW k \in Nat, k \in K PROVE k + 1 \in K
  <2> HIDE DEF Solved
  <2> SUFFICES ASSUME k + 1 <= n PROVE Solved(k + 1)
    OBVIOUS
  <2>0. Solved(k)
    BY <1>2
  <2>1. PICK h \in F : Horner(h, a, c, k)
    BY <2>0 DEF Solved
  <2> DEFINE m == k + 1
             v == 10 * h[k] + c[m]
             g == [h EXCEPT ![m] = v]
  <2>2. m \in 1 .. n /\ k \in 0 .. n /\ m \in 0 .. n /\ m - 1 = k
    OBVIOUS
  <2>3. h[k] \in Nat /\ c[m] \in Nat
    BY <2>2
  <2>4. v \in Nat
    BY <2>3
  <2>5. \A i \in 1 .. m : i = m \/ i \in 1 .. k
    OBVIOUS
  <2>6. \A i \in 1 .. k : i \in 0 .. n /\ i - 1 \in 0 .. n /\ i # m /\ i - 1 # m
    BY <2>2
  <2>7. 0 # m /\ k # m /\ 0 \in 0 .. n
    BY <2>2
  <2> HIDE DEF m
  <2>8. g \in F /\ g[m] = v /\ \A i \in 0 .. n : i # m => g[i] = h[i]
    BY <2>2, <2>4
  <2> HIDE DEF g
  <2>9. g[0] = a
    BY <2>1, <2>7, <2>8 DEF Horner
  <2>10. \A i \in 1 .. k : g[i] = 10 * g[i - 1] + c[i]
    BY <2>1, <2>6, <2>8 DEF Horner
  <2>11. g[m] = 10 * g[m - 1] + c[m]
    BY <2>2, <2>7, <2>8
  <2>12. Horner(g, a, c, m)
    BY <2>5, <2>9, <2>10, <2>11 DEF Horner
  <2> QED
    BY <2>8, <2>12 DEF Solved, m
<1> HIDE DEF K
<1>3. n \in K
  BY <1>1, <1>2, InductionOnNat
<1> QED
  BY <1>3 DEF K

(* Two solutions agree as long as their digits do.                         *)
LEMMA HornerAgree ==
  ASSUME NEW n \in Nat, NEW a \in Nat, NEW c, NEW b, NEW h, NEW g,
         Horner(h, a, c, n), Horner(g, a, b, n), \A i \in 1 .. n : c[i] = b[i],
         \A i \in 1 .. n : c[i] \in Nat
  PROVE  \A i \in 0 .. n : h[i] \in Nat /\ h[i] = g[i]
<1> DEFINE K == {k \in Nat : k <= n => h[k] \in Nat /\ h[k] = g[k]}
<1>1. 0 \in K
  BY DEF Horner
<1>2. ASSUME NEW k \in Nat, k \in K PROVE k + 1 \in K
  <2> SUFFICES ASSUME k + 1 <= n
               PROVE  h[k + 1] \in Nat /\ h[k + 1] = g[k + 1]
    OBVIOUS
  <2>1. k + 1 \in 1 .. n /\ (k + 1) - 1 = k
    OBVIOUS
  <2>2. h[k] \in Nat /\ h[k] = g[k]
    BY <1>2
  <2>3. h[k + 1] = 10 * h[k] + c[k + 1] /\ g[k + 1] = 10 * g[k] + b[k + 1]
    BY <2>1 DEF Horner
  <2>4. c[k + 1] = b[k + 1] /\ c[k + 1] \in Nat
    BY <2>1
  <2> QED
    BY <2>2, <2>3, <2>4
<1> HIDE DEF K
<1>3. \A k \in Nat : k \in K
  BY <1>1, <1>2, InductionOnNat
<1>4. \A i \in 0 .. n : i \in Nat /\ i <= n
  OBVIOUS
<1> QED
  BY <1>3, <1>4 DEF K

(* Pow10 and Numeral are such values.                                      *)
Power(h, n) == h = [i \in 0 .. n |-> IF i = 0 THEN 1 ELSE 10 * h[i - 1]]

(* Pow10 is the last value of its recursion.                               *)
LEMMA PowIs == ASSUME NEW n PROVE Pow10(n) = (CHOOSE h : Power(h, n))[n]
BY DEF Pow10, Power

Valued(h, t) ==
    h = [i \in 0 .. Len(t) |-> IF i = 0 THEN 0
                               ELSE 10 * h[i - 1] + DigitValue[t[i]]]

(* So is Numeral.                                                          *)
LEMMA NumeralIs == ASSUME NEW t PROVE Numeral(t) = (CHOOSE h : Valued(h, t))[Len(t)]
BY DEF Numeral, Valued

Zeros(n) == [i \in 1 .. n |-> 0]

PowSolved(n) == \E h : Horner(h, 1, Zeros(n), n) /\ Pow10(n) = h[n]

(* Pow10 comes out of the scheme that starts with 1, over zeros.           *)
LEMMA PowSteps == ASSUME NEW n \in Nat PROVE PowSolved(n)
<1>1. Zeros(n) \in [1 .. n -> Nat] /\ \A i \in 1 .. n : Zeros(n)[i] = 0
  BY DEF Zeros
<1>2. PICK h \in [0 .. n -> Nat] : Horner(h, 1, Zeros(n), n)
  BY <1>1, HornerExists
<1>3. \A i \in 0 .. n : h[i] = IF i = 0 THEN 1 ELSE 10 * h[i - 1]
  <2>1. \A i \in 0 .. n : i # 0 => i \in 1 .. n /\ i - 1 \in 0 .. n
    OBVIOUS
  <2> QED
    BY <1>1, <1>2, <2>1 DEF Horner
<1>4. Power(h, n)
  BY <1>3 DEF Power
<1> DEFINE q == CHOOSE g : Power(g, n)
<1>5. Power(q, n)
  BY <1>4, Zenon
<1>6. Pow10(n) = q[n]
  BY PowIs
<1> HIDE DEF q
<1>7. \A i \in 0 .. n : q[i] = IF i = 0 THEN 1 ELSE 10 * q[i - 1]
  BY <1>5 DEF Power
<1> DEFINE K == {k \in Nat : k <= n => q[k] \in Nat}
<1>8. \A k \in Nat : k \in K
  <2>1. 0 \in K
    BY <1>7
  <2>2. ASSUME NEW k \in Nat, k \in K PROVE k + 1 \in K
    <3> SUFFICES ASSUME k + 1 <= n PROVE q[k + 1] \in Nat
      OBVIOUS
    <3>1. k + 1 \in 0 .. n /\ k + 1 # 0 /\ (k + 1) - 1 = k /\ q[k] \in Nat
      BY <2>2
    <3> QED
      BY <1>7, <3>1
  <2> HIDE DEF K
  <2> QED
    BY <2>1, <2>2, InductionOnNat
<1>9. \A i \in 1 .. n : q[i] = 10 * q[i - 1] + Zeros(n)[i]
  <2>1. \A i \in 1 .. n : i \in 0 .. n /\ i # 0 /\ i - 1 \in Nat /\ i - 1 <= n
    OBVIOUS
  <2>2. \A i \in 1 .. n : q[i - 1] \in Nat
    BY <1>8, <2>1
  <2> QED
    BY <1>1, <1>7, <2>1, <2>2
<1>10. Horner(q, 1, Zeros(n), n)
  BY <1>7, <1>9 DEF Horner
<1> QED
  BY <1>6, <1>10 DEF PowSolved

(* The digits of a text.                                                   *)
DigitsOf(t) == [i \in 1 .. Len(t) |-> DigitValue[t[i]]]

(* The value of a digit.                                                   *)
LEMMA DigitNat == \A c \in DOMAIN DigitValue : DigitValue[c] \in Nat
BY DEF DigitValue

(* The digits of a text of digits are numbers.                             *)
LEMMA DigitsType ==
  ASSUME NEW t, IsDigits(t)
  PROVE  /\ DigitsOf(t) \in [1 .. Len(t) -> Nat]
         /\ \A i \in 1 .. Len(t) : DigitsOf(t)[i] = DigitValue[t[i]]
BY DigitNat DEF DigitsOf, IsDigits

NumeralSolved(t) ==
    \E h : Horner(h, 0, DigitsOf(t), Len(t)) /\ Numeral(t) = h[Len(t)]

(* Numeral comes out of the scheme that starts with 0, over the digits.    *)
LEMMA NumeralSteps ==
  ASSUME NEW t \in Seq(Byte), IsDigits(t)
  PROVE  NumeralSolved(t)
<1> DEFINE n == Len(t)
           c == DigitsOf(t)
<1>1. n \in Nat /\ c \in [1 .. n -> Nat] /\ \A i \in 1 .. n : c[i] = DigitValue[t[i]]
  BY LenProperties, DigitsType
<1> HIDE DEF c
<1>2. PICK h \in [0 .. n -> Nat] : Horner(h, 0, c, n)
  BY <1>1, HornerExists
<1>3. \A i \in 0 .. n : h[i] = IF i = 0 THEN 0 ELSE 10 * h[i - 1] + DigitValue[t[i]]
  <2>1. \A i \in 0 .. n : i # 0 => i \in 1 .. n
    OBVIOUS
  <2> QED
    BY <1>1, <1>2, <2>1 DEF Horner
<1>4. Valued(h, t)
  BY <1>3 DEF Valued
<1> DEFINE q == CHOOSE g : Valued(g, t)
<1>5. Valued(q, t)
  BY <1>4, Zenon
<1>6. Numeral(t) = q[n]
  BY NumeralIs
<1> HIDE DEF q
<1>7. \A i \in 0 .. n : q[i] = IF i = 0 THEN 0 ELSE 10 * q[i - 1] + DigitValue[t[i]]
  BY <1>5 DEF Valued
<1>8. Horner(q, 0, c, n)
  <2>1. q[0] = 0
    BY <1>1, <1>7
  <2>2. \A i \in 1 .. n : i \in 0 .. n /\ i # 0
    OBVIOUS
  <2> QED
    BY <1>1, <1>7, <2>1, <2>2 DEF Horner
<1> QED
  BY <1>6, <1>8 DEF NumeralSolved, c

(* Solutions are natural numbers, and positive if they start so.           *)
LEMMA HornerNat ==
  ASSUME NEW n \in Nat, NEW a \in Nat, NEW c \in [1 .. n -> Nat],
         NEW h, Horner(h, a, c, n)
  PROVE  \A i \in 0 .. n : h[i] \in Nat /\ h[i] >= a
<1> DEFINE K == {k \in Nat : k <= n => h[k] \in Nat /\ h[k] >= a}
<1>1. 0 \in K
  BY DEF Horner
<1>2. ASSUME NEW k \in Nat, k \in K PROVE k + 1 \in K
  <2> SUFFICES ASSUME k + 1 <= n
               PROVE  h[k + 1] \in Nat /\ h[k + 1] >= a
    OBVIOUS
  <2>1. k + 1 \in 1 .. n /\ (k + 1) - 1 = k
    OBVIOUS
  <2>2. h[k] \in Nat /\ h[k] >= a
    BY <1>2
  <2>3. h[k + 1] = 10 * h[k] + c[k + 1] /\ c[k + 1] \in Nat
    BY <2>1 DEF Horner
  <2> QED
    BY <2>2, <2>3
<1> HIDE DEF K
<1>3. \A k \in Nat : k \in K
  BY <1>1, <1>2, InductionOnNat
<1>4. \A i \in 0 .. n : i \in Nat /\ i <= n
  OBVIOUS
<1> QED
  BY <1>3, <1>4 DEF K

(* The digits c and b in a row.                                            *)
InARow(d, c, m, b, n) ==
    (\A i \in 1 .. m : d[i] = c[i]) /\ (\A j \in 1 .. n : d[m + j] = b[j])

Shifted(g, h, p, v, m, n) == g[m + n] = h[m] * p[n] + v[n]

(* Over two rows of digits: the first row's value is shifted by the length *)
(* of the second.                                                          *)
LEMMA HornerConcat ==
  ASSUME NEW m \in Nat, NEW n \in Nat, NEW a \in Nat,
         NEW c \in [1 .. m -> Nat], NEW b \in [1 .. n -> Nat],
         NEW d, InARow(d, c, m, b, n), NEW g, Horner(g, a, d, m + n),
         NEW h, Horner(h, a, c, m), NEW v, Horner(v, 0, b, n),
         NEW p, Horner(p, 1, Zeros(n), n)
  PROVE  Shifted(g, h, p, v, m, n)
<1>0. (\A i \in 1 .. m : d[i] = c[i]) /\ (\A j \in 1 .. n : d[m + j] = b[j])
  BY DEF InARow
<1>1. Zeros(n) \in [1 .. n -> Nat] /\ \A i \in 1 .. n : Zeros(n)[i] = 0
  BY DEF Zeros
<1>2. \A j \in 0 .. n : v[j] \in Nat /\ p[j] \in Nat
  BY <1>1, HornerNat
<1>3. h[m] \in Nat /\ g[m] = h[m]
  <2>1. Horner(g, a, d, m)
    <3>1. \A i \in 1 .. m : i \in 1 .. m + n
      OBVIOUS
    <3> QED
      BY <3>1 DEF Horner
  <2>2. \A i \in 0 .. m : h[i] \in Nat /\ h[i] = g[i]
    BY <1>0, <2>1, HornerAgree
  <2>3. m \in 0 .. m
    OBVIOUS
  <2> QED
    BY <2>2, <2>3
<1> DEFINE A == h[m]
           K == {k \in Nat : k <= n => g[m + k] = A * p[k] + v[k]}
<1>4. A \in Nat /\ g[m] = A
  BY <1>3
<1> HIDE DEF A
<1>5. 0 \in K
  <2>1. m + 0 = m /\ p[0] = 1 /\ v[0] = 0
    BY DEF Horner
  <2>2. A = A * 1 + 0
    BY <1>4
  <2> QED
    BY <1>4, <2>1, <2>2
<1>6. ASSUME NEW k \in Nat, k \in K PROVE k + 1 \in K
  <2> SUFFICES ASSUME k + 1 <= n
               PROVE  g[m + (k + 1)] = A * p[k + 1] + v[k + 1]
    OBVIOUS
  <2> DEFINE j == k + 1
             P == p[k]
             V == v[k]
             x == b[j]
  <2>1. j \in 1 .. n /\ j - 1 = k /\ m + j \in 1 .. m + n /\ (m + j) - 1 = m + k
        /\ k \in 0 .. n
    OBVIOUS
  <2>2. g[m + k] = A * P + V
    BY <1>6
  <2>3. P \in Nat /\ V \in Nat /\ x \in Nat
    BY <1>2, <2>1
  <2> HIDE DEF j
  <2>4. g[m + j] = 10 * g[(m + j) - 1] + d[m + j]
    BY <2>1 DEF Horner
  <2>5. d[m + j] = x
    BY <1>0, <2>1
  <2>6. v[j] = 10 * V + x /\ p[j] = 10 * P + 0
    BY <1>1, <2>1 DEF Horner
  <2> HIDE DEF P, V, x
  <2>7. g[m + j] = 10 * (A * P + V) + x
    BY <2>1, <2>2, <2>4, <2>5
  <2>8. 10 * (A * P + V) + x = A * (10 * P + 0) + (10 * V + x)
    BY <1>4, <2>3
  <2>9. g[m + j] = A * p[j] + v[j]
    BY <2>6, <2>7, <2>8
  <2> QED
    BY <2>9 DEF j
<1> HIDE DEF K
<1>7. n \in K
  BY <1>5, <1>6, InductionOnNat
<1> QED
  BY <1>7 DEF K, A, Shifted

(* Powers of ten are positive.                                             *)
LEMMA PowFacts == ASSUME NEW n \in Nat PROVE Pow10(n) \in Nat /\ Pow10(n) >= 1
<1>1. PICK h : Horner(h, 1, Zeros(n), n) /\ Pow10(n) = h[n]
  BY PowSteps DEF PowSolved
<1>2. Zeros(n) \in [1 .. n -> Nat] /\ n \in 0 .. n
  BY DEF Zeros
<1>3. \A i \in 0 .. n : h[i] \in Nat /\ h[i] >= 1
  BY <1>1, <1>2, HornerNat
<1> QED
  BY <1>1, <1>2, <1>3

(* Powers of ten multiply.                                                 *)
LEMMA PowAdd ==
  ASSUME NEW m \in Nat, NEW n \in Nat
  PROVE  Pow10(m + n) = Pow10(m) * Pow10(n)
<1> DEFINE k == m + n
           v == [i \in 0 .. n |-> 0]
<1>0. k \in Nat
  OBVIOUS
<1> HIDE DEF k
<1>1. PICK g : Horner(g, 1, Zeros(k), k) /\ Pow10(k) = g[k]
  BY <1>0, PowSteps DEF PowSolved
<1>2. PICK h : Horner(h, 1, Zeros(m), m) /\ Pow10(m) = h[m]
  BY PowSteps DEF PowSolved
<1>3. PICK p : Horner(p, 1, Zeros(n), n) /\ Pow10(n) = p[n]
  BY PowSteps DEF PowSolved
<1>4. /\ Zeros(m) \in [1 .. m -> Nat] /\ Zeros(n) \in [1 .. n -> Nat]
      /\ \A i \in 1 .. m : i \in 1 .. k /\ Zeros(k)[i] = Zeros(m)[i]
      /\ \A j \in 1 .. n : m + j \in 1 .. k /\ Zeros(k)[m + j] = Zeros(n)[j]
  BY DEF Zeros, k
<1>5. Horner(v, 0, Zeros(n), n) /\ v[n] = 0
  BY DEF Horner, Zeros
<1>6. 1 \in Nat
  OBVIOUS
<1> DEFINE z == Zeros(k)
<1> HIDE DEF v, z
<1>7. Horner(g, 1, z, m + n)
  BY <1>1 DEF z, k
<1>8. InARow(z, Zeros(m), m, Zeros(n), n)
  BY <1>4 DEF z, InARow
<1>9. Shifted(g, h, p, v, m, n)
  BY <1>2, <1>3, <1>4, <1>5, <1>6, <1>7, <1>8, HornerConcat
<1>10. Pow10(m + n) = Pow10(m) * Pow10(n) + 0
  BY <1>1, <1>2, <1>3, <1>5, <1>9 DEF k, Shifted
<1>11. Pow10(m) \in Nat /\ Pow10(n) \in Nat
  BY PowFacts
<1> DEFINE x == Pow10(m)
           y == Pow10(n)
<1> HIDE DEF x, y
<1>12. x * y + 0 = x * y
  BY <1>11 DEF x, y
<1> QED
  BY <1>10, <1>12 DEF x, y

(* The value of a text of digits is a number.                              *)
LEMMA NumeralNat ==
  ASSUME NEW t \in Seq(Byte), IsDigits(t)
  PROVE  Numeral(t) \in Nat
<1>1. PICK h : Horner(h, 0, DigitsOf(t), Len(t)) /\ Numeral(t) = h[Len(t)]
  BY NumeralSteps DEF NumeralSolved
<1>2. Len(t) \in Nat /\ DigitsOf(t) \in [1 .. Len(t) -> Nat] /\ Len(t) \in 0 .. Len(t)
  BY LenProperties, DigitsType
<1>3. \A i \in 0 .. Len(t) : h[i] \in Nat
  BY <1>1, <1>2, HornerNat
<1> QED
  BY <1>1, <1>2, <1>3

(* The value of two texts in a row.                                        *)
LEMMA NumeralConcat ==
  ASSUME NEW s \in Seq(Byte), NEW t \in Seq(Byte), IsDigits(s), IsDigits(t)
  PROVE  /\ s \o t \in Seq(Byte) /\ IsDigits(s \o t)
         /\ Numeral(s \o t) = Numeral(s) * Pow10(Len(t)) + Numeral(t)
<1> DEFINE x == s \o t
           m == Len(s)
           n == Len(t)
<1>1. m \in Nat /\ n \in Nat
  BY LenProperties
<1>2. /\ x \in Seq(Byte) /\ Len(x) = m + n
      /\ \A i \in 1 .. m + n : x[i] = IF i <= m THEN s[i] ELSE t[i - m]
  BY ConcatProperties
<1> HIDE DEF x
<1>3. \A i \in 1 .. m : x[i] = s[i]
  <2>1. \A i \in 1 .. m : i \in 1 .. m + n /\ i <= m
    BY <1>1
  <2> QED
    BY <1>2, <2>1
<1>4. \A j \in 1 .. n : x[m + j] = t[j]
  <2> SUFFICES ASSUME NEW j \in 1 .. n PROVE x[m + j] = t[j]
    OBVIOUS
  <2> DEFINE k == m + j
  <2>1. k \in 1 .. m + n /\ ~(k <= m) /\ k - m = j
    BY <1>1
  <2> HIDE DEF k
  <2>2. x[k] = t[j]
    BY <1>2, <2>1
  <2> QED
    BY <2>2 DEF k
<1> HIDE DEF m, n
<1>5. IsDigits(x)
  <2> SUFFICES ASSUME NEW i \in 1 .. m + n PROVE x[i] \in DOMAIN DigitValue
    BY <1>2 DEF IsDigits
  <2>1. CASE i <= m
    <3>1. i \in 1 .. m
      BY <1>1, <2>1
    <3> QED
      BY <1>3, <3>1 DEF IsDigits, m
  <2>2. CASE ~(i <= m)
    <3>1. i - m \in 1 .. n /\ x[i] = t[i - m]
      BY <1>1, <1>2, <2>2
    <3> QED
      BY <3>1 DEF IsDigits, n
  <2> QED
    BY <2>1, <2>2
<1> DEFINE c == DigitsOf(s)
           b == DigitsOf(t)
           d == DigitsOf(x)
<1>6. c \in [1 .. m -> Nat] /\ b \in [1 .. n -> Nat]
      /\ (\A i \in 1 .. m : c[i] = DigitValue[s[i]])
      /\ (\A j \in 1 .. n : b[j] = DigitValue[t[j]])
  BY DigitsType DEF m, n
<1>7. \A i \in 1 .. m + n : d[i] = DigitValue[x[i]]
  BY <1>2, <1>5, DigitsType
<1>8. PICK h : Horner(h, 0, c, m) /\ Numeral(s) = h[m]
  BY NumeralSteps DEF NumeralSolved, m
<1>9. PICK v : Horner(v, 0, b, n) /\ Numeral(t) = v[n]
  BY NumeralSteps DEF NumeralSolved, n
<1>10. PICK g : Horner(g, 0, d, m + n) /\ Numeral(x) = g[m + n]
  BY <1>2, <1>5, NumeralSteps DEF NumeralSolved
<1>11. PICK p : Horner(p, 1, Zeros(n), n) /\ Pow10(n) = p[n]
  BY <1>1, PowSteps DEF PowSolved
<1> HIDE DEF c, b, d
<1>12. \A i \in 1 .. m : d[i] = c[i]
  <2>1. \A i \in 1 .. m : i \in 1 .. m + n
    BY <1>1
  <2> QED
    BY <1>3, <1>6, <1>7, <2>1
<1>13. \A j \in 1 .. n : d[m + j] = b[j]
  <2>1. \A j \in 1 .. n : m + j \in 1 .. m + n
    BY <1>1
  <2> QED
    BY <1>4, <1>6, <1>7, <2>1
<1>14. InARow(d, c, m, b, n)
  BY <1>12, <1>13 DEF InARow
<1>15. 0 \in Nat
  OBVIOUS
<1>16. Shifted(g, h, p, v, m, n)
  BY <1>1, <1>6, <1>8, <1>9, <1>10, <1>11, <1>14, <1>15, HornerConcat
<1> QED
  BY <1>2, <1>5, <1>8, <1>9, <1>10, <1>11, <1>16 DEF Shifted, x, m, n

(* Zero is a digit.                                                        *)
LEMMA ZeroDigit == "0" \in DOMAIN DigitValue /\ DigitValue["0"] = 0
BY DEF DigitValue

NumeralOfZeros(z) == IsDigits(z) /\ Numeral(z) = 0

(* Zeros have the value 0.                                                 *)
LEMMA NumeralZeros ==
  ASSUME NEW t \in Seq(Byte), \A i \in 1 .. Len(t) : t[i] = "0"
  PROVE  NumeralOfZeros(t)
<1> DEFINE n == Len(t)
           c == DigitsOf(t)
           v == [i \in 0 .. n |-> 0]
<1>0. IsDigits(t)
  BY ZeroDigit DEF IsDigits
<1>1. n \in Nat /\ \A i \in 1 .. n : c[i] = DigitValue[t[i]]
  BY <1>0, LenProperties, DigitsType
<1>2. \A i \in 1 .. n : c[i] = 0
  BY <1>1, ZeroDigit
<1>3. PICK h : Horner(h, 0, c, n) /\ Numeral(t) = h[n]
  BY <1>0, NumeralSteps DEF NumeralSolved
<1> HIDE DEF c, n
<1>4. Horner(v, 0, Zeros(n), n) /\ v[n] = 0 /\ n \in 0 .. n
  BY <1>1 DEF Horner, Zeros
<1>5. \A i \in 1 .. n : c[i] = Zeros(n)[i] /\ c[i] \in Nat
  BY <1>2 DEF Zeros
<1> HIDE DEF v
<1>6. \A i \in 0 .. n : h[i] = v[i]
  BY <1>1, <1>3, <1>4, <1>5, HornerAgree
<1> QED
  BY <1>0, <1>3, <1>4, <1>6 DEF NumeralOfZeros

(* A slice of a sequence.                                                  *)
LEMMA SliceType ==
  ASSUME NEW S, NEW s \in Seq(S), NEW m \in Nat \ {0}, NEW n \in Nat, n <= Len(s)
  PROVE  SubSeq(s, m, n) \in Seq(S)
<1>1. Len(s) \in Nat
  BY LenProperties
<1>2. \A i \in m .. n : i \in 1 .. Len(s)
  BY <1>1
<1>3. \A i \in m .. n : s[i] \in S
  BY <1>2, ElementOfSeq
<1>4. m \in Int /\ n \in Int
  OBVIOUS
<1> QED
  BY <1>3, <1>4, SubSeqProperties

(* A trimmed text is a text.                                               *)
LEMMA TrimType == ASSUME NEW t \in Seq(Byte) PROVE Trim(t) \in Seq(Byte)
<1> DEFINE n == Len(t)
           ink == {i \in 1 .. n : t[i] # " "}
<1>1. n \in Nat /\ ink \in SUBSET (1 .. n)
  BY LenProperties
<1>2. Trim(t) = IF ink = {} THEN <<>> ELSE SubSeq(t, Min(ink), Max(ink))
  BY DEF Trim
<1> HIDE DEF ink, n
<1>3. CASE ink = {}
  BY <1>2, <1>3, EmptySeq
<1>4. CASE ink # {}
  <2>1. Min(ink) \in 1 .. n /\ Max(ink) \in 1 .. n
    BY <1>1, <1>4, MinOf, MaxOf
  <2> DEFINE a == Min(ink)
             b == Max(ink)
  <2> HIDE DEF a, b
  <2>2. a \in Nat \ {0} /\ b \in Nat /\ b <= n
    BY <1>1, <2>1 DEF a, b
  <2>3. SubSeq(t, a, b) \in Seq(Byte)
    BY <2>2, SliceType DEF n
  <2> QED
    BY <1>2, <1>4, <2>3 DEF a, b
<1> QED
  BY <1>3, <1>4

(* So are the parts before and after the point.                            *)
LEMMA PartsType ==
  ASSUME NEW s \in Seq(Byte)
  PROVE  IntegerPart(s) \in Seq(Byte) /\ DecimalPart(s) \in Seq(Byte)
<1> DEFINE n == Len(s)
           I == {i \in 1 .. n : s[i] = "."}
           p == Point(s)
<1>1. n \in Nat /\ I \in SUBSET (1 .. n)
  BY LenProperties
<1>2. p = IF I # {} THEN Min(I) ELSE 0
  BY DEF Point, SelectInSeq
<1> HIDE DEF I, n, p
<1>3. p = 0 \/ p \in 1 .. n
  BY <1>1, <1>2, MinOf
<1>4. CASE p = 0
  BY <1>4, EmptySeq DEF IntegerPart, DecimalPart, p
<1>5. CASE p # 0
  <2> DEFINE a == p - 1
             b == p + 1
  <2>1. a \in Nat /\ a <= n /\ b \in Nat \ {0} /\ n <= n /\ 1 \in Nat \ {0}
    BY <1>1, <1>3, <1>5
  <2>2. IntegerPart(s) = SubSeq(s, 1, a) /\ DecimalPart(s) = SubSeq(s, b, n)
    BY <1>5 DEF IntegerPart, DecimalPart, p, n
  <2> HIDE DEF a, b
  <2>3. SubSeq(s, 1, a) \in Seq(Byte) /\ SubSeq(s, b, n) \in Seq(Byte)
    BY <1>1, <2>1, SliceType DEF n
  <2> QED
    BY <2>2, <2>3
<1> QED
  BY <1>4, <1>5

(* So are the decimals that count, at most DECIMALS of them.               *)
LEMMA PaddedIs ==
  ASSUME NEW d \in Seq(Byte), DECIMALS \in Nat
  PROVE  /\ Padded(d) \in Seq(Byte)
         /\ Len(Padded(d)) <= DECIMALS
<1> DEFINE n == Len(d)
           k == Min({DECIMALS, n})
<1>1. n \in Nat
  BY LenProperties
<1>2. k \in Nat /\ k <= n /\ k <= DECIMALS
  BY <1>1 DEF Min
<1>3. Padded(d) = SubSeq(d, 1, k)
  BY DEF Padded
<1> HIDE DEF k
<1>4. SubSeq(d, 1, k) \in Seq(Byte)
  BY <1>2, SliceType
<1>5. \A i \in 1 .. k : d[i] \in Byte
  <2>1. \A i \in 1 .. k : i \in 1 .. n
    BY <1>1, <1>2
  <2> QED
    BY <2>1, ElementOfSeq
<1>6. Len(SubSeq(d, 1, k)) = IF 1 <= k THEN k - 1 + 1 ELSE 0
  BY <1>2, <1>5, SubSeqProperties
<1> QED
  BY <1>1, <1>2, <1>3, <1>4, <1>6

(* A text that begins with a plus sign.                                    *)
Signed(t) == t[1] = "+"

(* A plus sign is no digit.                                                *)
LEMMA SignNoDigit == ASSUME NEW t, Signed(t) PROVE t[1] \notin DOMAIN DigitValue
<1>1. DOMAIN DigitValue = {"0", "1", "2", "3", "4", "5", "6", "7", "8", "9"}
  BY DEF DigitValue
<1>2. "+" \notin {"0", "1", "2", "3", "4", "5", "6", "7", "8", "9"}
  OBVIOUS
<1> QED
  BY <1>1, <1>2 DEF Signed

(* Unsigned, with the sign named instead of written.                       *)
LEMMA UnsignedIs ==
  ASSUME NEW t
  PROVE  Unsigned(t) = IF Len(t) > 1 /\ Signed(t) THEN <<"0">> \o Tail(t) ELSE t
BY DEF Unsigned, Signed

(* What ParsePart makes of a part that is not empty.                       *)
LEMMA ParseU64Is ==
  ASSUME NEW t, t # <<>>
  PROVE  LET digits == IF Signed(t) THEN Tail(t) ELSE t
         IN  ParsePart(t) =
                IF digits # <<>> /\ IsDigits(digits) /\ Numeral(digits) < WORD
                THEN Numeral(digits) ELSE Err
BY DEF ParsePart, ParseU64, Signed

(* A sequence of one.                                                      *)
LEMMA OneOf ==
  ASSUME NEW S, NEW x \in S
  PROVE  <<x>> \in Seq(S) /\ Len(<<x>>) = 1 /\ <<x>>[1] = x
OBVIOUS

(* ParsePart reads the value of a part, with a zero for the sign.          *)
PartRead(t) ==
    /\ Unsigned(t) \in Seq(Byte) /\ Len(Unsigned(t)) = Len(t)
    /\ ParsePart(t) # Err =>
          IsDigits(Unsigned(t)) /\ ParsePart(t) = Numeral(Unsigned(t))
    /\ IsDigits(Unsigned(t)) /\ Numeral(Unsigned(t)) < WORD =>
          ParsePart(t) = Numeral(Unsigned(t))

(* Every part is read so.                                                  *)
LEMMA PartIsRead == ASSUME NEW t \in Seq(Byte) PROVE PartRead(t)
<1>0. Len(t) \in Nat
  BY LenProperties
<1>1. CASE t = <<>>
  <2>1. Len(t) = 0
    BY <1>1, EmptySeq
  <2>2. Unsigned(t) = t
    BY <2>1, UnsignedIs
  <2>3. \A i \in 1 .. Len(t) : t[i] = "0"
    BY <2>1
  <2>4. IsDigits(t) /\ Numeral(t) = 0
    BY <2>3, NumeralZeros DEF NumeralOfZeros
  <2>5. ParsePart(t) = 0
    BY <1>1 DEF ParsePart
  <2> QED
    BY <2>2, <2>4, <2>5 DEF PartRead
<1>2. CASE t # <<>> /\ ~Signed(t)
  <2>1. Unsigned(t) = t
    BY <1>2, UnsignedIs
  <2>2. ParsePart(t) = IF t # <<>> /\ IsDigits(t) /\ Numeral(t) < WORD
                       THEN Numeral(t) ELSE Err
    BY <1>2, ParseU64Is
  <2> QED
    BY <1>2, <2>1, <2>2 DEF PartRead
<1>3. CASE t # <<>> /\ Signed(t)
  <2> DEFINE x == Tail(t)
             z == <<"0">>
  <2>1. x \in Seq(Byte) /\ Len(x) = Len(t) - 1
    BY <1>3, HeadTailProperties
  <2>2. Len(t) # 0
    BY <1>3, EmptySeq
  <2>3. ParsePart(t) = IF x # <<>> /\ IsDigits(x) /\ Numeral(x) < WORD
                       THEN Numeral(x) ELSE Err
    BY <1>3, ParseU64Is
  <2>4. z \in Seq(Byte) /\ Len(z) = 1 /\ z[1] = "0"
    BY NamedBytes, OneOf
  <2>5. Unsigned(t) = IF Len(t) > 1 THEN z \o x ELSE t
    BY <1>3, UnsignedIs
  <2> HIDE DEF x, z
  <2>6. CASE Len(t) = 1
    <3>1. x = <<>>
      BY <2>1, <2>6, EmptySeq
    <3>2. ParsePart(t) = Err
      BY <2>3, <3>1
    <3>3. Unsigned(t) = t
      BY <2>5, <2>6
    <3>4. ~IsDigits(t)
      <4>1. 1 \in 1 .. Len(t) /\ t[1] \notin DOMAIN DigitValue
        BY <1>3, <2>6, SignNoDigit
      <4> QED
        BY <4>1 DEF IsDigits
    <3> QED
      BY <3>2, <3>3, <3>4 DEF PartRead
  <2>7. CASE Len(t) > 1
    <3> DEFINE u == z \o x
    <3>1. Unsigned(t) = u
      BY <2>5, <2>7
    <3>2. x # <<>>
      BY <1>0, <2>1, <2>7, EmptySeq
    <3>3. /\ u \in Seq(Byte) /\ Len(u) = 1 + Len(x)
          /\ \A i \in 1 .. 1 + Len(x) : u[i] = IF i <= 1 THEN z[i] ELSE x[i - 1]
      <4>1. /\ u \in Seq(Byte) /\ Len(u) = Len(z) + Len(x)
            /\ \A i \in 1 .. Len(z) + Len(x) :
                  u[i] = IF i <= Len(z) THEN z[i] ELSE x[i - Len(z)]
        BY <2>1, <2>4, ConcatProperties
      <4> HIDE DEF u
      <4> QED
        BY <2>4, <4>1
    <3>4. \A i \in 1 .. Len(z) : z[i] = "0"
      <4>1. \A i \in 1 .. 1 : i = 1
        OBVIOUS
      <4> QED
        BY <2>4, <4>1
    <3>5. IsDigits(z) /\ Numeral(z) = 0
      BY <2>4, <3>4, NumeralZeros DEF NumeralOfZeros
    <3>6. ASSUME IsDigits(x)
          PROVE  IsDigits(u) /\ Numeral(u) = Numeral(x)
      <4>1. IsDigits(u) /\ Numeral(u) = Numeral(z) * Pow10(Len(x)) + Numeral(x)
        BY <2>1, <2>4, <3>5, <3>6, NumeralConcat
      <4>2. Len(x) \in Nat
        BY <2>1, LenProperties
      <4>3. Pow10(Len(x)) \in Nat /\ Numeral(x) \in Nat
        BY <2>1, <3>6, <4>2, PowFacts, NumeralNat
      <4> DEFINE P == Pow10(Len(x))
                 N == Numeral(x)
      <4> HIDE DEF P, N
      <4>4. 0 * P + N = N
        BY <4>3 DEF P, N
      <4> QED
        BY <3>5, <4>1, <4>4 DEF P, N
    <3> HIDE DEF u
    <3>7. ASSUME IsDigits(u) PROVE IsDigits(x)
      <4> SUFFICES ASSUME NEW i \in 1 .. Len(x) PROVE x[i] \in DOMAIN DigitValue
        BY DEF IsDigits
      <4> DEFINE j == i + 1
      <4>1. j \in 1 .. 1 + Len(x) /\ ~(j <= 1) /\ j - 1 = i
        BY <1>0, <2>1
      <4> HIDE DEF j
      <4>2. u[j] = x[i] /\ u[j] \in DOMAIN DigitValue
        BY <3>3, <3>7, <4>1 DEF IsDigits
      <4> QED
        BY <4>2
    <3>8. Len(u) = Len(t)
      BY <1>0, <2>1, <3>3
    <3> QED
      BY <2>3, <3>1, <3>2, <3>3, <3>6, <3>7, <3>8 DEF PartRead
  <2>8. Len(t) = 1 \/ Len(t) > 1
    <3> DEFINE n == Len(t)
    <3>1. n \in Nat /\ n # 0
      BY <1>0, <2>2
    <3> HIDE DEF n
    <3>2. n = 1 \/ n > 1
      BY <3>1
    <3> QED
      BY <3>2 DEF n
  <2> QED
    BY <2>6, <2>7, <2>8
<1> QED
  BY <1>1, <1>2, <1>3

(* What an amount means, in terms of its parts.                            *)
LEMMA MeantIs ==
  ASSUME NEW s \in Seq(Byte), DECIMALS \in Nat,
         IsDigits(Unsigned(IntegerPart(s))), IsDigits(Unsigned(Padded(DecimalPart(s))))
  PROVE  LET a == Numeral(Unsigned(IntegerPart(s)))
             b == Numeral(Unsigned(Padded(DecimalPart(s))))
             k == DECIMALS - Len(Padded(DecimalPart(s)))
         IN  /\ a \in Nat /\ b \in Nat /\ k \in Nat
             /\ Meant(s) = a * Pow10(DECIMALS) + b * Pow10(k)
<1> DEFINE d == Padded(DecimalPart(s))
           k == DECIMALS - Len(d)
           x == Unsigned(IntegerPart(s))
           y == Unsigned(d)
           z == [i \in 1 .. k |-> "0"]
           xy == x \o y
           a == Numeral(x)
           b == Numeral(y)
<1>1. d \in Seq(Byte) /\ Len(d) <= DECIMALS
  BY PartsType, PaddedIs
<1>2. Len(d) \in Nat
  BY <1>1, LenProperties
<1>3. k \in Nat /\ Len(d) + k = DECIMALS
  BY <1>1, <1>2
<1>4. x \in Seq(Byte) /\ IsDigits(x)
  BY PartsType, PartIsRead DEF PartRead
<1>5. y \in Seq(Byte) /\ IsDigits(y) /\ Len(y) = Len(d)
  BY <1>1, PartIsRead DEF PartRead
<1>6. Meant(s) = Numeral(xy \o z)
  BY DEF Meant
<1> HIDE DEF d, k, x, y
<1>7. z \in Seq(Byte) /\ Len(z) = k /\ \A i \in 1 .. k : z[i] = "0"
  <2>1. z \in [1 .. k -> Byte] /\ \A i \in 1 .. k : z[i] = "0"
    BY NamedBytes
  <2> HIDE DEF z
  <2>2. z \in Seq(Byte)
    BY <1>3, <2>1
  <2>3. Len(z) = k
    BY <1>3, <2>1, <2>2, LenProperties
  <2> QED
    BY <2>1, <2>2, <2>3
<1> HIDE DEF z
<1>8. IsDigits(z) /\ Numeral(z) = 0
  BY <1>7, NumeralZeros DEF NumeralOfZeros
<1>9. xy \in Seq(Byte) /\ IsDigits(xy) /\ Numeral(xy) = a * Pow10(Len(y)) + b
  BY <1>4, <1>5, NumeralConcat
<1> HIDE DEF xy
<1>10. Numeral(xy \o z) = Numeral(xy) * Pow10(Len(z)) + Numeral(z)
  BY <1>7, <1>8, <1>9, NumeralConcat
<1>11. a \in Nat /\ b \in Nat
  BY <1>4, <1>5, NumeralNat
<1> DEFINE P == Pow10(Len(d))
           Q == Pow10(k)
<1>12. P \in Nat /\ Q \in Nat
  BY <1>2, <1>3, PowFacts
<1>13. Pow10(DECIMALS) = P * Q
  <2>1. Pow10(Len(d) + k) = P * Q
    BY <1>2, <1>3, PowAdd
  <2> QED
    BY <1>3, <2>1
<1>14. Meant(s) = (a * P + b) * Q + 0
  BY <1>5, <1>6, <1>7, <1>8, <1>9, <1>10
<1> HIDE DEF a, b, P, Q
<1>15. (a * P + b) * Q + 0 = a * (P * Q) + b * Q
  BY <1>11, <1>12
<1>16. Meant(s) = a * Pow10(DECIMALS) + b * Q
  BY <1>13, <1>14, <1>15
<1> QED
  BY <1>3, <1>11, <1>16 DEF a, b, d, k, x, y, Q

(* A text of digits can be cut anywhere.                                   *)
LEMMA DigitsBoundary ==
  ASSUME NEW d, IsDigits(d), DECIMALS \in Nat, Len(d) \in Nat, Len(d) > DECIMALS
  PROVE  IsCharBoundary(d, DECIMALS)
<1>1. DECIMALS + 1 \in 1 .. Len(d)
  OBVIOUS
<1>2. d[DECIMALS + 1] \in DOMAIN DigitValue
  BY <1>1 DEF IsDigits
<1>3. DOMAIN DigitValue = {"0", "1", "2", "3", "4", "5", "6", "7", "8", "9"}
  BY DEF DigitValue
<1>4. "~" \notin {"0", "1", "2", "3", "4", "5", "6", "7", "8", "9"}
  OBVIOUS
<1> QED
  BY <1>2, <1>3, <1>4 DEF IsCharBoundary

(* Products and sums at least as large as their factors and terms.         *)
LEMMA TermsBelow ==
  ASSUME NEW a \in Nat, NEW b \in Nat, NEW p \in Nat, NEW q \in Nat, p >= 1, q >= 1
  PROVE  a * p + b * q \in Nat /\ a <= a * p + b * q /\ b <= a * p + b * q
<1>1. a * p \in Nat /\ a <= a * p
  OBVIOUS
<1>2. b * q \in Nat /\ b <= b * q
  OBVIOUS
<1> DEFINE x == a * p
           y == b * q
<1> HIDE DEF x, y
<1>3. x \in Nat /\ y \in Nat /\ a <= x /\ b <= y
  BY <1>1, <1>2 DEF x, y
<1>4. x + y \in Nat /\ a <= x + y /\ b <= x + y
  BY <1>3
<1> QED
  BY <1>4 DEF x, y

(* parse_usdc_amount, in terms of the parts.                               *)
LEMMA AmountIs ==
  ASSUME NEW text
  PROVE  LET s == Trim(text)
             integer == ParsePart(IntegerPart(s))
             d == DecimalPart(s)
             p == ParsePart(Padded(d))
             k == DECIMALS - Len(Padded(d))
             scaled == IF p = Err THEN Err ELSE p * Pow10(k)
         IN  parse_usdc_amount(text) =
               IF s = <<>> \/ integer = Err THEN Err
               ELSE IF Len(d) > DECIMALS /\ ~IsCharBoundary(d, DECIMALS) THEN Panic
               ELSE IF scaled = Err THEN Err
               ELSE (integer * Pow10(DECIMALS) + scaled) % WORD
BY DEF parse_usdc_amount, Scaled

(* parse_usdc_amount of any text.                                          *)
LEMMA AmountFacts ==
  ASSUME NEW text \in Seq(Byte)
  PROVE  LET s == Trim(text)
             read == parse_usdc_amount(text)
         IN  /\ read \notin {Err, Panic} => IsAmount(s) /\ read = Meant(s) % WORD
             /\ IsAmount(s) /\ IsDigits(DecimalPart(s)) /\ Meant(s) < WORD =>
                   read = Meant(s)
<1> DEFINE s == Trim(text)
           x == IntegerPart(s)
           d == DecimalPart(s)
           y == Padded(d)
           integer == ParsePart(x)
           p == ParsePart(y)
           k == DECIMALS - Len(y)
           scaled == IF p = Err THEN Err ELSE p * Pow10(k)
           result == parse_usdc_amount(text)
           a == Numeral(Unsigned(x))
           b == Numeral(Unsigned(y))
           P == Pow10(DECIMALS)
           Q == Pow10(k)
           Good == IsDigits(Unsigned(x)) /\ IsDigits(Unsigned(y))
<1>0. DECIMALS \in Nat /\ WORD \in Nat \ {0} /\ Err \notin Nat
  BY AmountAssumption
<1>1. s \in Seq(Byte)
  BY TrimType
<1> HIDE DEF s
<1>2. x \in Seq(Byte) /\ d \in Seq(Byte) /\ y \in Seq(Byte)
      /\ Len(y) <= DECIMALS
  BY <1>0, <1>1, PartsType, PaddedIs
<1>3. result = IF s = <<>> \/ integer = Err THEN Err
               ELSE IF Len(d) > DECIMALS /\ ~IsCharBoundary(d, DECIMALS) THEN Panic
               ELSE IF scaled = Err THEN Err
               ELSE (integer * P + scaled) % WORD
  BY AmountIs DEF s
<1>4. Good => a \in Nat /\ b \in Nat /\ k \in Nat /\ Meant(s) = a * P + b * Q
  BY <1>0, <1>1, MeantIs
<1>5. IsAmount(s) <=> s # <<>> /\ Good
  BY DEF IsAmount
<1>6. /\ integer # Err => IsDigits(Unsigned(x)) /\ integer = a
      /\ IsDigits(Unsigned(x)) /\ a < WORD => integer = a
  BY <1>2, PartIsRead DEF PartRead
<1>7. /\ p # Err => IsDigits(Unsigned(y)) /\ p = b
      /\ IsDigits(Unsigned(y)) /\ b < WORD => p = b
  BY <1>2, PartIsRead DEF PartRead
<1>8. k \in Nat => P \in Nat /\ P >= 1 /\ Q \in Nat /\ Q >= 1
  BY <1>0, PowFacts
<1> DEFINE U == IsDigits(Unsigned(x))
           V == IsDigits(Unsigned(y))
<1> HIDE DEF x, d, y, integer, p, k, result, a, b, P, Q, U, V
<1>9. ASSUME result \notin {Err, Panic}
      PROVE  IsAmount(s) /\ result = Meant(s) % WORD
  <2>1. s # <<>> /\ integer # Err /\ p # Err /\ result = (integer * P + p * Q) % WORD
    BY <1>3, <1>9 DEF Q
  <2>2. Good /\ integer = a /\ p = b
    BY <1>6, <1>7, <2>1
  <2> HIDE DEF Good
  <2> QED
    BY <1>4, <1>5, <2>1, <2>2
<1>10. ASSUME IsAmount(s), IsDigits(d), Meant(s) < WORD
       PROVE  result = Meant(s)
  <2>1. s # <<>> /\ Good
    BY <1>5, <1>10
  <2>2. a \in Nat /\ b \in Nat /\ k \in Nat /\ Meant(s) = a * P + b * Q
    BY <1>4, <2>1
  <2>3. P \in Nat /\ P >= 1 /\ Q \in Nat /\ Q >= 1
    BY <1>8, <2>2
  <2>4. Meant(s) \in Nat /\ a <= Meant(s) /\ b <= Meant(s)
    BY <2>2, <2>3, TermsBelow
  <2>5. a < WORD /\ b < WORD
    BY <1>0, <1>10, <2>2, <2>4
  <2>6. integer = a /\ p = b
    BY <1>6, <1>7, <2>1, <2>5
  <2>7. integer # Err /\ p # Err
    BY <1>0, <2>2, <2>6
  <2>8. b * Q \in Nat
    BY <2>2, <2>3
  <2>9. scaled = b * Q /\ scaled # Err
    BY <1>0, <2>6, <2>7, <2>8 DEF Q
  <2>10. ~(Len(d) > DECIMALS /\ ~IsCharBoundary(d, DECIMALS))
    <3>1. Len(d) \in Nat
      BY <1>2, LenProperties
    <3> QED
      BY <1>0, <1>10, <3>1, DigitsBoundary
  <2> HIDE DEF scaled
  <2>11. result = Meant(s) % WORD
    BY <1>3, <2>1, <2>2, <2>6, <2>7, <2>9, <2>10
  <2> DEFINE M == Meant(s)
  <2> HIDE DEF M
  <2>12. M % WORD = M
    <3>1. M \in Nat /\ M < WORD
      BY <1>10, <2>4 DEF M
    <3> QED
      BY <1>0, <3>1
  <2> QED
    BY <2>11, <2>12 DEF M
<1> QED
  BY <1>9, <1>10 DEF result, d, s

(* A call of parse_usdc_amount that has returned is the call made.         *)
AmountRead ==
    fn = "parse_usdc_amount" =>
        /\ arg \in Amounts
        /\ out # None => out = parse_usdc_amount(arg)

(* AmountRead is an invariant.                                             *)
LEMMA AmountReadInit == Init => AmountRead
BY DEF Init, AmountRead

LEMMA AmountReadStep == AmountRead /\ [Next]_vars => AmountRead'
<1> SUFFICES ASSUME AmountRead, [Next]_vars PROVE AmountRead'
  OBVIOUS
<1>1. CASE ParseAmount
  BY <1>1 DEF ParseAmount, Called, AmountRead
<1>2. CASE ParsePlaceholders \/ ScrubResponse \/ Substitute \/ SubstituteTemplate
  <2>1. fn' = fn /\ fn # "parse_usdc_amount"
    BY <1>2 DEF ParsePlaceholders, ScrubResponse, Substitute, SubstituteTemplate,
                Called
  <2> QED
    BY <2>1 DEF AmountRead
<1>3. CASE UNCHANGED vars
  BY <1>3 DEF AmountRead, vars
<1> QED
  BY <1>1, <1>2, <1>3 DEF Next

(* For every text, every number of decimals and every word size:           *)
(* parse_usdc_amount accepts only amounts, and returns what the text       *)
(* means, in units of the last decimal, modulo the word, and exactly if it *)
(* fits one.                                                               *)
THEOREM AmountsMeant == Spec => []AmountIsMeant
<1>1. Init => AmountRead
  BY AmountReadInit
<1>2. AmountRead /\ [Next]_vars => AmountRead'
  BY AmountReadStep
<1>3. AmountRead => AmountIsMeant
  <2> DEFINE s == Trim(arg)
  <2> SUFFICES ASSUME AmountRead, Returned("parse_usdc_amount")
               PROVE  /\ out \notin {Err, Panic} =>
                            IsAmount(s) /\ out = Meant(s) % WORD
                      /\ IsAmount(s) /\ IsDigits(DecimalPart(s)) /\ Meant(s) < WORD =>
                            out = Meant(s)
    BY DEF AmountIsMeant
  <2>1. arg \in Amounts /\ out = parse_usdc_amount(arg)
    BY DEF AmountRead, Returned
  <2>2. arg \in Seq(Byte)
    BY <2>1, AmountAssumption, WiderBytes
  <2> QED
    BY <2>1, <2>2, AmountFacts
<1> QED
  BY <1>1, <1>2, <1>3, PTL DEF Spec

=============================================================================
