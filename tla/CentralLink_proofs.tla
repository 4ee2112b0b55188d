------------------------- MODULE CentralLink_proofs -------------------------
(***************************************************************************)
(* What the Central makes of a byte stream, for every division of the      *)
(* stream into reads.                                                      *)
(***************************************************************************)
EXTENDS CentralLink, SequenceTheorems, WellFoundedInduction, TLAPS

----------------------------------------------------------------------------
(* Induction over a measure and functions defined by recursion on it, with *)
(* sets and functions in place of operators: a property is the set of      *)
(* values that have it, the right side of a recursive definition is a      *)
(* function of the function being defined and of its argument.             *)

\* Every nonempty set of naturals has a least element.
LEMMA LeastNat ==
    ASSUME NEW T \in SUBSET Nat, T # {}
    PROVE  \E n \in T : \A m \in T : n <= m
<1> DEFINE R == OpToRel(<, Nat)
<1>1. IsWellFoundedOn(R, Nat)
  BY NatLessThanWellFounded
<1>2. \A x, y \in Nat : x < y => <<x, y>> \in R
  BY DEF OpToRel
<1> HIDE DEF R
<1>3. PICK x \in T : \A y \in T : ~ (<<y, x>> \in R)
  BY <1>1, WFMin
<1>4. ASSUME NEW y \in T PROVE x <= y
  <2>1. y \in Nat /\ x \in Nat /\ ~ (<<y, x>> \in R)
    BY <1>3
  <2> QED
    BY <1>2, <2>1
<1> QED
  BY <1>4

\* Induction, with the set of numbers that have the property.
LEMMA SetInduction ==
    ASSUME NEW N \in SUBSET Nat, 0 \in N, \A n \in Nat : n \in N => n + 1 \in N
    PROVE  N = Nat
<1> SUFFICES ASSUME N # Nat PROVE FALSE
  OBVIOUS
<1>1. PICK n \in Nat \ N : \A k \in Nat \ N : n <= k
  BY LeastNat
<1>2. n - 1 \in Nat /\ n - 1 \notin N => FALSE
  BY <1>1
<1>3. n # 0
  BY <1>1
<1>4. n - 1 \in Nat /\ (n - 1) + 1 = n
  BY <1>3
<1> QED
  BY <1>1, <1>2, <1>4

\* What every element has once all smaller ones have it, all elements have.
LEMMA MeasureInduction ==
    ASSUME NEW S, NEW m \in [S -> Nat], NEW P \in SUBSET S,
           \A x \in S : (\A y \in S : m[y] < m[x] => y \in P) => x \in P
    PROVE  P = S
<1> SUFFICES ASSUME P # S PROVE FALSE
  OBVIOUS
<1> DEFINE T == { m[x] : x \in S \ P }
<1>1. T \in SUBSET Nat /\ T # {}
  OBVIOUS
<1>2. PICK n \in T : \A k \in T : n <= k
  BY <1>1, LeastNat
<1>3. PICK x \in S \ P : n = m[x]
  OBVIOUS
<1>4. ASSUME NEW y \in S, m[y] < m[x] PROVE y \in P
  <2>1. y \notin P => m[x] <= m[y]
    BY <1>2, <1>3
  <2>2. m[x] \in Nat /\ m[y] \in Nat
    OBVIOUS
  <2> QED
    BY <1>4, <2>1, <2>2
<1> QED
  BY <1>3, <1>4

\* D makes of a function on S another one, whose value for x depends on the
\* values for smaller elements only.
Descends(D, S, T, m) ==
    /\ T # {}
    /\ m \in [S -> Nat]
    /\ D \in [[S -> T] -> [S -> T]]
    /\ \A g, h \in [S -> T] : \A x \in S :
           (\A y \in S : m[y] < m[x] => g[y] = h[y]) => D[g][x] = D[h][x]

\* A definition by recursion on a measure defines a function.
LEMMA MeasureRecursion ==
    ASSUME NEW D, NEW S, NEW T, NEW m, Descends(D, S, T, m)
    PROVE  \E f \in [S -> T] : f = D[f]
<1>a. /\ T # {}
      /\ m \in [S -> Nat]
      /\ D \in [[S -> T] -> [S -> T]]
      /\ \A g, h \in [S -> T] : \A x \in S :
             (\A y \in S : m[y] < m[x] => g[y] = h[y]) => D[g][x] = D[h][x]
  BY DEF Descends
<1> USE <1>a
<1> DEFINE G(n) == { g \in [S -> T] : \A x \in S : m[x] < n => g[x] = D[g][x] }
<1>m. \A x \in S : m[x] \in Nat
  OBVIOUS
<1>d. \A g \in [S -> T] : \A x \in S : D[g][x] \in T
  OBVIOUS
<1>1. \A n \in Nat : G(n) # {}
  <2> DEFINE N == { n \in Nat : G(n) # {} }
  <2>1. 0 \in N
    <3>1. PICK t : t \in T
      OBVIOUS
    <3>2. [x \in S |-> t] \in G(0)
      BY <1>m, <3>1
    <3> QED
      BY <3>2
  <2>2. ASSUME NEW n \in Nat, n \in N PROVE n + 1 \in N
    <3>1. PICK g \in [S -> T] : \A x \in S : m[x] < n => g[x] = D[g][x]
      BY <2>2
    <3> DEFINE h == [x \in S |-> D[g][x]]
    <3>2. h \in [S -> T]
      BY <1>d
    <3>3. \A x \in S : m[x] < n => h[x] = g[x]
      BY <3>1
    <3>4. ASSUME NEW x \in S, m[x] < n + 1 PROVE h[x] = D[h][x]
      <4>1. \A y \in S : m[y] < m[x] => m[y] < n
        BY <1>m, <3>4
      <4>2. \A y \in S : m[y] < m[x] => h[y] = g[y]
        BY <3>3, <4>1
      <4> QED
        BY <3>2, <4>2
    <3>5. h \in G(n + 1)
      BY <3>2, <3>4
    <3>6. n + 1 \in Nat
      OBVIOUS
    <3> HIDE DEF G, h
    <3> QED
      BY <3>5, <3>6
  <2>3. N = Nat
    <3>1. N \in SUBSET Nat
      OBVIOUS
    <3> HIDE DEF N
    <3> QED
      BY <2>1, <2>2, <3>1, SetInduction
  <2> QED
    BY <2>3
<1>2. ASSUME NEW a \in Nat, NEW b \in Nat, NEW g \in G(a), NEW h \in G(b)
      PROVE  \A x \in S : m[x] < a /\ m[x] < b => g[x] = h[x]
  <2> DEFINE P == { x \in S : m[x] < a /\ m[x] < b => g[x] = h[x] }
  <2>1. ASSUME NEW x \in S, \A y \in S : m[y] < m[x] => y \in P PROVE x \in P
    <3> SUFFICES ASSUME m[x] < a, m[x] < b PROVE g[x] = h[x]
      OBVIOUS
    <3>1. ASSUME NEW y \in S, m[y] < m[x] PROVE g[y] = h[y]
      <4>1. m[y] < a /\ m[y] < b
        BY <1>m, <3>1
      <4> QED
        BY <2>1, <3>1, <4>1
    <3>2. D[g][x] = D[h][x]
      BY <3>1
    <3> QED
      BY <3>2
  <2>2. P \in SUBSET S
    OBVIOUS
  <2> HIDE DEF P
  <2>3. \A x \in S : (\A y \in S : m[y] < m[x] => y \in P) => x \in P
    BY <2>1
  <2>4. P = S
    BY <2>2, <2>3, MeasureInduction
  <2> QED
    BY <2>4 DEF P
<1> DEFINE upto(n) == CHOOSE g : g \in G(n)
           f == [x \in S |-> upto(m[x] + 1)[x]]
<1>3. \A n \in Nat : upto(n) \in G(n)
  BY <1>1
<1>4. \A n \in Nat : /\ upto(n) \in [S -> T]
                    /\ \A x \in S : m[x] < n => upto(n)[x] = D[upto(n)][x]
  BY <1>3
<1>5. ASSUME NEW a \in Nat, NEW b \in Nat, NEW x \in S, m[x] < a, m[x] < b
      PROVE  upto(a)[x] = upto(b)[x]
  <2>1. upto(a) \in G(a) /\ upto(b) \in G(b)
    BY <1>3
  <2> HIDE DEF G, upto
  <2> QED
    BY <1>2, <1>5, <2>1
<1> HIDE DEF G, upto
<1>6. f \in [S -> T]
  <2> SUFFICES ASSUME NEW x \in S PROVE upto(m[x] + 1)[x] \in T
    OBVIOUS
  <2>1. m[x] + 1 \in Nat
    BY <1>m
  <2> QED
    BY <1>4, <2>1
<1>7. ASSUME NEW x \in S PROVE f[x] = D[f][x]
  <2> DEFINE g == upto(m[x] + 1)
  <2>1. m[x] \in Nat /\ m[x] + 1 \in Nat /\ m[x] < m[x] + 1
    BY <1>m
  <2>2. g \in [S -> T] /\ g[x] = D[g][x]
    BY <1>4, <2>1
  <2>3. ASSUME NEW y \in S, m[y] < m[x] PROVE f[y] = g[y]
    <3>1. m[y] + 1 \in Nat /\ m[y] < m[y] + 1 /\ m[y] < m[x] + 1
      BY <1>m, <2>1, <2>3
    <3> QED
      BY <1>5, <2>1, <3>1
  <2>4. f[x] = g[x]
    OBVIOUS
  <2> HIDE DEF f, g
  <2>5. D[f][x] = D[g][x]
    BY <1>6, <2>2, <2>3
  <2> QED
    BY <2>2, <2>4, <2>5
<1> HIDE DEF f
<1>8. D[f] \in [S -> T]
  BY <1>6
<1>9. f = D[f]
  BY <1>6, <1>7, <1>8
<1> QED
  BY <1>6, <1>9

----------------------------------------------------------------------------
(* The extraction loop *)

Bytes == Seq(Byte)

\* Everything parseReport may return.
Parsed == { Parse(t, v) : t \in ReportTags, v \in Bytes }

Outcome == [left : Bytes, reports : Seq(Parsed)]

\* The extraction loop with e for the loop on what remains.
Loop(e, b) ==
    LET value   == SubSeq(b, 3, 2 + b[2])
        rest    == SubSeq(b, 3 + b[2], Len(b))
        slide   == e[Tail(b)]
        consume == LET x == e[rest] IN [x EXCEPT !.reports = <<Parse(b[1], value)>> \o @]
    IN  IF b = <<>> THEN [left |-> b, reports |-> <<>>]
        ELSE IF b[1] \notin ReportTags THEN slide
        ELSE IF Len(b) < 2 THEN [left |-> b, reports |-> <<>>]
        ELSE IF TooLong(b[2]) THEN slide
        ELSE IF Len(b) < 2 + b[2] THEN [left |-> b, reports |-> <<>>]
        ELSE IF b[1] # Time /\ ~ChildrenOk(value) THEN slide
        ELSE consume

\* The parts of a buffer that hold fewer bytes.
LEMMA Parts ==
    ASSUME NEW b \in Bytes, b # <<>>
    PROVE  /\ Len(b) \in Nat \ {0}
           /\ b[1] \in Byte
           /\ Tail(b) \in Bytes /\ Len(Tail(b)) = Len(b) - 1
           /\ Len(b) >= 2 => b[2] \in Byte /\ b[2] \in Nat
           /\ Len(b) >= 2 /\ Len(b) >= 2 + b[2] =>
                 /\ SubSeq(b, 3, 2 + b[2]) \in Bytes
                 /\ SubSeq(b, 3 + b[2], Len(b)) \in Bytes
                 /\ Len(SubSeq(b, 3, 2 + b[2])) = b[2]
                 /\ Len(SubSeq(b, 3 + b[2], Len(b))) = Len(b) - 2 - b[2]
<1>1. Len(b) \in Nat \ {0}
  BY EmptySeq DEF Bytes
<1>2. Tail(b) \in Bytes /\ Len(Tail(b)) = Len(b) - 1
  BY HeadTailProperties DEF Bytes
<1>3. \A i \in 1 .. Len(b) : b[i] \in Byte
  BY ElementOfSeq DEF Bytes
<1>4. b[1] \in Byte /\ (Len(b) >= 2 => b[2] \in Byte /\ b[2] \in Nat)
  <2>1. 1 \in 1 .. Len(b) /\ (Len(b) >= 2 => 2 \in 1 .. Len(b))
    BY <1>1
  <2>2. Byte \subseteq Nat
    BY DEF Byte
  <2> QED
    BY <1>3, <2>1, <2>2
<1>5. ASSUME NEW k \in Nat, k + 2 <= Len(b)
      PROVE  /\ SubSeq(b, 3, 2 + k) \in Bytes
             /\ SubSeq(b, 3 + k, Len(b)) \in Bytes
             /\ Len(SubSeq(b, 3, 2 + k)) = k
             /\ Len(SubSeq(b, 3 + k, Len(b))) = Len(b) - 2 - k
  <2>1. \A i \in 3 .. 2 + k : b[i] \in Byte
    BY <1>1, <1>3, <1>5
  <2>2. SubSeq(b, 3, 2 + k) \in Bytes /\ Len(SubSeq(b, 3, 2 + k)) = IF 3 <= 2 + k THEN 2 + k - 3 + 1 ELSE 0
    BY <2>1, SubSeqProperties DEF Bytes
  <2>3. \A i \in 3 + k .. Len(b) : b[i] \in Byte
    BY <1>1, <1>3, <1>5
  <2>4. SubSeq(b, 3 + k, Len(b)) \in Bytes
        /\ Len(SubSeq(b, 3 + k, Len(b))) = IF 3 + k <= Len(b) THEN Len(b) - (3 + k) + 1 ELSE 0
    BY <1>1, <2>3, SubSeqProperties DEF Bytes
  <2> QED
    BY <1>1, <1>5, <2>2, <2>4
<1>6. Len(b) >= 2 /\ Len(b) >= 2 + b[2] => b[2] \in Nat /\ b[2] + 2 <= Len(b)
  BY <1>1, <1>4
<1> QED
  BY <1>1, <1>2, <1>4, <1>5, <1>6

Value(b) == SubSeq(b, 3, 2 + b[2])
After(b) == SubSeq(b, 3 + b[2], Len(b))

\* b may become a report when more bytes come.
Partial(b) ==
    \/ b = <<>>
    \/ /\ b[1] \in ReportTags
       /\ Len(b) < 2 \/ (~TooLong(b[2]) /\ Len(b) < 2 + b[2])

\* b starts with a report.
Whole(b) ==
    /\ b # <<>>
    /\ b[1] \in ReportTags
    /\ Len(b) >= 2
    /\ ~TooLong(b[2])
    /\ Len(b) >= 2 + b[2]
    /\ b[1] = Time \/ ChildrenOk(Value(b))

\* The three things the loop does: wait, take a report, drop a byte.
LEMMA LoopCases ==
    ASSUME NEW e, NEW b \in Bytes
    PROVE  /\ Partial(b) => Loop(e, b) = [left |-> b, reports |-> <<>>]
           /\ Whole(b) => Loop(e, b) = [e[After(b)] EXCEPT !.reports = <<Parse(b[1], Value(b))>> \o @]
           /\ ~Partial(b) /\ ~Whole(b) => b # <<>> /\ Loop(e, b) = e[Tail(b)]
           /\ ~(Partial(b) /\ Whole(b))
<1>1. CASE b = <<>>
  BY <1>1 DEF Loop, Partial, Whole
<1>2. CASE b # <<>>
  <2>1. Len(b) \in Nat /\ (Len(b) >= 2 => b[2] \in Nat)
    BY <1>2, Parts
  <2>2. CASE Partial(b)
    <3>1. Loop(e, b) = [left |-> b, reports |-> <<>>]
      BY <1>2, <2>1, <2>2 DEF Loop, Partial
    <3>2. ~Whole(b)
      BY <1>2, <2>1, <2>2 DEF Partial, Whole
    <3> QED
      BY <2>2, <3>1, <3>2
  <2>3. CASE Whole(b)
    <3>1. ~Partial(b)
      BY <1>2, <2>1, <2>3 DEF Partial, Whole
    <3>2. b[1] \in ReportTags /\ ~(Len(b) < 2) /\ ~TooLong(b[2]) /\ ~(Len(b) < 2 + b[2])
          /\ ~(b[1] # Time /\ ~ChildrenOk(SubSeq(b, 3, 2 + b[2])))
      BY <2>1, <2>3 DEF Whole, Value
    <3>3. Loop(e, b) = [e[After(b)] EXCEPT !.reports = <<Parse(b[1], Value(b))>> \o @]
      BY <1>2, <3>2, Zenon DEF Loop, Value, After
    <3> QED
      BY <2>3, <3>1, <3>3
  <2>4. CASE ~Partial(b) /\ ~Whole(b)
    <3>1. \/ b[1] \notin ReportTags
          \/ ~(Len(b) < 2) /\ TooLong(b[2])
          \/ /\ ~(Len(b) < 2) /\ ~(Len(b) < 2 + b[2])
             /\ b[1] # Time /\ ~ChildrenOk(SubSeq(b, 3, 2 + b[2]))
      BY <1>2, <2>1, <2>4 DEF Partial, Whole, Value
    <3>2. ~(b[1] \in ReportTags /\ Len(b) < 2)
          /\ ~(b[1] \in ReportTags /\ ~TooLong(b[2]) /\ Len(b) < 2 + b[2])
      BY <1>2, <2>4 DEF Partial
    <3>3. Loop(e, b) = e[Tail(b)]
      BY <1>2, <3>1, <3>2, Zenon DEF Loop
    <3> QED
      BY <1>2, <2>4, <3>3
  <2> QED
    BY <2>2, <2>3, <2>4
<1> QED
  BY <1>1, <1>2

\* What the loop goes on with is shorter.
LEMMA Shorter ==
    ASSUME NEW b \in Bytes
    PROVE  /\ b # <<>> => Tail(b) \in Bytes /\ Len(Tail(b)) < Len(b)
           /\ Whole(b) => /\ After(b) \in Bytes /\ Len(After(b)) < Len(b)
                          /\ Value(b) \in Bytes /\ Len(Value(b)) = b[2]
                          /\ b[2] \in Byte
BY Parts DEF Whole, After, Value, Byte

\* What the loop does depends on what it does with fewer bytes.
LEMMA LoopTyped ==
    ASSUME NEW e, NEW b \in Bytes, \A c \in Bytes : Len(c) < Len(b) => e[c] \in Outcome
    PROVE  Loop(e, b) \in Outcome
<1>1. CASE Partial(b)
  <2>1. [left |-> b, reports |-> <<>>] \in Outcome
    BY EmptySeq DEF Outcome
  <2> QED
    BY <1>1, <2>1, LoopCases
<1>2. CASE Whole(b)
  <2>1. e[After(b)] \in Outcome /\ Value(b) \in Bytes
    BY <1>2, Shorter
  <2>2. Parse(b[1], Value(b)) \in Parsed
    BY <1>2, <2>1 DEF Parsed, Whole
  <2>3. <<Parse(b[1], Value(b))>> \in Seq(Parsed) /\ e[After(b)].reports \in Seq(Parsed)
    BY <2>1, <2>2 DEF Outcome
  <2>4. <<Parse(b[1], Value(b))>> \o e[After(b)].reports \in Seq(Parsed)
    BY <2>3, ConcatProperties
  <2>5. [e[After(b)] EXCEPT !.reports = <<Parse(b[1], Value(b))>> \o @] \in Outcome
    BY <2>1, <2>4 DEF Outcome
  <2> QED
    BY <1>2, <2>5, LoopCases
<1>3. CASE ~Partial(b) /\ ~Whole(b)
  <2>1. b # <<>> /\ Loop(e, b) = e[Tail(b)]
    BY <1>3, LoopCases
  <2> QED
    BY <2>1, Shorter
<1> QED
  BY <1>1, <1>2, <1>3

\* The loop looks at its results for shorter buffers only.
LEMMA LoopLocal ==
    ASSUME NEW e, NEW f, NEW b \in Bytes, \A c \in Bytes : Len(c) < Len(b) => e[c] = f[c]
    PROVE  Loop(e, b) = Loop(f, b)
<1>1. CASE Partial(b)
  BY <1>1, LoopCases
<1>2. CASE Whole(b)
  <2>1. e[After(b)] = f[After(b)]
    BY <1>2, Shorter
  <2>2. Loop(e, b) = [e[After(b)] EXCEPT !.reports = <<Parse(b[1], Value(b))>> \o @]
    BY <1>2, LoopCases
  <2>3. Loop(f, b) = [f[After(b)] EXCEPT !.reports = <<Parse(b[1], Value(b))>> \o @]
    BY <1>2, LoopCases
  <2> QED
    BY <2>1, <2>2, <2>3
<1>3. CASE ~Partial(b) /\ ~Whole(b)
  <2>1. b # <<>> /\ Loop(e, b) = e[Tail(b)]
    BY <1>3, LoopCases
  <2>2. Loop(f, b) = f[Tail(b)]
    BY <1>3, LoopCases
  <2>3. e[Tail(b)] = f[Tail(b)]
    BY <2>1, Shorter
  <2> QED
    BY <2>1, <2>2, <2>3
<1> QED
  BY <1>1, <1>2, <1>3

\* The extraction loop ends for every buffer.
LEMMA ExtractEquation ==
    /\ Extract \in [Bytes -> Outcome]
    /\ \A b \in Bytes : Extract[b] = Loop(Extract, b)
<1> DEFINE D == [e \in [Bytes -> Outcome] |-> [b \in Bytes |-> Loop(e, b)]]
           m == [b \in Bytes |-> Len(b)]
<1>1. m \in [Bytes -> Nat]
  BY LenProperties DEF Bytes
<1>2. D \in [[Bytes -> Outcome] -> [Bytes -> Outcome]]
  BY LoopTyped
<1>3. \A g, h \in [Bytes -> Outcome] : \A x \in Bytes :
          (\A y \in Bytes : m[y] < m[x] => g[y] = h[y]) => D[g][x] = D[h][x]
  BY LoopLocal
<1>4. Outcome # {}
  <2>1. [left |-> <<>>, reports |-> <<>>] \in Outcome
    BY EmptySeq DEF Outcome, Bytes
  <2> QED
    BY <2>1
<1>5. \E f \in [Bytes -> Outcome] : f = D[f]
  <2> HIDE DEF D, m
  <2>1. Descends(D, Bytes, Outcome, m)
    BY <1>1, <1>2, <1>3, <1>4 DEF Descends
  <2> QED
    BY <2>1, MeasureRecursion
<1>6. PICK f \in [Bytes -> Outcome] : f = [b \in Bytes |-> Loop(f, b)]
  BY <1>5
<1>7. Extract = CHOOSE g : g = [b \in Bytes |-> Loop(g, b)]
  BY DEF Extract, Loop, Bytes
<1>8. Extract = [b \in Bytes |-> Loop(Extract, b)]
  BY <1>6, <1>7
<1>9. \A b \in Bytes : Extract[b] \in Outcome
  <2> DEFINE P == { b \in Bytes : Extract[b] \in Outcome }
  <2>1. ASSUME NEW b \in Bytes, \A c \in Bytes : m[c] < m[b] => c \in P
        PROVE  b \in P
    <3>1. \A c \in Bytes : Len(c) < Len(b) => Extract[c] \in Outcome
      BY <2>1
    <3>2. Loop(Extract, b) \in Outcome
      BY <3>1, LoopTyped
    <3> QED
      BY <1>8, <3>2
  <2>2. P \in SUBSET Bytes
    OBVIOUS
  <2> HIDE DEF P, m
  <2>3. P = Bytes
    BY <1>1, <2>1, <2>2, MeasureInduction
  <2> QED
    BY <2>3 DEF P
<1> QED
  BY <1>8, <1>9

\* It does not matter how the three are put together.
Regroups(a, b, c) == (a \o b) \o c = a \o (b \o c)

\* Reports are put together in any grouping.
LEMMA ParsedAssociative ==
    ASSUME NEW a \in Seq(Parsed), NEW b \in Seq(Parsed), NEW c \in Seq(Parsed)
    PROVE  Regroups(a, b, c)
BY ConcatAssociative DEF Regroups

\* The loop, for Extract itself.
LEMMA ExtractCases ==
    ASSUME NEW b \in Bytes
    PROVE  /\ Extract[b] \in Outcome
           /\ Partial(b) => Extract[b] = [left |-> b, reports |-> <<>>]
           /\ Whole(b) =>
                 /\ Extract[After(b)] \in Outcome
                 /\ Extract[b].left = Extract[After(b)].left
                 /\ Extract[b].reports = <<Parse(b[1], Value(b))>> \o Extract[After(b)].reports
           /\ ~Partial(b) /\ ~Whole(b) => b # <<>> /\ Extract[b] = Extract[Tail(b)]
<1>1. Extract[b] \in Outcome /\ Extract[b] = Loop(Extract, b)
  BY ExtractEquation
<1>2. CASE Whole(b)
  <2>1. Extract[After(b)] \in Outcome
    BY <1>2, Shorter, ExtractEquation
  <2>2. Extract[b] = [Extract[After(b)] EXCEPT !.reports = <<Parse(b[1], Value(b))>> \o @]
    BY <1>1, <1>2, LoopCases
  <2>3. /\ Extract[b].left = Extract[After(b)].left
        /\ Extract[b].reports = <<Parse(b[1], Value(b))>> \o Extract[After(b)].reports
    BY <2>1, <2>2 DEF Outcome
  <2>4. ~Partial(b)
    BY <1>2, LoopCases
  <2> QED
    BY <1>1, <1>2, <2>1, <2>3, <2>4
<1>3. CASE ~Whole(b)
  BY <1>1, <1>3, LoopCases
<1> QED
  BY <1>2, <1>3

\* What is left may become a report when more bytes come.
LEMMA LeftPartial == \A b \in Bytes : Partial(Extract[b].left)
<1> DEFINE P == { b \in Bytes : Partial(Extract[b].left) }
           m == [b \in Bytes |-> Len(b)]
<1>a. ASSUME NEW b \in Bytes, \A c \in Bytes : Len(c) < Len(b) => c \in P
      PROVE  Partial(Extract[b].left)
  <2>1. CASE Partial(b)
    <3>1. Extract[b] = [left |-> b, reports |-> <<>>]
      BY <2>1, ExtractCases
    <3>2. Extract[b].left = b
      BY <3>1
    <3> QED
      BY <2>1, <3>2, Zenon
  <2>2. CASE Whole(b)
    <3>1. After(b) \in P
      BY <1>a, <2>2, Shorter
    <3>2. Partial(Extract[After(b)].left)
      BY <3>1
    <3>3. Extract[b].left = Extract[After(b)].left
      BY <2>2, ExtractCases
    <3> QED
      BY <3>2, <3>3, Zenon
  <2>3. CASE ~Partial(b) /\ ~Whole(b)
    <3>1. Extract[b] = Extract[Tail(b)] /\ Tail(b) \in P
      BY <1>a, <2>3, ExtractCases, Shorter
    <3> QED
      BY <3>1
  <2> QED
    BY <2>1, <2>2, <2>3
<1>1. ASSUME NEW b \in Bytes, \A c \in Bytes : Len(c) < Len(b) => c \in P
      PROVE  b \in P
  BY <1>a, <1>1
<1>2. m \in [Bytes -> Nat] /\ P \in SUBSET Bytes
  BY LenProperties DEF Bytes
<1>3. \A b \in Bytes : (\A c \in Bytes : m[c] < m[b] => c \in P) => b \in P
  <2> HIDE DEF P
  <2> QED
    BY <1>1
<1> HIDE DEF P, m
<1>4. P = Bytes
  BY <1>2, <1>3, MeasureInduction
<1> QED
  BY <1>4 DEF P

----------------------------------------------------------------------------
(* More bytes after a buffer *)

\* Bytes that follow do not change the start of a buffer.
LEMMA Longer ==
    ASSUME NEW b \in Bytes, NEW c \in Bytes, b # <<>>
    PROVE  /\ b \o c \in Bytes /\ b \o c # <<>> /\ Len(b \o c) = Len(b) + Len(c)
           /\ (b \o c)[1] = b[1]
           /\ Len(b) >= 2 => (b \o c)[2] = b[2]
           /\ Tail(b \o c) = Tail(b) \o c
           /\ Len(b) >= 2 /\ Len(b) >= 2 + b[2] =>
                 Value(b \o c) = Value(b) /\ After(b \o c) = After(b) \o c
<1>1. /\ b \o c \in Bytes /\ Len(b \o c) = Len(b) + Len(c)
      /\ \A i \in 1 .. Len(b) + Len(c) : (b \o c)[i] = IF i <= Len(b) THEN b[i] ELSE c[i - Len(b)]
  BY ConcatProperties DEF Bytes
<1>2. Len(b) \in Nat \ {0} /\ Len(c) \in Nat
  BY EmptySeq, LenProperties DEF Bytes
<1>3. b \o c # <<>>
  BY <1>1, <1>2, EmptySeq
<1>4. (b \o c)[1] = b[1] /\ (Len(b) >= 2 => (b \o c)[2] = b[2])
  BY <1>1, <1>2
<1> DEFINE d == b \o c
<1>5. \A i \in 1 .. Len(b) : d[i] = b[i]
  BY <1>1, <1>2
<1>6. \A i \in Len(b) + 1 .. Len(b) + Len(c) : d[i] = c[i - Len(b)]
  BY <1>1, <1>2
<1>7. d \in Bytes /\ Len(d) = Len(b) + Len(c)
  BY <1>1
<1> HIDE DEF d
<1>8. \A i \in 1 .. Len(d) : d[i] \in Byte
  BY <1>7, ElementOfSeq DEF Bytes
<1>9. ASSUME NEW k \in 1 .. Len(b) + 1
      PROVE  SubSeq(d, k, Len(d)) = SubSeq(b, k, Len(b)) \o c
  <2> DEFINE s == SubSeq(d, k, Len(d))
             t == SubSeq(b, k, Len(b))
  <2>1. /\ s \in Bytes /\ Len(s) = Len(d) - k + 1
        /\ \A i \in 1 .. Len(d) - k + 1 : s[i] = d[k + i - 1]
    <3>1. \A i \in k .. Len(d) : d[i] \in Byte
      BY <1>2, <1>7, <1>8
    <3>2. /\ s \in Seq(Byte) /\ Len(s) = IF k <= Len(d) THEN Len(d) - k + 1 ELSE 0
          /\ \A i \in 1 .. Len(d) - k + 1 : s[i] = d[k + i - 1]
      BY <1>2, <1>7, <3>1, SubSeqProperties
    <3> HIDE DEF s
    <3> QED
      BY <1>2, <1>7, <3>2 DEF Bytes
  <2>2. /\ t \in Bytes /\ Len(t) = Len(b) - k + 1
        /\ \A i \in 1 .. Len(b) - k + 1 : t[i] = b[k + i - 1]
    <3>1. \A i \in k .. Len(b) : b[i] \in Byte
      BY <1>2, ElementOfSeq DEF Bytes
    <3>2. /\ t \in Seq(Byte) /\ Len(t) = IF k <= Len(b) THEN Len(b) - k + 1 ELSE 0
          /\ \A i \in 1 .. Len(b) - k + 1 : t[i] = b[k + i - 1]
      BY <1>2, <3>1, SubSeqProperties
    <3> HIDE DEF t
    <3> QED
      BY <1>2, <3>2 DEF Bytes
  <2> HIDE DEF s, t
  <2>3. /\ t \o c \in Bytes /\ Len(t \o c) = Len(t) + Len(c)
        /\ \A i \in 1 .. Len(t) + Len(c) : (t \o c)[i] = IF i <= Len(t) THEN t[i] ELSE c[i - Len(t)]
    BY <2>2, ConcatProperties DEF Bytes
  <2>4. Len(s) = Len(t \o c)
    BY <1>2, <1>7, <2>1, <2>2, <2>3
  <2>5. ASSUME NEW i \in 1 .. Len(s) PROVE s[i] = (t \o c)[i]
    <3>1. s[i] = d[k + i - 1]
      BY <2>1, <2>5
    <3>2. (t \o c)[i] = IF i <= Len(t) THEN t[i] ELSE c[i - Len(t)]
      BY <2>3, <2>4, <2>5
    <3>3. CASE i <= Len(t)
      <4>1. i \in 1 .. Len(b) - k + 1 /\ k + i - 1 \in 1 .. Len(b)
        BY <1>2, <2>2, <2>5, <3>3
      <4> QED
        BY <1>5, <2>2, <3>1, <3>2, <3>3, <4>1
    <3>4. CASE ~(i <= Len(t))
      <4>1. k + i - 1 \in Len(b) + 1 .. Len(b) + Len(c) /\ k + i - 1 - Len(b) = i - Len(t)
        BY <1>2, <1>7, <2>1, <2>2, <2>5, <3>4
      <4> QED
        BY <1>6, <3>1, <3>2, <3>4, <4>1
    <3> QED
      BY <3>3, <3>4
  <2>6. s = t \o c
    BY <2>1, <2>3, <2>4, <2>5, SeqEqual DEF Bytes
  <2> QED
    BY <2>6 DEF s, t
<1>10. Tail(d) = Tail(b) \o c
  <2>1. Tail(d) = SubSeq(d, 2, Len(d)) /\ Tail(b) = SubSeq(b, 2, Len(b))
    BY <1>2, <1>3, <1>7, TailIsSubSeq DEF Bytes, d
  <2>2. 2 \in 1 .. Len(b) + 1
    BY <1>2
  <2> QED
    BY <1>9, <2>1, <2>2
<1>11. ASSUME Len(b) >= 2, Len(b) >= 2 + b[2] PROVE Value(d) = Value(b) /\ After(d) = After(b) \o c
  <2>1. b[2] \in Nat /\ d[2] = b[2]
    BY <1>4, <1>11, Parts DEF d
  <2>2. After(d) = After(b) \o c
    <3>1. 3 + b[2] \in 1 .. Len(b) + 1
      BY <1>2, <1>11, <2>1
    <3>2. SubSeq(d, 3 + b[2], Len(d)) = SubSeq(b, 3 + b[2], Len(b)) \o c
      BY <1>9, <3>1
    <3> QED
      BY <2>1, <3>2 DEF After
  <2>3. \A i \in 3 .. 2 + b[2] : b[i] \in Byte /\ d[i] = b[i]
    BY <1>2, <1>5, <1>11, <2>1, ElementOfSeq DEF Bytes
  <2>4. SubSeq(d, 3, 2 + b[2]) = SubSeq(b, 3, 2 + b[2])
    <3> DEFINE n == 2 + b[2]
    <3>1. n \in Int /\ 3 \in Int
      BY <2>1
    <3>2. /\ SubSeq(d, 3, n) \in Seq(Byte)
          /\ Len(SubSeq(d, 3, n)) = IF 3 <= n THEN n - 3 + 1 ELSE 0
          /\ \A i \in 1 .. n - 3 + 1 : SubSeq(d, 3, n)[i] = d[3 + i - 1]
      BY <2>3, <3>1, SubSeqProperties
    <3>3. /\ SubSeq(b, 3, n) \in Seq(Byte)
          /\ Len(SubSeq(b, 3, n)) = IF 3 <= n THEN n - 3 + 1 ELSE 0
          /\ \A i \in 1 .. n - 3 + 1 : SubSeq(b, 3, n)[i] = b[3 + i - 1]
      BY <2>3, <3>1, SubSeqProperties
    <3>4. ASSUME NEW i \in 1 .. Len(SubSeq(d, 3, n)) PROVE SubSeq(d, 3, n)[i] = SubSeq(b, 3, n)[i]
      <4>1. i \in 1 .. n - 3 + 1 /\ 3 + i - 1 \in 3 .. n
        BY <2>1, <3>2, <3>4
      <4> QED
        BY <2>3, <3>2, <3>3, <4>1
    <3> QED
      BY <3>2, <3>3, <3>4, SeqEqual
  <2> QED
    BY <2>1, <2>2, <2>4 DEF Value
<1> QED
  BY <1>1, <1>3, <1>4, <1>10, <1>11 DEF d

\* A buffer can be read in two parts: what is left of the first goes before
\* the second.
LEMMA TwoReads ==
    ASSUME NEW c \in Bytes
    PROVE  \A b \in Bytes :
               LET x == Extract[b]
                   y == Extract[x.left \o c]
               IN  /\ Extract[b \o c].left = y.left
                   /\ Extract[b \o c].reports = x.reports \o y.reports
<1> DEFINE Split(b) ==
             /\ Extract[b \o c].left = Extract[Extract[b].left \o c].left
             /\ Extract[b \o c].reports = Extract[b].reports \o Extract[Extract[b].left \o c].reports
           P == { b \in Bytes : Split(b) }
           m == [b \in Bytes |-> Len(b)]
<1>1. ASSUME NEW b \in Bytes, \A a \in Bytes : Len(a) < Len(b) => a \in P
      PROVE  Split(b)
  <2>1. CASE Partial(b)
    <3>1. Extract[b].left = b /\ Extract[b].reports = <<>>
      <4>1. Extract[b] = [left |-> b, reports |-> <<>>]
        BY <2>1, ExtractCases
      <4> QED
        BY <4>1
    <3>2. Extract[b \o c].reports \in Seq(Parsed)
      BY ConcatProperties, ExtractEquation DEF Outcome, Bytes
    <3>3. <<>> \o Extract[b \o c].reports = Extract[b \o c].reports
      BY <3>2, ConcatEmptySeq
    <3> QED
      BY <3>1, <3>3
  <2>2. CASE Whole(b)
    <3>1. b # <<>> /\ Len(b) >= 2 /\ Len(b) >= 2 + b[2] /\ b[2] \in Nat /\ Len(b) \in Nat
      BY <2>2, Parts DEF Whole
    <3> DEFINE d == b \o c
               a == After(b)
               r == Parse(b[1], Value(b))
    <3>2. /\ d \in Bytes /\ d # <<>> /\ d[1] = b[1] /\ d[2] = b[2]
          /\ Len(d) = Len(b) + Len(c) /\ Len(c) \in Nat
          /\ Value(d) = Value(b) /\ After(d) = a \o c
      BY <3>1, Longer, LenProperties DEF Bytes
    <3>3. Whole(d)
      BY <2>2, <3>1, <3>2 DEF Whole
    <3>4. a \in Bytes /\ a \in P
      BY <1>1, <2>2, Shorter
    <3>5. /\ Extract[a \o c].left = Extract[Extract[a].left \o c].left
          /\ Extract[a \o c].reports = Extract[a].reports \o Extract[Extract[a].left \o c].reports
      BY <3>4
    <3>6. /\ Extract[b].left = Extract[a].left
          /\ Extract[b].reports = <<r>> \o Extract[a].reports
      BY <2>2, ExtractCases
    <3>7. /\ Extract[d].left = Extract[a \o c].left
          /\ Extract[d].reports = <<r>> \o Extract[a \o c].reports
      BY <3>2, <3>3, ExtractCases
    <3>8. r \in Parsed
      BY <2>2, Shorter DEF Parsed, Whole
    <3>9. /\ <<r>> \in Seq(Parsed)
          /\ Extract[a].reports \in Seq(Parsed)
          /\ Extract[Extract[a].left \o c].reports \in Seq(Parsed)
      <4>1. Extract[a].left \in Bytes /\ Extract[a].reports \in Seq(Parsed)
        BY <3>4, ExtractCases DEF Outcome
      <4>2. Extract[a].left \o c \in Bytes
        BY <4>1, ConcatProperties DEF Bytes
      <4>3. Extract[Extract[a].left \o c].reports \in Seq(Parsed)
        BY <4>2, ExtractCases DEF Outcome
      <4> QED
        BY <3>8, <4>1, <4>3
    <3> DEFINE s == <<r>>
               t == Extract[a].reports
               u == Extract[Extract[a].left \o c].reports
    <3>10. s \o (t \o u) = (s \o t) \o u
      <4> HIDE DEF s, t, u
      <4>1. s \in Seq(Parsed) /\ t \in Seq(Parsed) /\ u \in Seq(Parsed)
        BY <3>9 DEF s, t, u
      <4>2. Regroups(s, t, u)
        BY <4>1, ParsedAssociative, Zenon
      <4> QED
        BY <4>2 DEF Regroups
    <3> HIDE DEF a, r, d
    <3> QED
      BY <3>5, <3>6, <3>7, <3>10 DEF d
  <2>3. CASE ~Partial(b) /\ ~Whole(b)
    <3>1. b # <<>> /\ Extract[b] = Extract[Tail(b)]
      BY <2>3, ExtractCases
    <3>2. Len(b) \in Nat /\ (Len(b) >= 2 => b[2] \in Nat)
      BY <3>1, Parts
    <3> DEFINE d == b \o c
    <3>3. /\ d \in Bytes /\ d # <<>> /\ d[1] = b[1] /\ Tail(d) = Tail(b) \o c
          /\ Len(d) = Len(b) + Len(c) /\ Len(c) \in Nat
          /\ Len(b) >= 2 => d[2] = b[2]
          /\ Len(b) >= 2 /\ Len(b) >= 2 + b[2] => Value(d) = Value(b)
      BY <3>1, Longer, LenProperties DEF Bytes
    <3> HIDE DEF d
    <3>4. ~Partial(d) /\ ~Whole(d)
      <4>1. CASE b[1] \notin ReportTags
        BY <3>3, <4>1 DEF Partial, Whole
      <4>2. CASE b[1] \in ReportTags /\ Len(b) >= 2 /\ TooLong(b[2])
        <5>1. ~(Len(d) < 2) /\ d[2] = b[2] /\ TooLong(d[2])
          BY <3>2, <3>3, <4>2
        <5> QED
          BY <3>3, <5>1 DEF Partial, Whole
      <4>3. CASE /\ b[1] \in ReportTags /\ Len(b) >= 2 /\ Len(b) >= 2 + b[2]
                 /\ ~(b[1] = Time \/ ChildrenOk(Value(b)))
        <5>1. d[2] = b[2] /\ ~(Len(d) < 2) /\ ~(Len(d) < 2 + d[2]) /\ Value(d) = Value(b)
          BY <3>2, <3>3, <4>3
        <5> QED
          BY <3>3, <4>3, <5>1 DEF Partial, Whole
      <4>4. \/ b[1] \notin ReportTags
            \/ b[1] \in ReportTags /\ Len(b) >= 2 /\ TooLong(b[2])
            \/ /\ b[1] \in ReportTags /\ Len(b) >= 2 /\ Len(b) >= 2 + b[2]
               /\ ~(b[1] = Time \/ ChildrenOk(Value(b)))
        BY <2>3, <3>1, <3>2 DEF Partial, Whole
      <4> QED
        BY <4>1, <4>2, <4>3, <4>4
    <3>5. Extract[d] = Extract[Tail(b) \o c]
      BY <3>3, <3>4, ExtractCases
    <3>6. Tail(b) \in P
      BY <1>1, <3>1, Shorter
    <3> QED
      BY <3>1, <3>5, <3>6 DEF d
  <2> QED
    BY <2>1, <2>2, <2>3
<1>2. m \in [Bytes -> Nat] /\ P \in SUBSET Bytes
  BY LenProperties DEF Bytes
<1>3. \A b \in Bytes : (\A a \in Bytes : m[a] < m[b] => a \in P) => b \in P
  <2> SUFFICES ASSUME NEW b \in Bytes, \A a \in Bytes : m[a] < m[b] => a \in P
               PROVE  b \in P
    OBVIOUS
  <2>1. \A a \in Bytes : Len(a) < Len(b) => a \in P
    OBVIOUS
  <2>2. Split(b)
    <3> HIDE DEF P, m, Split
    <3> QED
      BY <1>1, <2>1
  <2> QED
    BY <2>2
<1> HIDE DEF P, m
<1>4. P = Bytes
  BY <1>2, <1>3, MeasureInduction
<1> QED
  BY <1>4 DEF P
----------------------------------------------------------------------------
(* The bytes of a number *)

\* Two bytes of a word, and back.
LEMMA U16Bytes ==
    ASSUME NEW n \in Word
    PROVE  /\ U16(n) \in Bytes /\ Len(U16(n)) = 2
           /\ U16(n)[1] + 256 * U16(n)[2] = n
<1>1. n \in Int /\ 0 <= n /\ n <= 65535
  BY DEF Word
<1>2. n % 256 \in Int /\ 0 <= n % 256 /\ n % 256 <= 255
  BY <1>1
<1>3. n \div 256 \in Int /\ 0 <= n \div 256 /\ n \div 256 <= 255
  BY <1>1
<1>4. n % 256 \in Byte /\ n \div 256 \in Byte
  BY <1>2, <1>3 DEF Byte
<1>5. (n % 256) + 256 * (n \div 256) = n
  BY <1>1
<1> DEFINE a == n % 256
           b == n \div 256
<1>6. U16(n) = <<a, b>>
  BY DEF U16
<1>7. a \in Byte /\ b \in Byte /\ a + 256 * b = n
  BY <1>4, <1>5
<1> HIDE DEF a, b
<1>8. <<a, b>> \in Bytes /\ Len(<<a, b>>) = 2 /\ <<a, b>>[1] = a /\ <<a, b>>[2] = b
  BY <1>7 DEF Bytes
<1> QED
  BY <1>6, <1>7, <1>8

\* A number after other bytes.
LEMMA PutU16 ==
    ASSUME NEW s \in Bytes, NEW n \in Word
    PROVE  LET x == s \o U16(n) IN
           /\ x \in Bytes /\ Len(x) = Len(s) + 2
           /\ \A i \in 1 .. Len(s) : x[i] = s[i]
           /\ x[Len(s) + 1] + 256 * x[Len(s) + 2] = n
<1> DEFINE u == U16(n)
           x == s \o u
<1>1. u \in Bytes /\ Len(u) = 2 /\ u[1] + 256 * u[2] = n
  BY U16Bytes
<1>2. Len(s) \in Nat
  BY LenProperties DEF Bytes
<1> HIDE DEF u
<1>c. /\ x \in Bytes /\ Len(x) = Len(s) + Len(u)
      /\ \A i \in 1 .. Len(s) + Len(u) : x[i] = IF i <= Len(s) THEN s[i] ELSE u[i - Len(s)]
  BY <1>1, ConcatProperties DEF Bytes
<1> HIDE DEF x
<1>3. /\ x \in Bytes /\ Len(x) = Len(s) + 2
      /\ \A i \in 1 .. Len(s) + 2 : x[i] = IF i <= Len(s) THEN s[i] ELSE u[i - Len(s)]
  BY <1>1, <1>c
<1>4. x[Len(s) + 1] = u[1] /\ x[Len(s) + 2] = u[2]
  <2>1. (Len(s) + 1) - Len(s) = 1 /\ (Len(s) + 2) - Len(s) = 2
    BY <1>2
  <2>2. /\ Len(s) + 1 \in 1 .. Len(s) + 2 /\ ~(Len(s) + 1 <= Len(s))
        /\ Len(s) + 2 \in 1 .. Len(s) + 2 /\ ~(Len(s) + 2 <= Len(s))
    BY <1>2
  <2> QED
    BY <1>3, <2>1, <2>2
<1>5. \A i \in 1 .. Len(s) : x[i] = s[i]
  BY <1>2, <1>3
<1> QED
  BY <1>1, <1>3, <1>4, <1>5 DEF x, u

\* The number at place i.
LEMMA GetU16 ==
    ASSUME NEW s \in Bytes, NEW i \in Nat \ {0}, i + 1 <= Len(s)
    PROVE  AsU16(SubSeq(s, i, i + 1)) = s[i] + 256 * s[i + 1]
<1>1. Len(s) \in Nat
  BY LenProperties DEF Bytes
<1>2. \A j \in i .. i + 1 : s[j] \in Byte
  BY <1>1, ElementOfSeq DEF Bytes
<1>3. \A j \in 1 .. (i + 1) - i + 1 : SubSeq(s, i, i + 1)[j] = s[i + j - 1]
  BY <1>2, SubSeqProperties
<1>4. /\ 1 \in 1 .. (i + 1) - i + 1 /\ 2 \in 1 .. (i + 1) - i + 1
      /\ i + 1 - 1 = i /\ i + 2 - 1 = i + 1
  OBVIOUS
<1> QED
  BY <1>3, <1>4 DEF AsU16

\* bytes_get_u32 of bytes_put_u32.
LEMMA U32Bytes ==
    ASSUME NEW n \in DWord
    PROVE  U32(n) \in Bytes /\ Len(U32(n)) = 4 /\ AsU32(U32(n)) = n
<1> DEFINE l == n % 65536
           h == n \div 65536
<1>1. n \in Nat /\ h \in Word
  BY DEF DWord
<1>2. 0 <= l /\ l <= 65535 /\ l \in Nat
  BY <1>1
<1>3. n = l + 65536 * h
  BY <1>1
<1>5. U32(n) = U16(l) \o U16(h)
  BY DEF U32
<1> HIDE DEF l, h
<1>4. l \in Word /\ l \in Nat /\ h \in Nat
  <2>1. l \in Word
    BY <1>2 DEF Word
  <2>2. Word \subseteq Nat
    BY DEF Word
  <2> QED
    BY <1>1, <2>1, <2>2
<1> DEFINE s == U16(l)
           x == s \o U16(h)
<1>6. s \in Bytes /\ Len(s) = 2 /\ s[1] + 256 * s[2] = l
  BY <1>4, U16Bytes
<1> HIDE DEF s
<1>7. /\ x \in Bytes /\ Len(x) = 4
      /\ \A i \in 1 .. 2 : x[i] = s[i]
      /\ x[3] + 256 * x[4] = h
  <2>1. /\ x \in Bytes /\ Len(x) = Len(s) + 2
        /\ \A i \in 1 .. Len(s) : x[i] = s[i]
        /\ x[Len(s) + 1] + 256 * x[Len(s) + 2] = h
    BY <1>1, <1>6, PutU16
  <2> HIDE DEF x
  <2> QED
    BY <1>6, <2>1
<1> HIDE DEF x
<1>8. x[1] = s[1] /\ x[2] = s[2]
  BY <1>7
<1>9. AsU16(x) = l
  BY <1>6, <1>8 DEF AsU16
<1>10. AsU16(SubSeq(x, 3, 4)) = h
  <2>1. x \in Bytes /\ 3 \in Nat \ {0} /\ 3 + 1 <= Len(x)
    BY <1>7
  <2>2. AsU16(SubSeq(x, 3, 3 + 1)) = x[3] + 256 * x[3 + 1]
    BY <2>1, GetU16, Zenon
  <2> QED
    BY <1>7, <2>2
<1>11. AsU32(x) = n
  BY <1>3, <1>9, <1>10 DEF AsU32
<1> QED
  BY <1>5, <1>7, <1>11 DEF x, s

----------------------------------------------------------------------------
(* A value with its tag and its length *)

\* The parts of what tlv_write makes, with other bytes after it.
LEMMA TlvParts ==
    ASSUME NEW t \in Byte, NEW x \in Bytes, Len(x) \in Byte, NEW c \in Bytes
    PROVE  LET v == Tlv(t, x) \o c IN
           /\ Tlv(t, x) \in Bytes /\ Len(Tlv(t, x)) = 2 + Len(x)
           /\ v \in Bytes /\ v # <<>> /\ Len(v) = 2 + Len(x) + Len(c)
           /\ v[1] = t /\ v[2] = Len(x)
           /\ Value(v) = x /\ After(v) = c
<1> DEFINE h == <<t, Len(x)>>
           w == h \o x
           v == w \o c
           n == Len(x)
<1>1. n \in Nat /\ Len(c) \in Nat
  BY LenProperties DEF Bytes
<1>2. h \in Bytes /\ Len(h) = 2 /\ h[1] = t /\ h[2] = n
  BY <1>1 DEF Bytes
<1>3. Tlv(t, x) = w
  BY DEF Tlv
<1> HIDE DEF h
<1>a. /\ w \in Bytes /\ Len(w) = Len(h) + Len(x)
      /\ \A i \in 1 .. Len(h) + Len(x) : w[i] = IF i <= Len(h) THEN h[i] ELSE x[i - Len(h)]
  BY <1>2, ConcatProperties DEF Bytes
<1> HIDE DEF w
<1>4. /\ w \in Bytes /\ Len(w) = 2 + n
      /\ \A i \in 1 .. 2 + n : w[i] = IF i <= 2 THEN h[i] ELSE x[i - 2]
  BY <1>2, <1>a
<1>b. /\ v \in Bytes /\ Len(v) = Len(w) + Len(c)
      /\ \A i \in 1 .. Len(w) + Len(c) : v[i] = IF i <= Len(w) THEN w[i] ELSE c[i - Len(w)]
  BY <1>4, ConcatProperties DEF Bytes
<1>5. /\ v \in Bytes /\ Len(v) = 2 + n + Len(c)
      /\ \A i \in 1 .. 2 + n + Len(c) : v[i] = IF i <= 2 + n THEN w[i] ELSE c[i - (2 + n)]
  <2> HIDE DEF v
  <2> QED
    BY <1>4, <1>b
<1>6. w # <<>> /\ v # <<>>
  <2>1. Len(v) > 0 /\ Len(w) > 0
    BY <1>1, <1>4, <1>5
  <2> HIDE DEF v
  <2> QED
    BY <2>1, EmptySeq
<1>7. w[1] = t /\ w[2] = n
  BY <1>1, <1>2, <1>4
<1>8. v[1] = t /\ v[2] = n
  BY <1>1, <1>5, <1>7
<1>9. Value(v) = x
  <2>1. \A i \in 3 .. 2 + n : v[i] \in Byte
    BY <1>1, <1>5, ElementOfSeq DEF Bytes
  <2>2. \A i \in 1 .. n : v[2 + i] = x[i]
    <3> SUFFICES ASSUME NEW i \in 1 .. n PROVE v[2 + i] = x[i]
      OBVIOUS
    <3>1. 2 + i \in 1 .. 2 + n /\ 2 + i <= 2 + n /\ ~(2 + i <= 2) /\ (2 + i) - 2 = i
          /\ 2 + i \in 1 .. 2 + n + Len(c)
      BY <1>1
    <3>2. v[2 + i] = w[2 + i]
      BY <1>5, <3>1
    <3>3. w[2 + i] = x[i]
      BY <1>4, <3>1
    <3> QED
      BY <3>2, <3>3
  <2> HIDE DEF v
  <2>3. /\ SubSeq(v, 3, 2 + n) \in Seq(Byte)
        /\ Len(SubSeq(v, 3, 2 + n)) = IF 3 <= 2 + n THEN 2 + n - 3 + 1 ELSE 0
        /\ \A i \in 1 .. 2 + n - 3 + 1 : SubSeq(v, 3, 2 + n)[i] = v[3 + i - 1]
    BY <1>1, <2>1, SubSeqProperties
  <2> DEFINE s == SubSeq(v, 3, 2 + n)
  <2> HIDE DEF s
  <2>4. s \in Seq(Byte) /\ Len(s) = n
    BY <1>1, <2>3 DEF s
  <2>5. ASSUME NEW i \in 1 .. n PROVE s[i] = x[i]
    <3>1. i \in 1 .. 2 + n - 3 + 1 /\ 3 + i - 1 = 2 + i
      BY <1>1
    <3>2. s[i] = v[3 + i - 1]
      BY <2>3, <3>1 DEF s
    <3> QED
      BY <2>2, <3>1, <3>2
  <2>6. s = x
    BY <2>4, <2>5, SeqEqual DEF Bytes
  <2> QED
    BY <1>8, <2>6 DEF Value, s
<1>10. After(v) = c
  <2>0. Len(w) >= 2 /\ Len(w) >= 2 + w[2]
    BY <1>1, <1>4, <1>7
  <2>1. Value(w \o c) = Value(w) /\ After(w \o c) = After(w) \o c
    BY <1>4, <1>6, <2>0, Longer
  <2>2. After(w) = <<>>
    <3>1. After(w) = SubSeq(w, 3 + n, 2 + n)
      BY <1>4, <1>7 DEF After
    <3>2. SubSeq(w, 3 + n, 2 + n) = <<>>
      BY <1>1, SubSeqEmpty
    <3> QED
      BY <3>1, <3>2
  <2> QED
    BY <2>1, <2>2, ConcatEmptySeq DEF Bytes
<1> HIDE DEF v
<1>11. /\ w \in Bytes /\ Len(w) = 2 + Len(x)
       /\ v \in Bytes /\ v # <<>> /\ Len(v) = 2 + Len(x) + Len(c)
       /\ v[1] = t /\ v[2] = Len(x)
       /\ Value(v) = x /\ After(v) = c
  BY <1>4, <1>5, <1>6, <1>8, <1>9, <1>10
<1> QED
  BY <1>3, <1>11 DEF v

----------------------------------------------------------------------------
(* The children of a value *)

\* v starts with a child.
Fits(v) == Len(v) >= 2 /\ Len(v) >= 2 + v[2]

\* The two recursions over the children, with f for what remains.
FillStep(f, v) == v = <<>> \/ (Fits(v) /\ f[After(v)])
ListStep(f, v) == IF Fits(v) THEN << [tag |-> v[1], value |-> Value(v)] >> \o f[After(v)] ELSE <<>>

Named(t, x) == [tag |-> t, value |-> x]

Found == [tag : Byte, value : Bytes]

\* The first child and what follows it.
LEMMA FitsParts ==
    ASSUME NEW v \in Bytes, Fits(v)
    PROVE  /\ v # <<>>
           /\ v[1] \in Byte /\ Value(v) \in Bytes
           /\ After(v) \in Bytes /\ Len(After(v)) < Len(v)
<1>1. v # <<>>
  <2>1. Len(v) >= 2
    BY DEF Fits
  <2>2. Len(<<>>) = 0
    BY EmptySeq
  <2> QED
    BY <2>1, <2>2
<1>2. Len(v) \in Nat /\ v[2] \in Nat
  BY <1>1, Parts DEF Fits
<1> QED
  BY <1>1, <1>2, Parts DEF Fits, Value, After

\* The children of a value are counted down to the end.
LEMMA BytesInduction ==
    ASSUME NEW P \in SUBSET Bytes,
           \A b \in Bytes : (\A c \in Bytes : Len(c) < Len(b) => c \in P) => b \in P
    PROVE  P = Bytes
<1> DEFINE m == [b \in Bytes |-> Len(b)]
<1>1. m \in [Bytes -> Nat]
  BY LenProperties DEF Bytes
<1>2. \A b \in Bytes : (\A c \in Bytes : m[c] < m[b] => c \in P) => b \in P
  OBVIOUS
<1> HIDE DEF m
<1> QED
  BY <1>1, <1>2, MeasureInduction

\* Buffers are put together in any grouping.
LEMMA BytesAssociative ==
    ASSUME NEW a \in Bytes, NEW b \in Bytes, NEW c \in Bytes
    PROVE  (a \o b) \o c = a \o (b \o c)
BY ConcatAssociative DEF Bytes

\* The same, with the equation under its name.
LEMMA BytesRegroup ==
    ASSUME NEW a \in Bytes, NEW b \in Bytes, NEW c \in Bytes
    PROVE  Regroups(a, b, c)
BY BytesAssociative DEF Regroups

\* Filled is what its definition says.
LEMMA FilledEquation == \A v \in Bytes : Filled[v] = FillStep(Filled, v)
<1> DEFINE D == [f \in [Bytes -> BOOLEAN] |-> [v \in Bytes |-> FillStep(f, v)]]
           m == [v \in Bytes |-> Len(v)]
<1>1. m \in [Bytes -> Nat]
  BY LenProperties DEF Bytes
<1>2. D \in [[Bytes -> BOOLEAN] -> [Bytes -> BOOLEAN]]
  BY Zenon DEF FillStep
<1>3. ASSUME NEW g \in [Bytes -> BOOLEAN], NEW h \in [Bytes -> BOOLEAN], NEW v \in Bytes,
             \A c \in Bytes : Len(c) < Len(v) => g[c] = h[c]
      PROVE  FillStep(g, v) = FillStep(h, v)
  <2>1. CASE Fits(v)
    <3>1. g[After(v)] = h[After(v)]
      BY <1>3, <2>1, FitsParts
    <3> QED
      BY <3>1, Zenon DEF FillStep
  <2>2. CASE ~Fits(v)
    BY <2>2, Zenon DEF FillStep
  <2> QED
    BY <2>1, <2>2
<1>4. \A g, h \in [Bytes -> BOOLEAN] : \A x \in Bytes :
          (\A y \in Bytes : m[y] < m[x] => g[y] = h[y]) => D[g][x] = D[h][x]
  BY <1>3
<1>5. \E f \in [Bytes -> BOOLEAN] : f = D[f]
  <2> HIDE DEF D, m
  <2>1. Descends(D, Bytes, BOOLEAN, m)
    BY <1>1, <1>2, <1>4 DEF Descends
  <2> QED
    BY <2>1, MeasureRecursion
<1>6. PICK f \in [Bytes -> BOOLEAN] : f = [v \in Bytes |-> FillStep(f, v)]
  BY <1>5
<1>7. Filled = CHOOSE g : g = [v \in Bytes |-> FillStep(g, v)]
  BY Zenon DEF Filled, FillStep, Fits, After, Bytes
<1>8. Filled = [v \in Bytes |-> FillStep(Filled, v)]
  BY <1>6, <1>7
<1> QED
  BY <1>8

\* Children is what its definition says.
LEMMA ChildrenEquation ==
    /\ Children \in [Bytes -> Seq(Found)]
    /\ \A v \in Bytes : Children[v] = ListStep(Children, v)
<1> DEFINE D == [f \in [Bytes -> Seq(Found)] |-> [v \in Bytes |-> ListStep(f, v)]]
           m == [v \in Bytes |-> Len(v)]
<1>1. m \in [Bytes -> Nat]
  BY LenProperties DEF Bytes
<1>2. ASSUME NEW f, NEW v \in Bytes, \A c \in Bytes : Len(c) < Len(v) => f[c] \in Seq(Found)
      PROVE  ListStep(f, v) \in Seq(Found)
  <2>1. CASE Fits(v)
    <3>1. f[After(v)] \in Seq(Found) /\ v[1] \in Byte /\ Value(v) \in Bytes
      BY <1>2, <2>1, FitsParts
    <3>2. << [tag |-> v[1], value |-> Value(v)] >> \in Seq(Found)
      BY <3>1 DEF Found
    <3>3. << [tag |-> v[1], value |-> Value(v)] >> \o f[After(v)] \in Seq(Found)
      BY <3>1, <3>2, ConcatProperties
    <3> QED
      BY <2>1, <3>3 DEF ListStep
  <2>2. CASE ~Fits(v)
    BY <2>2, EmptySeq DEF ListStep
  <2> QED
    BY <2>1, <2>2
<1>3. ASSUME NEW g, NEW h, NEW v \in Bytes, \A c \in Bytes : Len(c) < Len(v) => g[c] = h[c]
      PROVE  ListStep(g, v) = ListStep(h, v)
  <2>1. CASE Fits(v)
    <3>1. g[After(v)] = h[After(v)]
      BY <1>3, <2>1, FitsParts
    <3> QED
      BY <3>1, Zenon DEF ListStep
  <2>2. CASE ~Fits(v)
    BY <2>2, Zenon DEF ListStep
  <2> QED
    BY <2>1, <2>2
<1>4. D \in [[Bytes -> Seq(Found)] -> [Bytes -> Seq(Found)]]
  BY <1>2
<1>5. \A g, h \in [Bytes -> Seq(Found)] : \A x \in Bytes :
          (\A y \in Bytes : m[y] < m[x] => g[y] = h[y]) => D[g][x] = D[h][x]
  BY <1>3
<1>6. Seq(Found) # {}
  BY EmptySeq
<1>7. \E f \in [Bytes -> Seq(Found)] : f = D[f]
  <2> HIDE DEF D, m
  <2>1. Descends(D, Bytes, Seq(Found), m)
    BY <1>1, <1>4, <1>5, <1>6 DEF Descends
  <2> QED
    BY <2>1, MeasureRecursion
<1>8. PICK f \in [Bytes -> Seq(Found)] : f = [v \in Bytes |-> ListStep(f, v)]
  BY <1>7
<1> DEFINE Listed(g, v) == IF Len(v) < 2 \/ Len(v) < 2 + v[2] THEN <<>>
                           ELSE << [tag |-> v[1], value |-> Value(v)] >> \o g[After(v)]
<1>9. Children = CHOOSE g : g = [v \in Bytes |-> Listed(g, v)]
  BY Zenon DEF Children, Value, After, Bytes
<1>10. \A g : \A v \in Bytes : Listed(g, v) = ListStep(g, v)
  <2> SUFFICES ASSUME NEW g, NEW v \in Bytes
               PROVE  Listed(g, v) = ListStep(g, v)
    OBVIOUS
  <2>1. Len(v) \in Nat /\ (Len(v) >= 2 => v[2] \in Nat)
    <3>1. CASE v = <<>>
      BY <3>1, EmptySeq
    <3>2. CASE v # <<>>
      BY <3>2, Parts
    <3> QED
      BY <3>1, <3>2
  <2>2. (Len(v) < 2 \/ Len(v) < 2 + v[2]) <=> ~Fits(v)
    BY <2>1 DEF Fits
  <2> QED
    BY <2>2, Zenon DEF ListStep
<1> HIDE DEF Listed
<1>11. \A g : [v \in Bytes |-> Listed(g, v)] = [v \in Bytes |-> ListStep(g, v)]
  BY <1>10, Zenon
<1>12. Children = CHOOSE g : g = [v \in Bytes |-> ListStep(g, v)]
  BY <1>9, <1>11, Zenon
<1>13. Children = [v \in Bytes |-> ListStep(Children, v)]
  BY <1>8, <1>12
<1>14. Children \in [Bytes -> Seq(Found)]
  <2> DEFINE P == { v \in Bytes : Children[v] \in Seq(Found) }
  <2>1. ASSUME NEW v \in Bytes, \A c \in Bytes : Len(c) < Len(v) => c \in P
        PROVE  v \in P
    <3>1. \A c \in Bytes : Len(c) < Len(v) => Children[c] \in Seq(Found)
      BY <2>1
    <3>2. ListStep(Children, v) \in Seq(Found)
      BY <1>2, <3>1
    <3> QED
      BY <1>13, <3>2
  <2>2. P \in SUBSET Bytes
    OBVIOUS
  <2> HIDE DEF P
  <2>3. P = Bytes
    BY <2>1, <2>2, BytesInduction
  <2>4. \A v \in Bytes : Children[v] \in Seq(Found)
    BY <2>3 DEF P
  <2> QED
    BY <1>13, <2>4
<1> QED
  BY <1>13, <1>14

\* The children of a value.
Kids(v) == Children[v]

\* A value without children.
LEMMA NoChildren == ChildrenOk(<<>>) /\ Kids(<<>>) = <<>>
<1>1. <<>> \in Bytes /\ Len(<<>>) = 0
  BY EmptySeq DEF Bytes
<1>2. ~Fits(<<>>)
  BY <1>1 DEF Fits
<1> QED
  BY <1>1, <1>2, FilledEquation, ChildrenEquation DEF FillStep, ListStep, ChildrenOk, Kids

\* A child more, in front.
LEMMA OneChild ==
    ASSUME NEW t \in Byte, NEW x \in Bytes, Len(x) \in Byte, NEW c \in Bytes
    PROVE  LET v == Tlv(t, x) \o c IN
           /\ v \in Bytes /\ Len(v) = 2 + Len(x) + Len(c)
           /\ ChildrenOk(c) => ChildrenOk(v)
           /\ Kids(v) = << Named(t, x) >> \o Kids(c)
<1> DEFINE v == Tlv(t, x) \o c
<1>1. /\ v \in Bytes /\ v # <<>> /\ Len(v) = 2 + Len(x) + Len(c)
      /\ v[1] = t /\ v[2] = Len(x)
      /\ Value(v) = x /\ After(v) = c
  BY TlvParts
<1> HIDE DEF v
<1>2. Len(x) \in Nat /\ Len(c) \in Nat
  BY LenProperties DEF Bytes
<1>3. Fits(v)
  BY <1>1, <1>2 DEF Fits
<1>4. ChildrenOk(c) => ChildrenOk(v)
  <2>1. Filled[v] = FillStep(Filled, v)
    BY <1>1, FilledEquation
  <2> QED
    BY <1>1, <1>3, <2>1 DEF FillStep, ChildrenOk
<1>5. Kids(v) = << Named(t, x) >> \o Kids(c)
  BY <1>1, <1>3, ChildrenEquation DEF ListStep, Named, Kids
<1> QED
  BY <1>1, <1>4, <1>5 DEF v

\* The child at place k is the only one with its tag.
Only(v, tag, k) ==
    /\ k \in DOMAIN Kids(v) /\ k <= k
    /\ \A i \in DOMAIN Kids(v) : Kids(v)[i].tag = tag <=> i = k

\* What child finds.
LEMMA ChildFound ==
    ASSUME NEW v, NEW tag, NEW k, Only(v, tag, k), NEW lengths, NEW default,
           Len(Kids(v)[k].value) \in lengths
    PROVE  Child(v, tag, lengths, default) = Kids(v)[k].value
<1> DEFINE same  == { i \in DOMAIN Kids(v) : Kids(v)[i].tag = tag }
<1>1. same = {k}
  BY DEF Only
<1>2. (CHOOSE i \in same : \A j \in same : i <= j) = k
  BY <1>1 DEF Only
<1> QED
  BY <1>1, <1>2 DEF Child, Kids

\* A child that is not there is read as its default.
LEMMA ChildMissing ==
    ASSUME NEW v, NEW tag, NEW lengths, NEW default,
           \A i \in DOMAIN Kids(v) : Kids(v)[i].tag # tag
    PROVE  Child(v, tag, lengths, default) = default
BY DEF Child, Kids

\* The lengths of the values a child has.
Short == 0 .. 8

\* v holds two children, or three.
HasTwo(v, t1, x1, t2, x2) ==
    /\ v \in Bytes /\ Len(v) = 4 + Len(x1) + Len(x2)
    /\ ChildrenOk(v)
    /\ Kids(v) \in Seq(Found) /\ Len(Kids(v)) = 2
    /\ Kids(v)[1] = Named(t1, x1) /\ Kids(v)[2] = Named(t2, x2)

HasThree(v, t1, x1, t2, x2, t3, x3) ==
    /\ v \in Bytes /\ Len(v) = 6 + Len(x1) + Len(x2) + Len(x3)
    /\ ChildrenOk(v)
    /\ Kids(v) \in Seq(Found) /\ Len(Kids(v)) = 3
    /\ Kids(v)[1] = Named(t1, x1) /\ Kids(v)[2] = Named(t2, x2) /\ Kids(v)[3] = Named(t3, x3)

\* Two children.
LEMMA TwoChildren ==
    ASSUME NEW t1 \in Byte, NEW x1 \in Bytes, Len(x1) \in Short,
           NEW t2 \in Byte, NEW x2 \in Bytes, Len(x2) \in Short
    PROVE  HasTwo(Tlv(t1, x1) \o Tlv(t2, x2), t1, x1, t2, x2)
<1> DEFINE w == Tlv(t2, x2)
           v == Tlv(t1, x1) \o w
           c1 == Named(t1, x1)
           c2 == Named(t2, x2)
<1>1. Len(x1) \in Byte /\ Len(x2) \in Byte /\ <<>> \in Bytes
  BY EmptySeq DEF Byte, Bytes, Short
<1>2. w \in Bytes /\ Len(w) = 2 + Len(x2) /\ w \o <<>> = w
  BY <1>1, TlvParts, ConcatEmptySeq DEF Bytes
<1>3. ChildrenOk(w) /\ Kids(w) = <<c2>> \o <<>>
  <2>1. /\ ChildrenOk(<<>>) => ChildrenOk(w \o <<>>)
        /\ Kids(w \o <<>>) = <<c2>> \o Kids(<<>>)
    BY <1>1, OneChild, Zenon
  <2> QED
    BY <1>2, <2>1, NoChildren
<1>4. c1 \in Found /\ c2 \in Found
  BY DEF Found, Named
<1>5. <<c2>> \o <<>> = <<c2>>
  BY <1>4, ConcatEmptySeq
<1> HIDE DEF w
<1>b. /\ v \in Bytes /\ Len(v) = 2 + Len(x1) + Len(w)
      /\ ChildrenOk(w) => ChildrenOk(v)
      /\ Kids(v) = <<c1>> \o Kids(w)
  BY <1>1, <1>2, OneChild, Zenon
<1> HIDE DEF v, c1, c2
<1>6. /\ v \in Bytes /\ Len(v) = 4 + Len(x1) + Len(x2) /\ ChildrenOk(v)
      /\ Kids(v) = <<c1>> \o <<c2>>
  BY <1>2, <1>3, <1>5, <1>b
<1>7. /\ <<c1>> \o <<c2>> \in Seq(Found) /\ Len(<<c1>> \o <<c2>>) = 2
      /\ (<<c1>> \o <<c2>>)[1] = c1 /\ (<<c1>> \o <<c2>>)[2] = c2
  BY <1>4, ConcatProperties
<1>8. Len(Kids(v)) = 2 /\ Kids(v) \in Seq(Found)
  BY <1>6, <1>7, LenProperties
<1> QED
  BY <1>6, <1>7, <1>8 DEF v, w, c1, c2, HasTwo

\* Three children.
LEMMA ThreeChildren ==
    ASSUME NEW t1 \in Byte, NEW x1 \in Bytes, Len(x1) \in Short,
           NEW t2 \in Byte, NEW x2 \in Bytes, Len(x2) \in Short,
           NEW t3 \in Byte, NEW x3 \in Bytes, Len(x3) \in Short
    PROVE  HasThree(Tlv(t1, x1) \o Tlv(t2, x2) \o Tlv(t3, x3), t1, x1, t2, x2, t3, x3)
<1> DEFINE u == Tlv(t1, x1)
           w2 == Tlv(t2, x2)
           w3 == Tlv(t3, x3)
           w == w2 \o w3
           v == u \o w
           c1 == Named(t1, x1)
<1>1. Len(x1) \in Byte /\ <<>> \in Bytes /\ Len(x2) \in Byte /\ Len(x3) \in Byte
  BY EmptySeq DEF Byte, Bytes, Short
<1>2. u \in Bytes /\ w2 \in Bytes /\ w3 \in Bytes
  BY <1>1, TlvParts
<1>3. (u \o w2) \o w3 = v
  <2> HIDE DEF u, w2, w3
  <2>1. Regroups(u, w2, w3)
    BY <1>2, BytesRegroup, Zenon
  <2> QED
    BY <2>1 DEF Regroups
<1>4. /\ w \in Bytes /\ Len(w) = 4 + Len(x2) + Len(x3)
      /\ ChildrenOk(w)
      /\ Kids(w) \in Seq(Found) /\ Len(Kids(w)) = 2
      /\ Kids(w)[1] = Named(t2, x2)
      /\ Kids(w)[2] = Named(t3, x3)
  <2>1. HasTwo(w, t2, x2, t3, x3)
    BY TwoChildren
  <2> QED
    BY <2>1 DEF HasTwo
<1>5. c1 \in Found
  BY DEF Found, Named
<1> HIDE DEF w
<1>b. /\ v \in Bytes /\ Len(v) = 2 + Len(x1) + Len(w)
      /\ ChildrenOk(w) => ChildrenOk(v)
      /\ Kids(v) = <<c1>> \o Kids(w)
  BY <1>1, <1>4, OneChild, Zenon
<1> HIDE DEF v, c1
<1>6. /\ v \in Bytes /\ Len(v) = 6 + Len(x1) + Len(x2) + Len(x3) /\ ChildrenOk(v)
      /\ Kids(v) = <<c1>> \o Kids(w)
  BY <1>4, <1>b
<1>7. Len(Kids(w)) = 2
  BY <1>4
<1> DEFINE l == Kids(w)
           s == <<c1>> \o l
<1>8. l \in Seq(Found) /\ Len(l) = 2
  BY <1>4, <1>7
<1> HIDE DEF l
<1> DEFINE a == <<c1>>
<1>c. a \in Seq(Found) /\ Len(a) = 1 /\ a[1] = c1 /\ s = a \o l
  BY <1>5
<1> HIDE DEF a, s
<1>9. /\ s \in Seq(Found) /\ Len(s) = 3
      /\ s[1] = c1 /\ s[2] = l[1] /\ s[3] = l[2]
  <2>1. /\ a \o l \in Seq(Found) /\ Len(a \o l) = Len(a) + Len(l)
        /\ \A i \in 1 .. Len(a) + Len(l) : (a \o l)[i] = IF i <= Len(a) THEN a[i] ELSE l[i - Len(a)]
    BY <1>8, <1>c, ConcatProperties
  <2> QED
    BY <1>8, <1>c, <2>1
<1>11. Kids(v) = s
  BY <1>6 DEF s, l
<1>12. /\ v \in Bytes /\ Len(v) = 6 + Len(x1) + Len(x2) + Len(x3)
       /\ ChildrenOk(v)
       /\ Kids(v) \in Seq(Found) /\ Len(Kids(v)) = 3
       /\ Kids(v)[1] = Named(t1, x1)
       /\ Kids(v)[2] = Named(t2, x2)
       /\ Kids(v)[3] = Named(t3, x3)
  BY <1>4, <1>6, <1>9, <1>11 DEF l, c1
<1> QED
  BY <1>3, <1>12 DEF u, w2, w3, HasThree

----------------------------------------------------------------------------
(* What the board reports, and what parseReport makes of it *)

\* The four words of a measurement, one after the other, and back.
LEMMA Measures ==
    ASSUME NEW t \in Word, NEW h \in Word, NEW l \in Word, NEW b \in Word
    PROVE  LET m == U16(t) \o U16(h) \o U16(l) \o U16(b) IN
           /\ m \in Bytes /\ Len(m) = 8
           /\ AsU16(m) = t /\ AsU16(SubSeq(m, 3, 4)) = h
           /\ AsU16(SubSeq(m, 5, 6)) = l /\ AsU16(SubSeq(m, 7, 8)) = b
<1> DEFINE s1 == U16(t)
           s2 == s1 \o U16(h)
           s3 == s2 \o U16(l)
           s4 == s3 \o U16(b)
<1>1. s1 \in Bytes /\ Len(s1) = 2 /\ s1[1] + 256 * s1[2] = t
  BY U16Bytes
<1> HIDE DEF s1
<1>2. /\ s2 \in Bytes /\ Len(s2) = Len(s1) + 2
      /\ \A i \in 1 .. Len(s1) : s2[i] = s1[i]
      /\ s2[Len(s1) + 1] + 256 * s2[Len(s1) + 2] = h
  BY <1>1, PutU16, ZenonT(30)
<1> HIDE DEF s2
<1>3. /\ s3 \in Bytes /\ Len(s3) = Len(s2) + 2
      /\ \A i \in 1 .. Len(s2) : s3[i] = s2[i]
      /\ s3[Len(s2) + 1] + 256 * s3[Len(s2) + 2] = l
  BY <1>2, PutU16, ZenonT(30)
<1> HIDE DEF s3
<1>4. /\ s4 \in Bytes /\ Len(s4) = Len(s3) + 2
      /\ \A i \in 1 .. Len(s3) : s4[i] = s3[i]
      /\ s4[Len(s3) + 1] + 256 * s4[Len(s3) + 2] = b
  BY <1>3, PutU16, ZenonT(30)
<1> HIDE DEF s4
<1>5. Len(s2) = 4 /\ s2[3] + 256 * s2[4] = h /\ \A i \in 1 .. 2 : s2[i] = s1[i]
  <2>1. Len(s1) = 2 /\ Len(s1) + 1 = 3 /\ Len(s1) + 2 = 4
    BY <1>1
  <2> QED
    BY <1>2, <2>1
<1>6. Len(s3) = 6 /\ s3[5] + 256 * s3[6] = l /\ \A i \in 1 .. 4 : s3[i] = s2[i]
  <2>1. Len(s2) = 4 /\ Len(s2) + 1 = 5 /\ Len(s2) + 2 = 6
    BY <1>5
  <2> QED
    BY <1>3, <2>1
<1>7. Len(s4) = 8 /\ s4[7] + 256 * s4[8] = b /\ \A i \in 1 .. 6 : s4[i] = s3[i]
  <2>1. Len(s3) = 6 /\ Len(s3) + 1 = 7 /\ Len(s3) + 2 = 8
    BY <1>6
  <2> QED
    BY <1>4, <2>1
<1>8. /\ s4[1] = s1[1] /\ s4[2] = s1[2]
      /\ s4[3] = s2[3] /\ s4[4] = s2[4]
      /\ s4[5] = s3[5] /\ s4[6] = s3[6]
  BY <1>5, <1>6, <1>7
<1>9. AsU16(s4) = t
  BY <1>1, <1>8 DEF AsU16
<1>10. /\ AsU16(SubSeq(s4, 3, 4)) = h
       /\ AsU16(SubSeq(s4, 5, 6)) = l
       /\ AsU16(SubSeq(s4, 7, 8)) = b
  <2>1. \A i \in {3, 5, 7} : AsU16(SubSeq(s4, i, i + 1)) = s4[i] + 256 * s4[i + 1]
    <3>1. \A i \in {3, 5, 7} : i \in Nat \ {0} /\ i + 1 <= Len(s4)
      BY <1>7
    <3> QED
      BY <1>4, <3>1, GetU16
  <2>2. 3 + 1 = 4 /\ 5 + 1 = 6 /\ 7 + 1 = 8
    OBVIOUS
  <2> QED
    BY <1>5, <1>6, <1>7, <1>8, <2>1, <2>2
<1> QED
  BY <1>4, <1>7, <1>9, <1>10 DEF s4, s3, s2, s1

\* parseReport, one report at a time.
ParsedSnapshot(tag, v) ==
    LET m == Child(v, TAG_MEASUREMENT, {8}, <<0, 0, 0, 0, 0, 0, 0, 0>>) IN
    [tag |-> tag, ts |-> AsU32(Child(v, TAG_TIMESTAMP, {4}, <<0, 0, 0, 0>>)),
     temp |-> AsU16(m), hum |-> AsU16(SubSeq(m, 3, 4)),
     light |-> AsU16(SubSeq(m, 5, 6)), batt |-> AsU16(SubSeq(m, 7, 8)),
     mode |-> Child(v, TAG_MODE, 1 .. MAXLEN, <<0>>)[1]]

ParsedEvent(v) ==
    LET src == Child(v, TAG_EVENT_SRC, 1 .. MAXLEN, <<0>>)[1]
        mm  == Child(v, TAG_MODE, {2}, <<0, 0>>)
    IN  [tag |-> Event, ts |-> AsU32(Child(v, TAG_TIMESTAMP, {4}, <<0, 0, 0, 0>>)), src |-> src,
         from |-> mm[1], to |-> mm[2],
         detected |-> IF src = 1 /\ Child(v, TAG_EVENT_FLAG, 1 .. MAXLEN, <<0>>)[1] # 0 THEN 1 ELSE 0]

\* What parseReport makes of each tag.
LEMMA ParseCases ==
    ASSUME NEW v
    PROVE  /\ \A tag \in {KeepAlive, Data} : Parse(tag, v) = ParsedSnapshot(tag, v)
           /\ Parse(Event, v) = ParsedEvent(v)
           /\ Parse(Time, v) = [tag |-> Time, ts |-> IF Len(v) >= 4 THEN AsU32(v) ELSE 0]
<1>1. /\ Event \notin {KeepAlive, Data} /\ Time \notin {KeepAlive, Data} /\ Time # Event
      /\ \A tag \in {KeepAlive, Data} : tag # Event /\ tag # Time
  BY DEF KeepAlive, Event, Data, Time
<1>2. ASSUME NEW tag \in {KeepAlive, Data}
      PROVE  Parse(tag, v) = ParsedSnapshot(tag, v)
  BY <1>1, Zenon DEF Parse, ParsedSnapshot
<1>3. Parse(Event, v) = ParsedEvent(v)
  BY <1>1, Zenon DEF Parse, ParsedEvent
<1>4. Parse(Time, v) = [tag |-> Time, ts |-> IF Len(v) >= 4 THEN AsU32(v) ELSE 0]
  BY <1>1, Zenon DEF Parse
<1> QED
  BY <1>2, <1>3, <1>4

\* What child finds in two or three children with different tags.
LEMMA FindOfTwo ==
    ASSUME NEW v, NEW t1, NEW x1, NEW t2, NEW x2,
           HasTwo(v, t1, x1, t2, x2),
           t1 # t2
    PROVE  \A lengths, default :
               /\ Len(x1) \in lengths => Child(v, t1, lengths, default) = x1
               /\ Len(x2) \in lengths => Child(v, t2, lengths, default) = x2
<1>1. DOMAIN Kids(v) = {1, 2}
  <2>1. DOMAIN Kids(v) = 1 .. 2
    BY LenProperties DEF HasTwo
  <2>2. 1 .. 2 = {1, 2}
    OBVIOUS
  <2> QED
    BY <2>1, <2>2
<1>2. /\ Kids(v)[1].tag = t1 /\ Kids(v)[1].value = x1
      /\ Kids(v)[2].tag = t2 /\ Kids(v)[2].value = x2
  BY DEF HasTwo, Named
<1>3. 1 <= 1 /\ 2 <= 2 /\ 1 # 2
  OBVIOUS
<1>4. Only(v, t1, 1) /\ Only(v, t2, 2)
  BY <1>1, <1>2, <1>3 DEF Only
<1>5. ASSUME NEW lengths, NEW default
      PROVE  /\ Len(x1) \in lengths => Child(v, t1, lengths, default) = x1
             /\ Len(x2) \in lengths => Child(v, t2, lengths, default) = x2
  BY <1>2, <1>4, ChildFound
<1> QED
  BY <1>5

\* A tag that neither of two children has.
LEMMA MissOfTwo ==
    ASSUME NEW v, NEW t1, NEW x1, NEW t2, NEW x2,
           HasTwo(v, t1, x1, t2, x2),
           NEW t, t # t1, t # t2
    PROVE  \A lengths, default : Child(v, t, lengths, default) = default
<1>1. DOMAIN Kids(v) = {1, 2}
  <2>1. DOMAIN Kids(v) = 1 .. 2
    BY LenProperties DEF HasTwo
  <2>2. 1 .. 2 = {1, 2}
    OBVIOUS
  <2> QED
    BY <2>1, <2>2
<1>2. /\ Kids(v)[1].tag = t1 /\ Kids(v)[1].value = x1
      /\ Kids(v)[2].tag = t2 /\ Kids(v)[2].value = x2
  BY DEF HasTwo, Named
<1>3. \A i \in DOMAIN Kids(v) : Kids(v)[i].tag # t
  BY <1>1, <1>2
<1> QED
  BY <1>3, ChildMissing

\* Each of three children is found by its tag.
LEMMA FindOfThree ==
    ASSUME NEW v, NEW t1, NEW x1, NEW t2, NEW x2, NEW t3, NEW x3,
           HasThree(v, t1, x1, t2, x2, t3, x3),
           t1 # t2, t1 # t3, t2 # t3
    PROVE  \A lengths, default :
               /\ Len(x1) \in lengths => Child(v, t1, lengths, default) = x1
               /\ Len(x2) \in lengths => Child(v, t2, lengths, default) = x2
               /\ Len(x3) \in lengths => Child(v, t3, lengths, default) = x3
<1>1. DOMAIN Kids(v) = {1, 2, 3}
  <2>1. DOMAIN Kids(v) = 1 .. 3
    BY LenProperties DEF HasThree
  <2>2. 1 .. 3 = {1, 2, 3}
    OBVIOUS
  <2> QED
    BY <2>1, <2>2
<1>2. /\ Kids(v)[1].tag = t1 /\ Kids(v)[1].value = x1
      /\ Kids(v)[2].tag = t2 /\ Kids(v)[2].value = x2
      /\ Kids(v)[3].tag = t3 /\ Kids(v)[3].value = x3
  BY DEF HasThree, Named
<1>3. 1 <= 1 /\ 2 <= 2 /\ 3 <= 3 /\ 1 # 2 /\ 1 # 3 /\ 2 # 3
  OBVIOUS
<1>4. Only(v, t1, 1) /\ Only(v, t2, 2) /\ Only(v, t3, 3)
  BY <1>1, <1>2, <1>3 DEF Only
<1>5. ASSUME NEW lengths, NEW default
      PROVE  /\ Len(x1) \in lengths => Child(v, t1, lengths, default) = x1
             /\ Len(x2) \in lengths => Child(v, t2, lengths, default) = x2
             /\ Len(x3) \in lengths => Child(v, t3, lengths, default) = x3
  BY <1>2, <1>4, ChildFound
<1> QED
  BY <1>5

\* A tag that none of three children has.
LEMMA MissOfThree ==
    ASSUME NEW v, NEW t1, NEW x1, NEW t2, NEW x2, NEW t3, NEW x3,
           HasThree(v, t1, x1, t2, x2, t3, x3),
           NEW t, t # t1, t # t2, t # t3
    PROVE  \A lengths, default : Child(v, t, lengths, default) = default
<1>1. DOMAIN Kids(v) = {1, 2, 3}
  <2>1. DOMAIN Kids(v) = 1 .. 3
    BY LenProperties DEF HasThree
  <2>2. 1 .. 3 = {1, 2, 3}
    OBVIOUS
  <2> QED
    BY <2>1, <2>2
<1>2. /\ Kids(v)[1].tag = t1 /\ Kids(v)[1].value = x1
      /\ Kids(v)[2].tag = t2 /\ Kids(v)[2].value = x2
      /\ Kids(v)[3].tag = t3 /\ Kids(v)[3].value = x3
  BY DEF HasThree, Named
<1>3. \A i \in DOMAIN Kids(v) : Kids(v)[i].tag # t
  BY <1>1, <1>2
<1> QED
  BY <1>3, ChildMissing

\* The value of a report's frame, and what the Central makes of it.
Reads(r, v) ==
    /\ Encode(r) = Tlv(r.tag, v)
    /\ v \in Bytes /\ Len(v) \in Nat /\ Len(v) <= 21
    /\ r.tag \in ReportTags
    /\ r.tag = Time \/ ChildrenOk(v)
    /\ Parse(r.tag, v) = r

\* A measurement or keep-alive is read as it was.
LEMMA SnapshotReads ==
    ASSUME NEW r \in [tag : {KeepAlive, Data}, ts : DWord, temp : Word, hum : Word, light : Word,
                      batt : Word, mode : Byte]
    PROVE  Reads(r, Snapshot(r))
<1> DEFINE x1 == U32(r.ts)
           x2 == U16(r.temp) \o U16(r.hum) \o U16(r.light) \o U16(r.batt)
           x3 == <<r.mode>>
           v == Tlv(TAG_TIMESTAMP, x1) \o Tlv(TAG_MEASUREMENT, x2) \o Tlv(TAG_MODE, x3)
<1>1. /\ r.tag \in {KeepAlive, Data} /\ r.ts \in DWord /\ r.temp \in Word /\ r.hum \in Word
      /\ r.light \in Word /\ r.batt \in Word /\ r.mode \in Byte
      /\ r = [tag |-> r.tag, ts |-> r.ts, temp |-> r.temp, hum |-> r.hum, light |-> r.light,
              batt |-> r.batt, mode |-> r.mode]
  OBVIOUS
<1>2. x1 \in Bytes /\ Len(x1) = 4 /\ AsU32(x1) = r.ts
  BY <1>1, U32Bytes
<1>3. /\ x2 \in Bytes /\ Len(x2) = 8
      /\ AsU16(x2) = r.temp /\ AsU16(SubSeq(x2, 3, 4)) = r.hum
      /\ AsU16(SubSeq(x2, 5, 6)) = r.light /\ AsU16(SubSeq(x2, 7, 8)) = r.batt
  BY <1>1, Measures
<1>4. x3 \in Bytes /\ Len(x3) = 1 /\ x3[1] = r.mode
  BY <1>1 DEF Bytes
<1>5. Snapshot(r) = v
  BY DEF Snapshot
<1> HIDE DEF x1, x2, x3
<1>6. HasThree(v, TAG_TIMESTAMP, x1, TAG_MEASUREMENT, x2, TAG_MODE, x3)
  <2>1. TAG_TIMESTAMP \in Byte /\ TAG_MEASUREMENT \in Byte /\ TAG_MODE \in Byte
    BY DEF Byte, TAG_TIMESTAMP, TAG_MEASUREMENT, TAG_MODE, TAG_EVENT_SRC, TAG_EVENT_FLAG
  <2>2. Len(x1) \in Short /\ Len(x2) \in Short /\ Len(x3) \in Short
    BY <1>2, <1>3, <1>4 DEF Short
  <2> QED
    BY <1>2, <1>3, <1>4, <2>1, <2>2, ThreeChildren
<1> HIDE DEF v
<1>7. \A l, d :
          /\ Len(x1) \in l => Child(v, TAG_TIMESTAMP, l, d) = x1
          /\ Len(x2) \in l => Child(v, TAG_MEASUREMENT, l, d) = x2
          /\ Len(x3) \in l => Child(v, TAG_MODE, l, d) = x3
  <2>1. TAG_TIMESTAMP # TAG_MEASUREMENT /\ TAG_TIMESTAMP # TAG_MODE /\ TAG_MEASUREMENT # TAG_MODE
    BY DEF TAG_TIMESTAMP, TAG_MEASUREMENT, TAG_MODE, TAG_EVENT_SRC, TAG_EVENT_FLAG
  <2> QED
    BY <1>6, <2>1, FindOfThree
<1>8. Len(x1) \in {4} /\ Len(x2) \in {8} /\ Len(x3) \in 1 .. MAXLEN
  BY <1>2, <1>3, <1>4, LinkAssumption
<1>9. Parse(r.tag, v) = r
  <2>1. Parse(r.tag, v) = ParsedSnapshot(r.tag, v)
    BY <1>1, ParseCases
  <2>2. /\ Child(v, TAG_TIMESTAMP, {4}, <<0, 0, 0, 0>>) = x1
        /\ Child(v, TAG_MEASUREMENT, {8}, <<0, 0, 0, 0, 0, 0, 0, 0>>) = x2
        /\ Child(v, TAG_MODE, 1 .. MAXLEN, <<0>>) = x3
    BY <1>7, <1>8, Zenon
  <2>3. ParsedSnapshot(r.tag, v) =
          [tag |-> r.tag, ts |-> r.ts, temp |-> r.temp, hum |-> r.hum, light |-> r.light,
           batt |-> r.batt, mode |-> r.mode]
    BY <1>2, <1>3, <1>4, <2>2, Zenon DEF ParsedSnapshot
  <2> QED
    BY <1>1, <2>1, <2>3, Zenon
<1>10. Len(v) \in Nat /\ Len(v) <= 21
  BY <1>2, <1>3, <1>4, <1>6 DEF HasThree
<1>11. r.tag \in ReportTags
  BY <1>1 DEF ReportTags
<1>12. Encode(r) = Tlv(r.tag, Snapshot(r))
  <2>1. r.tag # Event /\ r.tag # Time
    BY <1>1 DEF KeepAlive, Event, Data, Time
  <2> QED
    BY <1>1, <2>1, Zenon DEF Encode
<1> QED
  BY <1>5, <1>6, <1>9, <1>10, <1>11, <1>12 DEF Reads, HasThree

\* So is a change of the mode,
LEMMA TransitionReads ==
    ASSUME NEW r \in [tag : {Event}, ts : DWord, src : {0}, from : Byte, to : Byte, detected : {0}]
    PROVE  Reads(r, EventBody(r))
<1> DEFINE x1 == U32(r.ts)
           x2 == <<r.src>>
           x3 == <<r.from, r.to>>
           v == Tlv(TAG_TIMESTAMP, x1) \o Tlv(TAG_EVENT_SRC, x2) \o Tlv(TAG_MODE, x3)
<1>1. /\ r.tag = Event /\ r.ts \in DWord /\ r.src = 0 /\ r.from \in Byte /\ r.to \in Byte
      /\ r = [tag |-> Event, ts |-> r.ts, src |-> 0, from |-> r.from, to |-> r.to, detected |-> 0]
  OBVIOUS
<1>2. x1 \in Bytes /\ Len(x1) = 4 /\ AsU32(x1) = r.ts
  BY <1>1, U32Bytes
<1>3. x2 \in Bytes /\ Len(x2) = 1 /\ x2[1] = 0
  BY <1>1 DEF Bytes, Byte
<1>4. x3 \in Bytes /\ Len(x3) = 2 /\ x3[1] = r.from /\ x3[2] = r.to
  BY <1>1 DEF Bytes
<1>5. EventBody(r) = Tlv(TAG_TIMESTAMP, x1) \o Tlv(TAG_EVENT_SRC, x2) \o Tlv(TAG_MODE, x3) \o <<>>
  BY <1>1 DEF EventBody
<1> HIDE DEF x1, x2, x3
<1>6. HasThree(v, TAG_TIMESTAMP, x1, TAG_EVENT_SRC, x2, TAG_MODE, x3)
  <2>1. TAG_TIMESTAMP \in Byte /\ TAG_EVENT_SRC \in Byte /\ TAG_MODE \in Byte
    BY DEF Byte, TAG_TIMESTAMP, TAG_MEASUREMENT, TAG_MODE, TAG_EVENT_SRC, TAG_EVENT_FLAG
  <2>2. Len(x1) \in Short /\ Len(x2) \in Short /\ Len(x3) \in Short
    BY <1>2, <1>3, <1>4 DEF Short
  <2> QED
    BY <1>2, <1>3, <1>4, <2>1, <2>2, ThreeChildren
<1>13. EventBody(r) = v
  <2> HIDE DEF v
  <2>1. v \o <<>> = v
    BY <1>6, ConcatEmptySeq DEF Bytes, HasThree
  <2> QED
    BY <1>5, <2>1 DEF v
<1> HIDE DEF v
<1>7. \A l, d :
          /\ Len(x1) \in l => Child(v, TAG_TIMESTAMP, l, d) = x1
          /\ Len(x2) \in l => Child(v, TAG_EVENT_SRC, l, d) = x2
          /\ Len(x3) \in l => Child(v, TAG_MODE, l, d) = x3
  <2>1. TAG_TIMESTAMP # TAG_EVENT_SRC /\ TAG_TIMESTAMP # TAG_MODE /\ TAG_EVENT_SRC # TAG_MODE
    BY DEF TAG_TIMESTAMP, TAG_MEASUREMENT, TAG_MODE, TAG_EVENT_SRC, TAG_EVENT_FLAG
  <2> QED
    BY <1>6, <2>1, FindOfThree
<1>8. Len(x1) \in {4} /\ Len(x2) \in 1 .. MAXLEN /\ Len(x3) \in {2}
  BY <1>2, <1>3, <1>4, LinkAssumption
<1>9. Parse(Event, v) = r
  <2>1. Parse(Event, v) = ParsedEvent(v)
    BY ParseCases
  <2>2. /\ Child(v, TAG_TIMESTAMP, {4}, <<0, 0, 0, 0>>) = x1
        /\ Child(v, TAG_EVENT_SRC, 1 .. MAXLEN, <<0>>) = x2
        /\ Child(v, TAG_MODE, {2}, <<0, 0>>) = x3
    BY <1>7, <1>8, Zenon
  <2>3. 0 # 1
    OBVIOUS
  <2>4. ParsedEvent(v) = [tag |-> Event, ts |-> r.ts, src |-> 0, from |-> r.from, to |-> r.to, detected |-> 0]
    BY <1>2, <1>3, <1>4, <2>2, <2>3, Zenon DEF ParsedEvent
  <2> QED
    BY <1>1, <2>1, <2>4, Zenon
<1>10. Len(v) \in Nat /\ Len(v) <= 21
  BY <1>2, <1>3, <1>4, <1>6 DEF HasThree
<1>11. r.tag \in ReportTags
  BY <1>1 DEF ReportTags
<1>12. Encode(r) = Tlv(r.tag, EventBody(r))
  <2>1. Event \notin {KeepAlive, Data} /\ Event # Time
    BY DEF KeepAlive, Event, Data, Time
  <2> QED
    BY <1>1, <2>1, Zenon DEF Encode
<1> QED
  BY <1>1, <1>6, <1>9, <1>10, <1>11, <1>12, <1>13 DEF Reads, HasThree

\* an object that appears or leaves,
LEMMA DetectionReads ==
    ASSUME NEW r \in [tag : {Event}, ts : DWord, src : {1}, from : {0}, to : {0}, detected : {0, 1}]
    PROVE  Reads(r, EventBody(r))
<1> DEFINE x1 == U32(r.ts)
           x2 == <<r.src>>
           x3 == <<r.detected>>
           v == Tlv(TAG_TIMESTAMP, x1) \o Tlv(TAG_EVENT_SRC, x2) \o Tlv(TAG_EVENT_FLAG, x3)
<1>1. /\ r.tag = Event /\ r.ts \in DWord /\ r.src = 1 /\ r.detected \in {0, 1}
      /\ r = [tag |-> Event, ts |-> r.ts, src |-> 1, from |-> 0, to |-> 0, detected |-> r.detected]
  OBVIOUS
<1>2. x1 \in Bytes /\ Len(x1) = 4 /\ AsU32(x1) = r.ts
  BY <1>1, U32Bytes
<1>3. x2 \in Bytes /\ Len(x2) = 1 /\ x2[1] = 1
  BY <1>1 DEF Bytes, Byte
<1>4. x3 \in Bytes /\ Len(x3) = 1 /\ x3[1] = r.detected
  BY <1>1 DEF Bytes, Byte
<1>5. EventBody(r) = Tlv(TAG_TIMESTAMP, x1) \o Tlv(TAG_EVENT_SRC, x2) \o <<>> \o Tlv(TAG_EVENT_FLAG, x3)
  BY <1>1 DEF EventBody
<1> HIDE DEF x1, x2, x3
<1>a. TAG_TIMESTAMP \in Byte /\ TAG_EVENT_SRC \in Byte /\ TAG_EVENT_FLAG \in Byte /\ TAG_MODE \in Byte
  BY DEF Byte, TAG_TIMESTAMP, TAG_MEASUREMENT, TAG_MODE, TAG_EVENT_SRC, TAG_EVENT_FLAG
<1>b. Len(x1) \in Short /\ Len(x2) \in Short /\ Len(x3) \in Short
  BY <1>2, <1>3, <1>4 DEF Short
<1>6. HasThree(v, TAG_TIMESTAMP, x1, TAG_EVENT_SRC, x2, TAG_EVENT_FLAG, x3)
  BY <1>2, <1>3, <1>4, <1>a, <1>b, ThreeChildren
<1>13. EventBody(r) = v
  <2> DEFINE w == Tlv(TAG_TIMESTAMP, x1) \o Tlv(TAG_EVENT_SRC, x2)
  <2>1. HasTwo(w, TAG_TIMESTAMP, x1, TAG_EVENT_SRC, x2)
    BY <1>2, <1>3, <1>a, <1>b, TwoChildren
  <2> HIDE DEF w
  <2>2. w \o <<>> = w
    BY <2>1, ConcatEmptySeq DEF Bytes, HasTwo
  <2> QED
    BY <1>5, <2>2 DEF w
<1> HIDE DEF v
<1>7. \A l, d :
          /\ Len(x1) \in l => Child(v, TAG_TIMESTAMP, l, d) = x1
          /\ Len(x2) \in l => Child(v, TAG_EVENT_SRC, l, d) = x2
          /\ Len(x3) \in l => Child(v, TAG_EVENT_FLAG, l, d) = x3
          /\ Child(v, TAG_MODE, l, d) = d
  <2>1. TAG_TIMESTAMP # TAG_EVENT_SRC /\ TAG_TIMESTAMP # TAG_EVENT_FLAG /\ TAG_EVENT_SRC # TAG_EVENT_FLAG
        /\ TAG_MODE # TAG_TIMESTAMP /\ TAG_MODE # TAG_EVENT_SRC /\ TAG_MODE # TAG_EVENT_FLAG
    BY DEF TAG_TIMESTAMP, TAG_MEASUREMENT, TAG_MODE, TAG_EVENT_SRC, TAG_EVENT_FLAG
  <2>2. \A l, d :
            /\ Len(x1) \in l => Child(v, TAG_TIMESTAMP, l, d) = x1
            /\ Len(x2) \in l => Child(v, TAG_EVENT_SRC, l, d) = x2
            /\ Len(x3) \in l => Child(v, TAG_EVENT_FLAG, l, d) = x3
    BY <1>6, <2>1, FindOfThree
  <2>3. \A l, d : Child(v, TAG_MODE, l, d) = d
    BY <1>6, <2>1, MissOfThree
  <2> QED
    BY <2>2, <2>3
<1>8. Len(x1) \in {4} /\ Len(x2) \in 1 .. MAXLEN /\ Len(x3) \in 1 .. MAXLEN
  BY <1>2, <1>3, <1>4, LinkAssumption
<1>9. Parse(Event, v) = r
  <2>1. Parse(Event, v) = ParsedEvent(v)
    BY ParseCases
  <2>2. /\ Child(v, TAG_TIMESTAMP, {4}, <<0, 0, 0, 0>>) = x1
        /\ Child(v, TAG_EVENT_SRC, 1 .. MAXLEN, <<0>>) = x2
        /\ Child(v, TAG_EVENT_FLAG, 1 .. MAXLEN, <<0>>) = x3
        /\ Child(v, TAG_MODE, {2}, <<0, 0>>) = <<0, 0>>
    BY <1>7, <1>8, Zenon
  <2>3. (IF r.detected # 0 THEN 1 ELSE 0) = r.detected
    BY <1>1
  <2>4. <<0, 0>>[1] = 0 /\ <<0, 0>>[2] = 0
    OBVIOUS
  <2>5. ParsedEvent(v) = [tag |-> Event, ts |-> r.ts, src |-> 1, from |-> 0, to |-> 0,
                          detected |-> IF r.detected # 0 THEN 1 ELSE 0]
    BY <1>2, <1>3, <1>4, <2>2, <2>4, Zenon DEF ParsedEvent
  <2> QED
    BY <1>1, <2>1, <2>3, <2>5, Zenon
<1>10. Len(v) \in Nat /\ Len(v) <= 21
  BY <1>2, <1>3, <1>4, <1>6 DEF HasThree
<1>11. r.tag \in ReportTags
  BY <1>1 DEF ReportTags
<1>12. Encode(r) = Tlv(r.tag, EventBody(r))
  <2>1. Event \notin {KeepAlive, Data} /\ Event # Time
    BY DEF KeepAlive, Event, Data, Time
  <2> QED
    BY <1>1, <2>1, Zenon DEF Encode
<1> QED
  BY <1>1, <1>6, <1>9, <1>10, <1>11, <1>12, <1>13 DEF Reads, HasThree

\* any other event,
LEMMA OtherEventReads ==
    ASSUME NEW r \in [tag : {Event}, ts : DWord, src : Byte \ {0, 1}, from : {0}, to : {0}, detected : {0}]
    PROVE  Reads(r, EventBody(r))
<1> DEFINE x1 == U32(r.ts)
           x2 == <<r.src>>
           v == Tlv(TAG_TIMESTAMP, x1) \o Tlv(TAG_EVENT_SRC, x2)
<1>1. /\ r.tag = Event /\ r.ts \in DWord /\ r.src \in Byte /\ r.src # 0 /\ r.src # 1
      /\ r = [tag |-> Event, ts |-> r.ts, src |-> r.src, from |-> 0, to |-> 0, detected |-> 0]
  OBVIOUS
<1>2. x1 \in Bytes /\ Len(x1) = 4 /\ AsU32(x1) = r.ts
  BY <1>1, U32Bytes
<1>3. x2 \in Bytes /\ Len(x2) = 1 /\ x2[1] = r.src
  BY <1>1 DEF Bytes
<1>5. EventBody(r) = Tlv(TAG_TIMESTAMP, x1) \o Tlv(TAG_EVENT_SRC, x2) \o <<>> \o <<>>
  BY <1>1 DEF EventBody
<1> HIDE DEF x1, x2
<1>a. TAG_TIMESTAMP \in Byte /\ TAG_EVENT_SRC \in Byte
  BY DEF Byte, TAG_TIMESTAMP, TAG_MEASUREMENT, TAG_MODE, TAG_EVENT_SRC, TAG_EVENT_FLAG
<1>b. Len(x1) \in Short /\ Len(x2) \in Short
  BY <1>2, <1>3 DEF Short
<1>6. HasTwo(v, TAG_TIMESTAMP, x1, TAG_EVENT_SRC, x2)
  BY <1>2, <1>3, <1>a, <1>b, TwoChildren
<1>13. EventBody(r) = v
  <2> HIDE DEF v
  <2>1. v \o <<>> = v
    BY <1>6, ConcatEmptySeq DEF Bytes, HasTwo
  <2> QED
    BY <1>5, <2>1 DEF v
<1> HIDE DEF v
<1>7. \A l, d :
          /\ Len(x1) \in l => Child(v, TAG_TIMESTAMP, l, d) = x1
          /\ Len(x2) \in l => Child(v, TAG_EVENT_SRC, l, d) = x2
          /\ Child(v, TAG_MODE, l, d) = d
  <2>1. TAG_TIMESTAMP # TAG_EVENT_SRC /\ TAG_MODE # TAG_TIMESTAMP /\ TAG_MODE # TAG_EVENT_SRC
    BY DEF TAG_TIMESTAMP, TAG_MEASUREMENT, TAG_MODE, TAG_EVENT_SRC, TAG_EVENT_FLAG
  <2>2. \A l, d :
            /\ Len(x1) \in l => Child(v, TAG_TIMESTAMP, l, d) = x1
            /\ Len(x2) \in l => Child(v, TAG_EVENT_SRC, l, d) = x2
    BY <1>6, <2>1, FindOfTwo
  <2>3. \A l, d : Child(v, TAG_MODE, l, d) = d
    BY <1>6, <2>1, MissOfTwo
  <2> QED
    BY <2>2, <2>3
<1>8. Len(x1) \in {4} /\ Len(x2) \in 1 .. MAXLEN
  BY <1>2, <1>3, LinkAssumption
<1>9. Parse(Event, v) = r
  <2>1. Parse(Event, v) = ParsedEvent(v)
    BY ParseCases
  <2>2. /\ Child(v, TAG_TIMESTAMP, {4}, <<0, 0, 0, 0>>) = x1
        /\ Child(v, TAG_EVENT_SRC, 1 .. MAXLEN, <<0>>) = x2
        /\ Child(v, TAG_MODE, {2}, <<0, 0>>) = <<0, 0>>
    BY <1>7, <1>8, Zenon
  <2>3. <<0, 0>>[1] = 0 /\ <<0, 0>>[2] = 0
    OBVIOUS
  <2>4. ParsedEvent(v) = [tag |-> Event, ts |-> r.ts, src |-> r.src, from |-> 0, to |-> 0, detected |-> 0]
    BY <1>1, <1>2, <1>3, <2>2, <2>3, Zenon DEF ParsedEvent
  <2> QED
    BY <1>1, <2>1, <2>4, Zenon
<1>10. Len(v) \in Nat /\ Len(v) <= 21
  BY <1>2, <1>3, <1>6 DEF HasTwo
<1>11. r.tag \in ReportTags
  BY <1>1 DEF ReportTags
<1>12. Encode(r) = Tlv(r.tag, EventBody(r))
  <2>1. Event \notin {KeepAlive, Data} /\ Event # Time
    BY DEF KeepAlive, Event, Data, Time
  <2> QED
    BY <1>1, <2>1, Zenon DEF Encode
<1> QED
  BY <1>1, <1>6, <1>9, <1>10, <1>11, <1>12, <1>13 DEF Reads, HasTwo

\* and the time.
LEMMA TimeReads ==
    ASSUME NEW r \in [tag : {Time}, ts : DWord]
    PROVE  Reads(r, U32(r.ts))
<1>1. r.tag = Time /\ r.ts \in DWord /\ r = [tag |-> Time, ts |-> r.ts]
  OBVIOUS
<1>2. U32(r.ts) \in Bytes /\ Len(U32(r.ts)) = 4 /\ AsU32(U32(r.ts)) = r.ts
  BY <1>1, U32Bytes
<1>3. Len(U32(r.ts)) >= 4 /\ Len(U32(r.ts)) \in Nat /\ Len(U32(r.ts)) <= 21
  BY <1>2
<1>4. Parse(Time, U32(r.ts)) = r
  BY <1>1, <1>2, <1>3, ParseCases
<1>5. Encode(r) = Tlv(r.tag, U32(r.ts))
  <2>1. Time \notin {KeepAlive, Data} /\ Event # Time
    BY DEF KeepAlive, Event, Data, Time
  <2> QED
    BY <1>1, <2>1, Zenon DEF Encode
<1>6. r.tag \in ReportTags
  BY <1>1 DEF ReportTags
<1> QED
  BY <1>1, <1>2, <1>3, <1>4, <1>5, <1>6 DEF Reads

\* The Central reads in every frame what the board put into it.
LEMMA ReportReads ==
    ASSUME NEW r \in Reportable
    PROVE  \E v : Reads(r, v)
BY SnapshotReads, TransitionReads, DetectionReads, OtherEventReads, TimeReads DEF Reportable

\* A frame alone gives its report and leaves nothing.
LEMMA FrameRead ==
    ASSUME NEW r \in Reportable
    PROVE  /\ Encode(r) \in Bytes
           /\ r \in Parsed
           /\ Extract[Encode(r)].left = <<>>
           /\ Extract[Encode(r)].reports = <<r>>
<1>1. PICK v : Reads(r, v)
  BY ReportReads
<1>2. /\ v \in Bytes /\ Len(v) \in Nat /\ Len(v) <= 21 /\ r.tag \in ReportTags
      /\ r.tag = Time \/ ChildrenOk(v)
      /\ Parse(r.tag, v) = r /\ Encode(r) = Tlv(r.tag, v)
  BY <1>1 DEF Reads
<1>3. r.tag \in Byte /\ Len(v) \in Byte /\ <<>> \in Bytes
  <2>1. r.tag \in Byte
    BY <1>2 DEF ReportTags, KeepAlive, Event, Data, Time, Byte
  <2>2. Len(v) \in Byte
    <3>1. Len(v) \in Nat /\ Len(v) <= 21
      BY <1>2
    <3> DEFINE n == Len(v)
    <3> HIDE DEF n
    <3>2. n \in Nat /\ n <= 21
      BY <3>1 DEF n
    <3>3. n \in Byte
      BY <3>2 DEF Byte
    <3> QED
      BY <3>3 DEF n
  <2> QED
    BY <2>1, <2>2, EmptySeq DEF Bytes
<1> DEFINE b == Tlv(r.tag, v)
<1>4. /\ b \in Bytes /\ b # <<>> /\ Len(b) = 2 + Len(v)
      /\ b[1] = r.tag /\ b[2] = Len(v)
      /\ Value(b) = v /\ After(b) = <<>>
  <2>a. ASSUME NEW c \in Bytes
        PROVE  /\ b \in Bytes /\ Len(b) = 2 + Len(v)
               /\ b \o c # <<>>
               /\ (b \o c)[1] = r.tag /\ (b \o c)[2] = Len(v)
               /\ Value(b \o c) = v /\ After(b \o c) = c
    <3>1. v \in Bytes /\ r.tag \in Byte /\ Len(v) \in Byte
      BY <1>2, <1>3
    <3> QED
      BY <3>1, TlvParts
  <2> HIDE DEF b
  <2>1. /\ b \in Bytes /\ Len(b) = 2 + Len(v)
        /\ b \o <<>> # <<>>
        /\ (b \o <<>>)[1] = r.tag /\ (b \o <<>>)[2] = Len(v)
        /\ Value(b \o <<>>) = v /\ After(b \o <<>>) = <<>>
    BY <1>3, <2>a
  <2> HIDE DEF b
  <2>2. b \o <<>> = b
    BY <2>1, ConcatEmptySeq DEF Bytes
  <2> QED
    BY <2>1, <2>2
<1> HIDE DEF b
<1>5. Whole(b)
  <2>1. Len(b) >= 2 /\ Len(b) >= 2 + b[2] /\ ~TooLong(b[2])
    <3>1. Len(v) \in Nat /\ Len(v) <= 21 /\ MAXLEN \in Nat /\ 21 <= MAXLEN
      <4>1. MAXLEN \in 21 .. 253
        BY LinkAssumption
      <4>2. MAXLEN \in Nat /\ 21 <= MAXLEN
        BY <4>1
      <4>3. Len(v) \in Nat /\ Len(v) <= 21
        BY <1>2
      <4> QED
        BY <4>2, <4>3
    <3>2. Len(b) >= 2 /\ Len(b) >= 2 + b[2]
      BY <1>4, <3>1
    <3>3. ~TooLong(b[2])
      BY <1>4, <3>1 DEF TooLong
    <3> QED
      BY <3>2, <3>3
  <2> QED
    BY <1>2, <1>4, <2>1 DEF Whole
<1>6. /\ Extract[b].left = Extract[<<>>].left
      /\ Extract[b].reports = <<r>> \o Extract[<<>>].reports
  <2>1. Whole(b) =>
          /\ Extract[b].left = Extract[After(b)].left
          /\ Extract[b].reports = <<Parse(b[1], Value(b))>> \o Extract[After(b)].reports
    BY <1>4, ExtractCases, Zenon
  <2> QED
    BY <1>2, <1>4, <1>5, <2>1
<1>7. Extract[<<>>] = [left |-> <<>>, reports |-> <<>>]
  <2>1. Partial(<<>>)
    BY DEF Partial
  <2> QED
    BY <1>3, <2>1, ExtractCases
<1>8. r \in Parsed
  BY <1>2 DEF Parsed
<1>9. <<r>> \o <<>> = <<r>>
  BY <1>8, ConcatEmptySeq
<1>10. Extract[<<>>].left = <<>> /\ Extract[<<>>].reports = <<>>
  BY <1>7
<1> QED
  BY <1>2, <1>4, <1>6, <1>8, <1>9, <1>10 DEF b

----------------------------------------------------------------------------
(* The link *)

\* The state: what the line and the Central hold are bytes, what is left in
\* buf_ may become a report, and the handler was given reports.
LineInv ==
    /\ sent \in Seq(Reports) /\ Len(sent) <= REPORTS_N
    /\ up \in Bytes /\ buf \in Bytes
    /\ Partial(buf)
    /\ got \in Seq(Parsed)
    /\ lost \in 0 .. LOST_N
    /\ cut \in Seq(Reports) /\ Len(cut) <= CUTS_N

\* What a read takes is the first part of the line.
LEMMA ReadSplits ==
    ASSUME NEW s \in Bytes, NEW k \in Nat \ {0}, k <= Len(s)
    PROVE  /\ SubSeq(s, 1, k) \in Bytes
           /\ SubSeq(s, k + 1, Len(s)) \in Bytes
           /\ SubSeq(s, 1, k) \o SubSeq(s, k + 1, Len(s)) = s
<1>1. Len(s) \in Nat
  BY LenProperties DEF Bytes
<1>2. \A i \in 1 .. Len(s) : s[i] \in Byte
  BY ElementOfSeq DEF Bytes
<1>3. SubSeq(s, 1, k) \in Bytes
  <2>1. \A i \in 1 .. k : s[i] \in Byte
    BY <1>1, <1>2
  <2> QED
    BY <2>1, SubSeqProperties DEF Bytes
<1>4. SubSeq(s, k + 1, Len(s)) \in Bytes
  <2>1. \A i \in k + 1 .. Len(s) : s[i] \in Byte
    BY <1>1, <1>2
  <2> QED
    BY <1>1, <2>1, SubSeqProperties DEF Bytes
<1>5. SubSeq(s, 1, k) \o SubSeq(s, k + 1, Len(s)) = s
  <2>1. 1 \in 1 .. Len(s) + 1 /\ k \in 1 - 1 .. Len(s) /\ Len(s) \in k .. Len(s)
    BY <1>1
  <2>2. SubSeq(s, 1, k) \o SubSeq(s, k + 1, Len(s)) = SubSeq(s, 1, Len(s))
    BY <2>1, ConcatAdjacentSubSeq DEF Bytes
  <2> QED
    BY <2>2, SubSeqFull DEF Bytes
<1> QED
  BY <1>3, <1>4, <1>5

\* One read of the port, for every buffer and every line.
LEMMA OneRead ==
    ASSUME LineInv, NEW k \in Chunks, k <= Len(up),
           up' = SubSeq(up, k + 1, Len(up)),
           buf' = Extract[buf \o SubSeq(up, 1, k)].left,
           got' = got \o Extract[buf \o SubSeq(up, 1, k)].reports
    PROVE  /\ up' \in Bytes /\ buf' \in Bytes /\ Partial(buf') /\ got' \in Seq(Parsed)
           /\ All' = All
           /\ Extract[buf' \o up'].left = Extract[buf \o up].left
<1> DEFINE a == SubSeq(up, 1, k)
           c == SubSeq(up, k + 1, Len(up))
           b == buf \o a
           x == Extract[b]
           y == Extract[x.left \o c]
<1>1. up \in Bytes /\ buf \in Bytes /\ got \in Seq(Parsed) /\ k \in Nat \ {0}
  BY LinkAssumption DEF LineInv
<1>2. a \in Bytes /\ c \in Bytes /\ a \o c = up
  BY <1>1, ReadSplits
<1> HIDE DEF a, c
<1>3. b \in Bytes /\ b \o c = buf \o up
  <2>1. b \in Bytes
    BY <1>1, <1>2, ConcatProperties DEF Bytes
  <2> QED
    BY <1>1, <1>2, <2>1, BytesAssociative
<1> HIDE DEF b
<1>4. /\ Extract[b \o c].left = y.left
      /\ Extract[b \o c].reports = x.reports \o y.reports
  BY <1>2, <1>3, TwoReads
<1>5. x.left \in Bytes /\ x.reports \in Seq(Parsed) /\ Partial(x.left)
  BY <1>3, ExtractEquation, LeftPartial DEF Outcome
<1>6. y.reports \in Seq(Parsed)
  <2>1. x.left \o c \in Bytes
    <3> HIDE DEF x
    <3> QED
      BY <1>2, <1>5, ConcatProperties DEF Bytes
  <2> QED
    BY <2>1, ExtractEquation DEF Outcome
<1>7. up' = c /\ buf' = x.left /\ got' = got \o x.reports
  BY DEF a, b, c
<1> HIDE DEF x
<1>8. got' \in Seq(Parsed)
  BY <1>1, <1>5, <1>7, ConcatProperties
<1>9. All' = (got \o x.reports) \o y.reports
  <2>1. All' = got' \o Extract[buf' \o up'].reports
    BY DEF All
  <2> QED
    BY <1>7, <2>1
<1>10. All = got \o (x.reports \o y.reports)
  BY <1>3, <1>4 DEF All
<1> DEFINE p == x.reports
           q == y.reports
<1>11. p \in Seq(Parsed) /\ q \in Seq(Parsed)
  BY <1>5, <1>6
<1>12. (got \o p) \o q = got \o (p \o q)
  <2>1. got \in Seq(Parsed)
    BY <1>1
  <2> HIDE DEF p, q, y
  <2> QED
    <3>1. Regroups(got, p, q)
      BY <1>11, <2>1, ParsedAssociative, Zenon
    <3> QED
      BY <3>1 DEF Regroups
<1>13. All' = All
  BY <1>9, <1>10, <1>12
<1>14. Extract[buf' \o up'].left = Extract[buf \o up].left
  BY <1>3, <1>4, <1>7
<1> QED
  BY <1>2, <1>5, <1>7, <1>8, <1>13, <1>14

\* Nothing is sent, received or left at the start.
LEMMA LineInit == Init => LineInv /\ All = <<>> /\ Extract[buf \o up].left = <<>>
<1> SUFFICES ASSUME Init PROVE LineInv /\ All = <<>> /\ Extract[buf \o up].left = <<>>
  OBVIOUS
<1>1. sent = <<>> /\ up = <<>> /\ buf = <<>> /\ got = <<>> /\ lost = 0 /\ cut = <<>>
  BY DEF Init
<1>2. <<>> \in Bytes /\ Partial(<<>>) /\ Len(<<>>) = 0
  BY EmptySeq DEF Bytes, Partial
<1>3. LineInv
  <2>1. lost \in 0 .. LOST_N /\ Len(cut) <= CUTS_N
    BY <1>1, <1>2, LinkAssumption
  <2>2. Len(sent) <= REPORTS_N
    BY <1>1, <1>2, LinkAssumption
  <2>3. sent \in Seq(Reports) /\ got \in Seq(Parsed) /\ cut \in Seq(Reports)
    BY <1>1, EmptySeq
  <2> QED
    BY <1>1, <1>2, <2>1, <2>2, <2>3 DEF LineInv
<1>4. <<>> \o <<>> = <<>>
  BY <1>2, ConcatEmptySeq DEF Bytes
<1>5. Extract[<<>>] = [left |-> <<>>, reports |-> <<>>]
  BY <1>2, ExtractCases
<1>6. Extract[<<>>].left = <<>> /\ Extract[<<>>].reports = <<>>
  BY <1>5
<1> QED
  BY <1>1, <1>3, <1>4, <1>6 DEF All

\* Each step leaves bytes on the line and in the buffer.
LEMMA LineStep == LineInv /\ [Next]_vars => LineInv'
<1> SUFFICES ASSUME LineInv, [Next]_vars PROVE LineInv'
  OBVIOUS
<1>1. ASSUME NEW r \in Reports
      PROVE  Encode(r) \in Bytes /\ r \in Reportable
  BY ReportsAssumption, FrameRead
<1>2. CASE Report
  <2>1. PICK r \in Reports : sent' = Append(sent, r) /\ up' = up \o Encode(r)
    BY <1>2 DEF Report
  <2>2. /\ Len(sent) < REPORTS_N
        /\ buf' = buf /\ got' = got /\ lost' = lost /\ cut' = cut
    BY <1>2 DEF Report
  <2>3. sent' \in Seq(Reports) /\ Len(sent') <= REPORTS_N
    <3>1. /\ Append(sent, r) \in Seq(Reports)
          /\ Len(Append(sent, r)) = Len(sent) + 1 /\ Len(sent) \in Nat
      BY AppendProperties, LenProperties DEF LineInv
    <3> QED
      BY <2>1, <2>2, <3>1, LinkAssumption
  <2>4. up' \in Bytes
    BY <1>1, <2>1, ConcatProperties DEF LineInv, Bytes
  <2> QED
    BY <2>2, <2>3, <2>4 DEF LineInv, Partial
<1>3. CASE Cut
  <2>a. PICK r \in Reports : \E n \in 0 .. Len(Encode(r)) - 1 :
            cut' = Append(cut, r) /\ up' = up \o SubSeq(Encode(r), 1, n) \o Text
    BY <1>3 DEF Cut
  <2>1. PICK n \in 0 .. Len(Encode(r)) - 1 :
            cut' = Append(cut, r) /\ up' = up \o SubSeq(Encode(r), 1, n) \o Text
    BY <2>a
  <2>2. /\ Len(cut) < CUTS_N
        /\ sent' = sent /\ buf' = buf /\ got' = got /\ lost' = lost
    BY <1>3 DEF Cut
  <2> DEFINE e == Encode(r)
  <2>3. e \in Bytes /\ Len(e) \in Nat
    BY <1>1, LenProperties DEF Bytes
  <2> HIDE DEF e
  <2>4. SubSeq(e, 1, n) \in Bytes
    <3>1. n \in 0 .. Len(e) - 1
      BY <2>1 DEF e
    <3>2. \A i \in 1 .. n : e[i] \in Byte
      <4> SUFFICES ASSUME NEW i \in 1 .. n PROVE e[i] \in Byte
        OBVIOUS
      <4>1. i \in 1 .. Len(e)
        BY <2>3, <3>1
      <4> QED
        BY <2>3, <4>1, ElementOfSeq DEF Bytes
    <3>3. n \in Int
      BY <3>1
    <3> QED
      BY <3>2, <3>3, SubSeqProperties DEF Bytes
  <2>5. up' \in Bytes
    <3>1. Text \in Bytes /\ up \in Bytes
      BY LinkAssumption DEF LineInv, Bytes, Byte
    <3>2. up' = up \o SubSeq(e, 1, n) \o Text
      BY <2>1 DEF e
    <3>3. up \o SubSeq(e, 1, n) \in Bytes
      BY <2>4, <3>1, ConcatProperties DEF Bytes
    <3> QED
      BY <3>1, <3>2, <3>3, ConcatProperties DEF Bytes
  <2>6. cut' \in Seq(Reports) /\ Len(cut') = Len(cut) + 1 /\ Len(cut) \in Nat
    BY <2>1, AppendProperties, LenProperties DEF LineInv
  <2>7. Len(cut') <= CUTS_N
    BY <2>2, <2>6, LinkAssumption
  <2> QED
    BY <2>2, <2>5, <2>6, <2>7 DEF LineInv, Partial
<1>4. CASE Lose
  <2>1. /\ lost < LOST_N /\ up # <<>> /\ lost' = lost + 1 /\ up' = Tail(up)
        /\ sent' = sent /\ buf' = buf /\ got' = got /\ cut' = cut
    BY <1>4 DEF Lose
  <2>2. up' \in Bytes
    BY <2>1, Shorter DEF LineInv
  <2>3. lost' \in 0 .. LOST_N
    BY <2>1, LinkAssumption DEF LineInv
  <2> QED
    BY <2>1, <2>2, <2>3 DEF LineInv, Partial
<1>5. CASE Poll
  <2>1. PICK k \in Chunks :
            /\ k <= Len(up)
            /\ up' = SubSeq(up, k + 1, Len(up))
            /\ buf' = Extract[buf \o SubSeq(up, 1, k)].left
            /\ got' = got \o Extract[buf \o SubSeq(up, 1, k)].reports
    BY <1>5 DEF Poll
  <2>2. sent' = sent /\ lost' = lost /\ cut' = cut
    BY <1>5 DEF Poll
  <2>3. up' \in Bytes /\ buf' \in Bytes /\ Partial(buf') /\ got' \in Seq(Parsed)
    BY <2>1, OneRead
  <2> QED
    BY <2>2, <2>3 DEF LineInv, Partial
<1>6. CASE UNCHANGED vars
  BY <1>6 DEF vars, LineInv, Partial
<1> QED
  BY <1>2, <1>3, <1>4, <1>5, <1>6 DEF Next

\* What the line and the Central hold, at any time.
THEOREM LineInvariant == Spec => []LineInv
<1>1. Init => LineInv
  BY LineInit
<1>2. LineInv /\ [Next]_vars => LineInv'
  BY LineStep
<1> QED
  BY <1>1, <1>2, PTL DEF Spec

\* Types of the state, and what is left in buf_ after a poll is the start of
\* at most one report, for every report, text and division into reads.
THEOREM TypeInvariant == Spec => []TypeOK
<1>1. LineInv => TypeOK
  <2> SUFFICES ASSUME LineInv PROVE TypeOK
    OBVIOUS
  <2>1. Partial(buf) /\ buf \in Bytes
    BY DEF LineInv
  <2>2. buf # <<>> => buf[1] \in ReportTags
    BY <2>1 DEF Partial
  <2>3. ASSUME Len(buf) >= 2 PROVE Len(buf) < 2 + buf[2] /\ buf[2] <= MAXLEN
    <3>1. buf # <<>>
      BY <2>3, EmptySeq
    <3>2. Len(buf) \in Nat /\ buf[2] \in Nat
      BY <2>1, <2>3, <3>1, Parts
    <3>3. ~(Len(buf) < 2)
      BY <2>3, <3>2
    <3>4. ~TooLong(buf[2]) /\ Len(buf) < 2 + buf[2]
      BY <2>1, <3>1, <3>3 DEF Partial
    <3>5. MAXLEN \in Nat
      BY LinkAssumption
    <3> QED
      BY <3>2, <3>4, <3>5 DEF TooLong
  <2> QED
    BY <2>2, <2>3 DEF TypeOK, LineInv, Bytes
<1> QED
  BY <1>1, LineInvariant, PTL

\* A read decides when the handler gets a report, never which ones it gets.
THEOREM ReadsCostNothing == Spec => [][Poll => All' = All]_vars
<1>1. LineInv /\ [Next]_vars => [Poll => All' = All]_vars
  <2> SUFFICES ASSUME LineInv, Poll PROVE All' = All
    OBVIOUS
  <2>1. PICK k \in Chunks :
            /\ k <= Len(up)
            /\ up' = SubSeq(up, k + 1, Len(up))
            /\ buf' = Extract[buf \o SubSeq(up, 1, k)].left
            /\ got' = got \o Extract[buf \o SubSeq(up, 1, k)].reports
    BY DEF Poll
  <2> QED
    BY <2>1, OneRead
<1> QED
  BY <1>1, LineInvariant, PTL DEF Spec

\* What will be handed over is reports.
LEMMA AllTyped == LineInv => All \in Seq(Parsed)
<1> SUFFICES ASSUME LineInv PROVE got \o Extract[buf \o up].reports \in Seq(Parsed)
  BY DEF All
<1>1. buf \o up \in Bytes /\ got \in Seq(Parsed)
  BY ConcatProperties DEF LineInv, Bytes
<1>2. Extract[buf \o up].reports \in Seq(Parsed)
  BY <1>1, ExtractEquation DEF Outcome
<1> QED
  BY <1>1, <1>2, ConcatProperties

\* Then a report that is sent will be handed over, after all others.
LEMMA ReportStep ==
    ASSUME LineInv, InStep, Report
    PROVE  /\ InStep'
           /\ \E r \in Reports : sent' = sent \o <<r>> /\ All' = All \o <<r>>
<1>1. PICK r \in Reports : sent' = Append(sent, r) /\ up' = up \o Encode(r)
  BY DEF Report
<1>2. buf' = buf /\ got' = got /\ lost' = lost /\ cut' = cut
  BY DEF Report
<1>3. Extract[buf \o up].left = <<>>
  BY DEF InStep
<1> DEFINE e == Encode(r)
           b == buf \o up
<1>4. /\ e \in Bytes /\ r \in Parsed
      /\ Extract[e].left = <<>> /\ Extract[e].reports = <<r>>
  BY ReportsAssumption, FrameRead
<1>5. up \in Bytes /\ buf \in Bytes /\ got \in Seq(Parsed) /\ sent \in Seq(Reports)
  BY DEF LineInv
<1>6. b \in Bytes
  BY <1>5, ConcatProperties DEF Bytes
<1> HIDE DEF e
<1>7. buf' \o up' = b \o e
  <2>1. buf' \o up' = buf \o (up \o e)
    BY <1>1, <1>2 DEF e
  <2> QED
    BY <1>4, <1>5, <2>1, BytesAssociative
<1>8. <<>> \o e = e
  BY <1>4, ConcatEmptySeq DEF Bytes
<1>9. Extract[b].left = <<>>
  BY <1>3
<1> DEFINE x == Extract[b].reports
<1>10. All = got \o x
  BY DEF All
<1> HIDE DEF b
<1>11. /\ Extract[b \o e].left = <<>>
       /\ Extract[b \o e].reports = x \o <<r>>
  <2>1. /\ Extract[b \o e].left = Extract[Extract[b].left \o e].left
        /\ Extract[b \o e].reports = Extract[b].reports \o Extract[Extract[b].left \o e].reports
    BY <1>4, <1>6, TwoReads
  <2> QED
    BY <1>4, <1>8, <1>9, <2>1
<1>12. x \in Seq(Parsed)
  BY <1>6, ExtractEquation DEF Outcome
<1> HIDE DEF x
<1>13. (got \o x) \o <<r>> = got \o (x \o <<r>>)
  <2>1. <<r>> \in Seq(Parsed)
    BY <1>4
  <2> QED
    <3>1. Regroups(got, x, <<r>>)
      BY <1>5, <1>12, <2>1, ParsedAssociative, Zenon
    <3> QED
      BY <3>1 DEF Regroups
<1>14. All' = got' \o Extract[buf' \o up'].reports
  BY DEF All
<1>15. All' = All \o <<r>>
  BY <1>2, <1>7, <1>10, <1>11, <1>13, <1>14
<1>16. sent' = sent \o <<r>>
  BY <1>1, <1>5, AppendIsConcat
<1>17. InStep'
  BY <1>7, <1>11 DEF InStep
<1> QED
  BY <1>1, <1>15, <1>16, <1>17

\* And a read changes neither what will be handed over nor what is left.
LEMMA PollStep ==
    ASSUME LineInv, Poll
    PROVE  All' = All /\ (InStep' <=> InStep) /\ sent' = sent
<1>1. PICK k \in Chunks :
          /\ k <= Len(up)
          /\ up' = SubSeq(up, k + 1, Len(up))
          /\ buf' = Extract[buf \o SubSeq(up, 1, k)].left
          /\ got' = got \o Extract[buf \o SubSeq(up, 1, k)].reports
          /\ sent' = sent
  BY DEF Poll
<1>2. All' = All /\ Extract[buf' \o up'].left = Extract[buf \o up].left
  BY <1>1, OneRead
<1> QED
  BY <1>1, <1>2 DEF InStep

\* While nothing was lost, what is on the line is whole reports: read to its
\* end, they are what was sent and nothing is left over.
OrderInv == Faults = 0 => All = sent /\ Extract[buf \o up].left = <<>>

\* Without a fault, sending adds to both sides and a read changes neither.
LEMMA OrderStep == LineInv /\ LineInv' /\ OrderInv /\ [Next]_vars => OrderInv'
<1> SUFFICES ASSUME LineInv, LineInv', OrderInv, [Next]_vars, Faults' = 0
             PROVE  All' = sent' /\ (Extract[buf \o up].left)' = <<>>
  BY DEF OrderInv
<1>0. lost \in Nat /\ Len(cut) \in Nat /\ lost' \in Nat /\ Len(cut') \in Nat /\ lost' + Len(cut') = 0
  BY LenProperties DEF LineInv, Faults
<1>1. CASE Report
  <2>1. lost' = lost /\ cut' = cut /\ All = sent /\ InStep
    BY <1>0, <1>1 DEF Report, OrderInv, Faults, InStep
  <2> QED
    BY <1>1, <2>1, ReportStep DEF InStep
<1>2. CASE Cut
  <2>1. PICK r \in Reports : cut' = Append(cut, r)
    BY <1>2 DEF Cut
  <2>2. Len(cut') = Len(cut) + 1
    BY <2>1, AppendProperties DEF LineInv
  <2> QED
    BY <1>0, <2>2
<1>3. CASE Lose
  BY <1>0, <1>3 DEF Lose
<1>4. CASE Poll
  <2>1. lost' = lost /\ cut' = cut /\ All = sent /\ InStep
    BY <1>0, <1>4 DEF Poll, OrderInv, Faults, InStep
  <2> QED
    BY <1>4, <2>1, PollStep DEF InStep
<1>5. CASE UNCHANGED vars
  <2>1. All = sent /\ Extract[buf \o up].left = <<>>
    BY <1>0, <1>5 DEF vars, OrderInv, Faults
  <2> QED
    BY <1>5, <2>1 DEF vars, All
<1> QED
  BY <1>1, <1>2, <1>3, <1>4, <1>5 DEF Next

\* However the reads divide the bytes, the handler gets what was sent, whole,
\* once and in order, as long as the line loses nothing.
THEOREM WholeAndInOrder == Spec => []InOrder
<1>1. Init => OrderInv
  BY LineInit DEF Init, OrderInv
<1>2. LineInv /\ LineInv' /\ OrderInv /\ [Next]_vars => OrderInv'
  BY OrderStep
<1>3. OrderInv => InOrder
  BY DEF OrderInv, InOrder
<1> QED
  BY <1>1, <1>2, <1>3, LineInvariant, PTL DEF Spec

----------------------------------------------------------------------------
(* Resets *)

\* What is left of a buffer is its end.
LEMMA LeftIsEnd == \A b \in Bytes : \E a \in Bytes : b = a \o Extract[b].left
<1> DEFINE P == { b \in Bytes : \E a \in Bytes : b = a \o Extract[b].left }
<1>1. ASSUME NEW b \in Bytes, \A c \in Bytes : Len(c) < Len(b) => c \in P
      PROVE  b \in P
  <2>1. CASE Partial(b)
    <3>1. Extract[b] = [left |-> b, reports |-> <<>>]
      BY <2>1, ExtractCases
    <3>2. Extract[b].left = b
      BY <3>1
    <3>3. <<>> \in Bytes /\ b = <<>> \o b
      BY EmptySeq, ConcatEmptySeq DEF Bytes
    <3> QED
      BY <3>2, <3>3
  <2>2. CASE Whole(b)
    <3>1. After(b) \in Bytes /\ Extract[b].left = Extract[After(b)].left /\ Extract[After(b)] \in Outcome
      BY <2>2, Shorter, ExtractCases
    <3>2. PICK a \in Bytes : After(b) = a \o Extract[After(b)].left
      BY <1>1, <2>2, Shorter
    <3>3. /\ SubSeq(b, 1, 2 + b[2]) \in Bytes
          /\ SubSeq(b, 1, 2 + b[2]) \o After(b) = b
      <4>1. b[2] \in Nat /\ Len(b) >= 2 + b[2] /\ 2 + b[2] \in Nat \ {0} /\ Len(b) \in Nat
        BY <2>2, Shorter, LenProperties DEF Whole, Byte, Bytes
      <4>2. (2 + b[2]) + 1 = 3 + b[2]
        BY <4>1
      <4>3. SubSeq(b, 1, 2 + b[2]) \o SubSeq(b, (2 + b[2]) + 1, Len(b)) = b
            /\ SubSeq(b, 1, 2 + b[2]) \in Bytes
        BY <4>1, ReadSplits
      <4> QED
        BY <4>2, <4>3 DEF After
    <3>4. SubSeq(b, 1, 2 + b[2]) \o a \in Bytes
      BY <3>3, ConcatProperties DEF Bytes
    <3>5. (SubSeq(b, 1, 2 + b[2]) \o a) \o Extract[b].left = b
      <4>1. Extract[b].left \in Bytes
        BY ExtractCases DEF Outcome
      <4>2. (SubSeq(b, 1, 2 + b[2]) \o a) \o Extract[b].left = SubSeq(b, 1, 2 + b[2]) \o (a \o Extract[b].left)
        BY <3>3, <4>1, BytesAssociative
      <4> QED
        BY <3>1, <3>2, <3>3, <4>2
    <3> QED
      BY <3>4, <3>5
  <2>3. CASE ~Partial(b) /\ ~Whole(b)
    <3>1. b # <<>> /\ Extract[b] = Extract[Tail(b)]
      BY <2>3, ExtractCases
    <3>2. Tail(b) \in Bytes /\ Len(Tail(b)) < Len(b)
      BY <3>1, Shorter
    <3>3. PICK a \in Bytes : Tail(b) = a \o Extract[Tail(b)].left
      BY <1>1, <3>2
    <3>4. SubSeq(b, 1, 1) \in Bytes /\ b = SubSeq(b, 1, 1) \o Tail(b)
      <4>1. Len(b) \in Nat \ {0}
        BY <3>1, EmptySeq, LenProperties DEF Bytes
      <4>2. SubSeq(b, 1, 1) \in Bytes /\ SubSeq(b, 1, 1) \o SubSeq(b, 1 + 1, Len(b)) = b
        <5>1. 1 \in Nat \ {0} /\ 1 <= Len(b)
          BY <4>1
        <5> QED
          BY <5>1, ReadSplits
      <4>3. Tail(b) = SubSeq(b, 2, Len(b)) /\ 1 + 1 = 2
        BY <3>1, TailIsSubSeq DEF Bytes
      <4> QED
        BY <4>2, <4>3
    <3>5. (SubSeq(b, 1, 1) \o a) \o Extract[b].left = b
      <4>1. Extract[b].left \in Bytes
        BY ExtractCases DEF Outcome
      <4>2. (SubSeq(b, 1, 1) \o a) \o Extract[b].left = SubSeq(b, 1, 1) \o (a \o Extract[b].left)
        BY <3>4, <4>1, BytesAssociative
      <4> QED
        BY <3>1, <3>3, <3>4, <4>2
    <3>6. SubSeq(b, 1, 1) \o a \in Bytes
      BY <3>4, ConcatProperties DEF Bytes
    <3> QED
      BY <3>5, <3>6
  <2> QED
    BY <2>1, <2>2, <2>3
<1>2. P \in SUBSET Bytes
  OBVIOUS
<1>3. P = Bytes
  <2> HIDE DEF P
  <2> QED
    BY <1>1, <1>2, BytesInduction
<1> QED
  BY <1>3

\* The text of the console leaves nothing over, whatever is before it: what
\* may still become a report starts with a tag, and is shorter than the text.
LEMMA TextSettles ==
    ASSUME NEW p \in Bytes
    PROVE  p \o Text \in Bytes /\ Extract[p \o Text].left = <<>>
<1> DEFINE b == p \o Text
           w == Extract[b].left
<1>1. Text \in Bytes
  BY LinkAssumption DEF Bytes, Byte
<1>2. /\ b \in Bytes /\ Len(b) = Len(p) + Len(Text)
      /\ \A i \in 1 .. Len(p) + Len(Text) : b[i] = IF i <= Len(p) THEN p[i] ELSE Text[i - Len(p)]
  BY <1>1, ConcatProperties DEF Bytes
<1>3. Len(p) \in Nat /\ Len(Text) \in Nat
  BY <1>1, LenProperties DEF Bytes
<1> HIDE DEF b
<1>4. w \in Bytes /\ Partial(w)
  BY <1>2, ExtractCases, LeftPartial DEF Outcome
<1>5. PICK a \in Bytes : b = a \o w
  BY <1>2, LeftIsEnd
<1> HIDE DEF w
<1>6. /\ Len(b) = Len(a) + Len(w)
      /\ \A i \in 1 .. Len(a) + Len(w) : b[i] = IF i <= Len(a) THEN a[i] ELSE w[i - Len(a)]
  BY <1>4, <1>5, ConcatProperties DEF Bytes
<1>7. Len(a) \in Nat /\ Len(w) \in Nat
  BY <1>4, LenProperties DEF Bytes
<1>8. ASSUME w # <<>> PROVE FALSE
  <2>1. w[1] \in ReportTags /\ (Len(w) < 2 \/ (~TooLong(w[2]) /\ Len(w) < 2 + w[2]))
    BY <1>4, <1>8 DEF Partial
  <2>2. Len(w) >= 1
    BY <1>4, <1>7, <1>8, EmptySeq DEF Bytes
  <2>3. b[Len(a) + 1] = w[1]
    <3>1. Len(a) + 1 \in 1 .. Len(a) + Len(w) /\ ~(Len(a) + 1 <= Len(a)) /\ (Len(a) + 1) - Len(a) = 1
      BY <1>7, <2>2
    <3> QED
      BY <1>6, <3>1
  <2>4. Len(a) + 1 <= Len(p)
    <3> SUFFICES ASSUME ~(Len(a) + 1 <= Len(p)) PROVE FALSE
      OBVIOUS
    <3>1. /\ Len(a) + 1 \in 1 .. Len(p) + Len(Text)
          /\ (Len(a) + 1) - Len(p) \in 1 .. Len(Text)
      BY <1>2, <1>3, <1>6, <1>7, <2>2
    <3>2. b[Len(a) + 1] = Text[(Len(a) + 1) - Len(p)]
      BY <1>2, <3>1
    <3>3. DOMAIN Text = 1 .. Len(Text)
      BY <1>1, LenProperties DEF Bytes
    <3> QED
      BY <2>1, <2>3, <3>1, <3>2, <3>3, TextAssumption
  <2>5. Len(w) > Len(Text) /\ Len(Text) > MAXLEN /\ MAXLEN \in Nat /\ MAXLEN >= 21
    BY <1>2, <1>3, <1>6, <1>7, <2>4, LinkAssumption, TextAssumption
  <2>6. Len(w) >= MAXLEN + 2 /\ Len(w) >= 2
    BY <1>3, <1>7, <2>5
  <2>7. w[2] \in Byte
    <3>1. 2 \in 1 .. Len(w)
      BY <1>7, <2>6
    <3> QED
      BY <1>4, <3>1, ElementOfSeq DEF Bytes
  <2>8. w[2] \in Nat
    BY <2>7 DEF Byte
  <2>9. ~(Len(w) < 2)
    BY <1>7, <2>6
  <2>10. ~(w[2] > MAXLEN) /\ Len(w) < 2 + w[2]
    BY <2>1, <2>9 DEF TooLong
  <2> QED
    BY <1>7, <2>5, <2>6, <2>8, <2>10
<1> QED
  BY <1>2, <1>8 DEF b, w

\* what the Central makes of r cut short after n bytes, with the text behind it
OfCut(r, n) == Extract[SubSeq(Encode(r), 1, n) \o Text].reports

\* A reset settles the line, whatever happened on it before, and if it was
\* settled, what the cut gives comes after all other reports.
LEMMA CutStep ==
    ASSUME LineInv, Cut
    PROVE  /\ InStep' /\ sent' = sent /\ lost' = lost
           /\ \E r \in Reports : \E n \in 0 .. Len(Encode(r)) - 1 :
                 /\ cut' = Append(cut, r)
                 /\ OfCut(r, n) \in Seq(Parsed)
                 /\ InStep => All' = All \o OfCut(r, n)
<1>1. PICK r \in Reports : \E n \in 0 .. Len(Encode(r)) - 1 :
          cut' = Append(cut, r) /\ up' = up \o SubSeq(Encode(r), 1, n) \o Text
  BY DEF Cut
<1>2. PICK n \in 0 .. Len(Encode(r)) - 1 :
          cut' = Append(cut, r) /\ up' = up \o SubSeq(Encode(r), 1, n) \o Text
  BY <1>1
<1>3. sent' = sent /\ buf' = buf /\ got' = got /\ lost' = lost
  BY DEF Cut
<1> DEFINE p == SubSeq(Encode(r), 1, n)
           b == buf \o up
           z == p \o Text
           x == Extract[b].reports
<1>4. p \in Bytes
  <2>1. Encode(r) \in Bytes
    BY ReportsAssumption, FrameRead
  <2>2. Len(Encode(r)) \in Nat
    BY <2>1, LenProperties DEF Bytes
  <2>3. n \in Int /\ n <= Len(Encode(r))
    BY <2>2
  <2>4. \A i \in 1 .. n : Encode(r)[i] \in Byte
    <3> SUFFICES ASSUME NEW i \in 1 .. n PROVE Encode(r)[i] \in Byte
      OBVIOUS
    <3>1. i \in 1 .. Len(Encode(r))
      BY <2>2, <2>3
    <3> QED
      BY <2>1, <3>1, ElementOfSeq DEF Bytes
  <2> QED
    BY <2>3, <2>4, SubSeqProperties DEF Bytes
<1>5. up \in Bytes /\ buf \in Bytes /\ got \in Seq(Parsed)
  BY DEF LineInv
<1>6. Text \in Bytes
  BY LinkAssumption DEF Bytes, Byte
<1>7. b \in Bytes /\ z \in Bytes /\ Extract[z].left = <<>>
  BY <1>4, <1>5, TextSettles, ConcatProperties DEF Bytes
<1>8. OfCut(r, n) = Extract[z].reports
  BY DEF OfCut
<1>9. up' = (up \o p) \o Text
  BY <1>2
<1> HIDE DEF p
<1>10. buf' \o up' = b \o z
  <2>1. up' = up \o z
    BY <1>4, <1>5, <1>6, <1>9, BytesAssociative
  <2> HIDE DEF z
  <2> QED
    BY <1>3, <1>5, <1>7, <2>1, BytesAssociative
<1>11. InStep'
  <2>1. b \o z = (b \o p) \o Text
    BY <1>4, <1>6, <1>7, BytesAssociative
  <2>2. b \o p \in Bytes
    BY <1>4, <1>7, ConcatProperties DEF Bytes
  <2> QED
    BY <1>10, <2>1, <2>2, TextSettles DEF InStep
<1>12. OfCut(r, n) \in Seq(Parsed)
  BY <1>7, <1>8, ExtractEquation DEF Outcome
<1>13. ASSUME InStep PROVE All' = All \o OfCut(r, n)
  <2> HIDE DEF z
  <2>1. Extract[b].left = <<>>
    BY <1>13 DEF InStep
  <2>2. <<>> \o z = z
    BY <1>7, ConcatEmptySeq DEF Bytes
  <2>3. All = got \o x
    BY DEF All
  <2> HIDE DEF b
  <2>4. Extract[b \o z].reports = x \o Extract[z].reports
    <3>1. Extract[b \o z].reports = Extract[b].reports \o Extract[Extract[b].left \o z].reports
      BY <1>7, TwoReads
    <3> QED
      BY <2>1, <2>2, <3>1
  <2>5. x \in Seq(Parsed)
    BY <1>7, ExtractEquation DEF Outcome
  <2> HIDE DEF x
  <2>6. (got \o x) \o OfCut(r, n) = got \o (x \o OfCut(r, n))
    <3>1. Regroups(got, x, OfCut(r, n))
      BY <1>5, <1>12, <2>5, ParsedAssociative, Zenon
    <3> QED
      BY <3>1 DEF Regroups
  <2>7. All' = got' \o Extract[buf' \o up'].reports
    BY DEF All
  <2> QED
    BY <1>3, <1>8, <1>10, <2>3, <2>4, <2>6, <2>7
<1> QED
  BY <1>2, <1>3, <1>11, <1>12, <1>13

\* A report starts with its tag and has at least two bytes: where only the
\* first k bytes may be tags, there are at most half as many reports.
LEMMA FewReports ==
    ASSUME NEW b \in Bytes, NEW k \in Nat,
           \A i \in 1 .. Len(b) : i > k => b[i] \notin ReportTags
    PROVE  2 * Len(Extract[b].reports) <= k + 1
<1> DEFINE Bounded(c) ==
               \A n \in Nat : (\A i \in 1 .. Len(c) : i > n => c[i] \notin ReportTags)
                                  => 2 * Len(Extract[c].reports) <= n + 1
           P == { c \in Bytes : Bounded(c) }
<1>1. ASSUME NEW c \in Bytes, \A d \in Bytes : Len(d) < Len(c) => d \in P
      PROVE  c \in P
  <2> SUFFICES ASSUME NEW n \in Nat, \A i \in 1 .. Len(c) : i > n => c[i] \notin ReportTags
               PROVE  2 * Len(Extract[c].reports) <= n + 1
    OBVIOUS
  <2>1. CASE Partial(c)
    <3>1. Extract[c] = [left |-> c, reports |-> <<>>]
      BY <2>1, ExtractCases
    <3>2. Extract[c].reports = <<>> /\ Len(<<>>) = 0
      BY <3>1, EmptySeq
    <3> QED
      BY <3>2
  <2>2. CASE Whole(c)
    <3> DEFINE d == After(c)
               x == Extract[d].reports
               y == Parse(c[1], Value(c))
    <3>a. d \in Bytes /\ Len(d) < Len(c) /\ c[2] \in Byte
      BY <2>2, Shorter
    <3>b. Extract[c].reports = <<y>> \o x
      BY <2>2, ExtractCases
    <3>c. c[2] \in Nat
      <4>1. c[2] \in Byte
        BY <3>a
      <4> QED
        BY ONLY <4>1 DEF Byte
    <3>1. d \in Bytes /\ Len(d) < Len(c) /\ c[2] \in Nat /\ Extract[c].reports = <<y>> \o x
      BY <3>a, <3>b, <3>c, Zenon
    <3>2. Len(c) \in Nat /\ Len(c) >= 2 + c[2] /\ c[1] \in ReportTags
      BY <2>2, LenProperties DEF Whole, Bytes
    <3>3. Len(d) = Len(c) - 2 - c[2] /\ \A i \in 1 .. Len(d) : d[i] = c[i + (2 + c[2])]
      <4>1. Len(d) = Len(c) - 2 - c[2]
        BY <2>2, <3>2, Parts DEF After, Whole
      <4>2. \A i \in 3 + c[2] .. Len(c) : c[i] \in Byte
        <5> SUFFICES ASSUME NEW i \in 3 + c[2] .. Len(c) PROVE c[i] \in Byte
          OBVIOUS
        <5>1. i \in 1 .. Len(c)
          BY <3>1, <3>2
        <5> QED
          BY <5>1, ElementOfSeq DEF Bytes
      <4>3. \A i \in 1 .. Len(c) - (3 + c[2]) + 1 : d[i] = c[3 + c[2] + i - 1]
        <5>1. 3 + c[2] \in Int /\ Len(c) \in Int
          BY <3>1, <3>2
        <5>2. \A i \in 1 .. Len(c) - (3 + c[2]) + 1 : SubSeq(c, 3 + c[2], Len(c))[i] = c[3 + c[2] + i - 1]
          BY ONLY <4>2, <5>1, SubSeqProperties
        <5> QED
          BY <5>2 DEF After
      <4>4. \A i \in 1 .. Len(d) : i \in 1 .. Len(c) - (3 + c[2]) + 1 /\ 3 + c[2] + i - 1 = i + (2 + c[2])
        BY <3>1, <3>2, <4>1
      <4> QED
        BY <4>1, <4>3, <4>4
    <3>4. Bounded(d)
      BY <1>1, <3>1
    <3>5. Len(<<y>> \o x) = 1 + Len(x) /\ Len(x) \in Nat
      <4>1. y \in Parsed /\ x \in Seq(Parsed)
        <5>1. Value(c) \in Bytes
          BY <2>2, Shorter
        <5> QED
          <6>1. y \in Parsed
            BY <3>2, <5>1 DEF Parsed
          <6>2. Extract[d] \in Outcome
            BY <3>a, ExtractCases
          <6> QED
            BY <6>1, <6>2 DEF Outcome
      <4>2. <<y>> \in Seq(Parsed) /\ Len(<<y>>) = 1
        BY <4>1
      <4> QED
        BY <4>1, <4>2, ConcatProperties, LenProperties
    <3>6. n >= 1
      <4>1. 1 \in 1 .. Len(c)
        BY <3>1, <3>2
      <4> QED
        BY <3>2, <4>1
    <3> HIDE DEF d, x, y
    <3>7. CASE n >= 2 + c[2]
      <4> DEFINE j == n - (2 + c[2])
      <4>1. j \in Nat
        BY <3>1, <3>7
      <4>2. \A i \in 1 .. Len(d) : i > j => d[i] \notin ReportTags
        <5> SUFFICES ASSUME NEW i \in 1 .. Len(d), i > j PROVE d[i] \notin ReportTags
          OBVIOUS
        <5>1. i + (2 + c[2]) \in 1 .. Len(c) /\ i + (2 + c[2]) > n
          BY <3>1, <3>2, <3>3, <3>7
        <5> QED
          BY <3>3, <5>1
      <4>3. 2 * Len(Extract[d].reports) <= j + 1
        BY <3>4, <4>1, <4>2
      <4>4. Len(x) \in Nat /\ c[2] \in Nat /\ 2 * Len(x) <= n - (2 + c[2]) + 1
        BY <3>1, <3>5, <4>3 DEF x
      <4>5. 2 * (1 + Len(x)) <= n + 1
        BY ONLY <4>4, n \in Nat
      <4> QED
        BY <3>1, <3>5, <4>5
    <3>8. CASE ~(n >= 2 + c[2])
      <4>1. \A i \in 1 .. Len(d) : i > 0 => d[i] \notin ReportTags
        <5> SUFFICES ASSUME NEW i \in 1 .. Len(d) PROVE d[i] \notin ReportTags
          OBVIOUS
        <5>1. i + (2 + c[2]) \in 1 .. Len(c) /\ i + (2 + c[2]) > n
          BY <3>1, <3>2, <3>3, <3>8
        <5> QED
          BY <3>3, <5>1
      <4>2. 2 * Len(Extract[d].reports) <= 0 + 1
        BY <3>4, <4>1
      <4> QED
        BY <3>1, <3>5, <3>6, <4>2 DEF x
    <3> QED
      BY <3>7, <3>8
  <2>3. CASE ~Partial(c) /\ ~Whole(c)
    <3> DEFINE d == Tail(c)
    <3>1. c # <<>> /\ Extract[c] = Extract[d]
      BY <2>3, ExtractCases
    <3>2. d \in Bytes /\ Len(d) < Len(c) /\ Len(d) = Len(c) - 1 /\ Len(c) \in Nat
      BY <3>1, Parts, Shorter
    <3>3. \A i \in 1 .. Len(d) : d[i] = c[i + 1]
      BY <3>1, HeadTailProperties DEF Bytes
    <3>4. Bounded(d) /\ Len(Extract[d].reports) \in Nat
      BY <1>1, <3>2, ExtractCases, LenProperties DEF Outcome
    <3> HIDE DEF d
    <3>5. CASE n = 0
      <4>1. \A i \in 1 .. Len(d) : i > n => d[i] \notin ReportTags
        <5> SUFFICES ASSUME NEW i \in 1 .. Len(d) PROVE d[i] \notin ReportTags
          OBVIOUS
        <5>1. i + 1 \in 1 .. Len(c) /\ i + 1 > n
          BY <3>2, <3>5
        <5> QED
          BY <3>3, <5>1
      <4> QED
        BY <3>1, <3>4, <4>1
    <3>6. CASE n # 0
      <4>1. n - 1 \in Nat
        BY <3>6
      <4>2. \A i \in 1 .. Len(d) : i > n - 1 => d[i] \notin ReportTags
        <5> SUFFICES ASSUME NEW i \in 1 .. Len(d), i > n - 1 PROVE d[i] \notin ReportTags
          OBVIOUS
        <5>1. i + 1 \in 1 .. Len(c) /\ i + 1 > n
          BY <3>2
        <5> QED
          BY <3>3, <5>1
      <4>3. 2 * Len(Extract[d].reports) <= (n - 1) + 1
        BY <3>4, <4>1, <4>2
      <4> QED
        BY <3>1, <3>4, <4>3
    <3> QED
      BY <3>5, <3>6
  <2> QED
    BY <2>1, <2>2, <2>3
<1>2. P = Bytes
  <2>1. P \in SUBSET Bytes
    OBVIOUS
  <2> HIDE DEF P
  <2> QED
    BY <1>1, <2>1, BytesInduction
<1>3. Bounded(b)
  BY <1>2
<1> QED
  BY <1>3

\* A cut of r makes at most half as many reports as r has bytes.
LEMMA CutMakesFew ==
    ASSUME NEW r \in Reports, NEW n \in 0 .. Len(Encode(r)) - 1
    PROVE  2 * Len(OfCut(r, n)) <= Len(Encode(r))
<1> DEFINE e == Encode(r)
           p == SubSeq(e, 1, n)
           z == p \o Text
<1>1. e \in Bytes /\ Len(e) \in Nat
  BY ReportsAssumption, FrameRead, LenProperties DEF Bytes
<1> HIDE DEF e
<1>2. n \in Nat /\ n <= Len(e) - 1
  BY <1>1 DEF e
<1>3. p \in Bytes /\ Len(p) = n
  <2>1. \A i \in 1 .. n : e[i] \in Byte
    <3> SUFFICES ASSUME NEW i \in 1 .. n PROVE e[i] \in Byte
      OBVIOUS
    <3>1. i \in 1 .. Len(e)
      BY <1>1, <1>2
    <3> QED
      BY <1>1, <3>1, ElementOfSeq DEF Bytes
  <2>2. p \in Bytes /\ Len(p) = IF 1 <= n THEN n - 1 + 1 ELSE 0
    BY <1>2, <2>1, SubSeqProperties DEF Bytes
  <2> QED
    BY <1>2, <2>2
<1> HIDE DEF p
<1>4. Text \in Bytes /\ DOMAIN Text = 1 .. Len(Text) /\ Len(Text) \in Nat
  <2>1. Text \in Bytes
    BY LinkAssumption DEF Bytes, Byte
  <2> QED
    BY <2>1, LenProperties DEF Bytes
<1>5. /\ z \in Bytes /\ Len(z) = n + Len(Text)
      /\ \A i \in 1 .. n + Len(Text) : z[i] = IF i <= n THEN p[i] ELSE Text[i - n]
  BY <1>3, <1>4, ConcatProperties DEF Bytes
<1> HIDE DEF z
<1>6. \A i \in 1 .. Len(z) : i > n => z[i] \notin ReportTags
  <2> SUFFICES ASSUME NEW i \in 1 .. Len(z), i > n PROVE z[i] \notin ReportTags
    OBVIOUS
  <2>1. i - n \in 1 .. Len(Text) /\ ~(i <= n) /\ i \in 1 .. n + Len(Text)
    BY <1>2, <1>4, <1>5
  <2>2. z[i] = Text[i - n]
    BY <1>5, <2>1
  <2> QED
    BY <1>4, <2>1, <2>2, TextAssumption
<1>7. 2 * Len(Extract[z].reports) <= n + 1 /\ Len(Extract[z].reports) \in Nat
  BY <1>2, <1>5, <1>6, FewReports, ExtractCases, LenProperties DEF Outcome
<1>8. OfCut(r, n) = Extract[z].reports
  BY DEF OfCut, z, p, e
<1> QED
  BY <1>1, <1>2, <1>7, <1>8 DEF e

\* s is part of t: its elements are elements of t, in the same order.
Within(s, t) ==
    \E f \in [1 .. Len(s) -> 1 .. Len(t)] :
        /\ \A i \in 1 .. Len(s) : \A j \in 1 .. Len(s) : i < j => f[i] < f[j]
        /\ \A i \in 1 .. Len(s) : t[f[i]] = s[i]

\* What comes after takes nothing away.
LEMMA WithinMore ==
    ASSUME NEW s \in Seq(Parsed), NEW t \in Seq(Parsed), NEW x \in Seq(Parsed), Within(s, t)
    PROVE  Within(s, t \o x)
<1>1. PICK f \in [1 .. Len(s) -> 1 .. Len(t)] :
          /\ \A i \in 1 .. Len(s) : \A j \in 1 .. Len(s) : i < j => f[i] < f[j]
          /\ \A i \in 1 .. Len(s) : t[f[i]] = s[i]
  BY DEF Within
<1>2. /\ Len(t \o x) = Len(t) + Len(x) /\ Len(t) \in Nat /\ Len(x) \in Nat
      /\ \A i \in 1 .. Len(t) : (t \o x)[i] = t[i]
  <2>1. /\ Len(t \o x) = Len(t) + Len(x) /\ Len(t) \in Nat /\ Len(x) \in Nat
        /\ \A i \in 1 .. Len(t) + Len(x) : (t \o x)[i] = IF i <= Len(t) THEN t[i] ELSE x[i - Len(t)]
    BY ConcatProperties, LenProperties
  <2> QED
    BY <2>1
<1>3. f \in [1 .. Len(s) -> 1 .. Len(t \o x)]
  <2>1. \A k \in 1 .. Len(t) : k \in 1 .. Len(t \o x)
    BY <1>2
  <2> QED
    BY <2>1
<1>4. \A i \in 1 .. Len(s) : (t \o x)[f[i]] = s[i]
  BY <1>1, <1>2
<1> QED
  BY <1>1, <1>3, <1>4 DEF Within

\* The same element at the end of both.
LEMMA WithinAppend ==
    ASSUME NEW s \in Seq(Parsed), NEW t \in Seq(Parsed), NEW r \in Parsed, Within(s, t)
    PROVE  Within(Append(s, r), Append(t, r))
<1>1. PICK f \in [1 .. Len(s) -> 1 .. Len(t)] :
          /\ \A i \in 1 .. Len(s) : \A j \in 1 .. Len(s) : i < j => f[i] < f[j]
          /\ \A i \in 1 .. Len(s) : t[f[i]] = s[i]
  BY DEF Within
<1>2. Len(s) \in Nat /\ Len(t) \in Nat
  BY LenProperties
<1> DEFINE u == Append(s, r)
           v == Append(t, r)
           g == [ i \in 1 .. Len(s) + 1 |-> IF i <= Len(s) THEN f[i] ELSE Len(t) + 1 ]
<1>3. /\ Len(u) = Len(s) + 1 /\ u[Len(s) + 1] = r
      /\ \A i \in 1 .. Len(s) : u[i] = s[i]
  BY AppendProperties
<1>4. /\ Len(v) = Len(t) + 1 /\ v[Len(t) + 1] = r
      /\ \A i \in 1 .. Len(t) : v[i] = t[i]
  BY AppendProperties
<1> HIDE DEF u, v
<1>5. \A i \in 1 .. Len(s) + 1 : i \in 1 .. Len(s) \/ i = Len(s) + 1
  BY <1>2
<1>6. /\ \A i \in 1 .. Len(s) : g[i] = f[i] /\ f[i] \in 1 .. Len(t)
      /\ g[Len(s) + 1] = Len(t) + 1
  BY <1>2
<1>7. g \in [1 .. Len(u) -> 1 .. Len(v)]
  <2>1. \A i \in 1 .. Len(s) + 1 : g[i] \in 1 .. Len(v)
    BY <1>2, <1>4, <1>5, <1>6
  <2>2. DOMAIN g = 1 .. Len(u) /\ g = [ i \in 1 .. Len(u) |-> g[i] ]
    BY <1>3
  <2> HIDE DEF g
  <2> QED
    BY <1>3, <2>1, <2>2
<1> HIDE DEF g
<1>8. ASSUME NEW i \in 1 .. Len(u), NEW j \in 1 .. Len(u), i < j
      PROVE  g[i] < g[j]
  <2>1. i \in 1 .. Len(s)
    BY <1>2, <1>3, <1>8
  <2>2. CASE j \in 1 .. Len(s)
    BY <1>1, <1>6, <1>8, <2>1, <2>2
  <2>3. CASE j = Len(s) + 1
    BY <1>2, <1>6, <2>1, <2>3
  <2> QED
    BY <1>3, <1>5, <2>2, <2>3
<1>9. ASSUME NEW i \in 1 .. Len(u)
      PROVE  v[g[i]] = u[i]
  <2>1. CASE i \in 1 .. Len(s)
    BY <1>1, <1>3, <1>4, <1>6, <2>1
  <2>2. CASE i = Len(s) + 1
    BY <1>3, <1>4, <1>6, <2>2
  <2> QED
    BY <1>3, <1>5, <2>1, <2>2
<1>10. Within(u, v)
  BY <1>7, <1>8, <1>9 DEF Within
<1> QED
  BY <1>10 DEF u, v

\* What was sent whole is part of what the handler gets.
ResetInv == lost = 0 => InStep /\ Within(sent, All)

\* A cut adds to what the handler gets, a report adds to both.
LEMMA ResetStep == LineInv /\ LineInv' /\ ResetInv /\ [Next]_vars => ResetInv'
<1> SUFFICES ASSUME LineInv, LineInv', ResetInv, [Next]_vars, lost' = 0
             PROVE  InStep' /\ Within(sent', All')
  BY DEF ResetInv
<1>0. lost \in Nat /\ sent \in Seq(Parsed) /\ All \in Seq(Parsed)
  <2>1. \A r \in Reports : r \in Parsed
    BY ReportsAssumption, FrameRead
  <2>2. sent \in Seq(Parsed)
    <3>1. Reports \subseteq Parsed
      BY <2>1
    <3> QED
      BY <3>1, SeqMonotonic DEF LineInv
  <2> QED
    BY <2>2, AllTyped DEF LineInv
<1>1. CASE Report
  <2>1. lost = 0 /\ InStep /\ Within(sent, All)
    BY <1>1 DEF Report, ResetInv
  <2>2. PICK r \in Reports : InStep' /\ sent' = sent \o <<r>> /\ All' = All \o <<r>>
    BY <1>1, <2>1, ReportStep
  <2>3. r \in Parsed
    BY ReportsAssumption, FrameRead
  <2>4. sent' = Append(sent, r) /\ All' = Append(All, r)
    BY <1>0, <2>2, <2>3, AppendIsConcat
  <2> QED
    BY <1>0, <2>1, <2>2, <2>3, <2>4, WithinAppend
<1>2. CASE Cut
  <2>1. PICK r \in Reports : \E n \in 0 .. Len(Encode(r)) - 1 :
            OfCut(r, n) \in Seq(Parsed) /\ (InStep => All' = All \o OfCut(r, n))
    BY <1>2, CutStep
  <2>2. PICK n \in 0 .. Len(Encode(r)) - 1 :
            OfCut(r, n) \in Seq(Parsed) /\ (InStep => All' = All \o OfCut(r, n))
    BY <2>1
  <2>3. InStep' /\ sent' = sent /\ lost' = lost
    BY <1>2, CutStep
  <2>4. InStep /\ Within(sent, All)
    BY <2>3 DEF ResetInv
  <2>5. All' = All \o OfCut(r, n)
    BY <2>2, <2>4
  <2> QED
    BY <1>0, <2>2, <2>3, <2>4, <2>5, WithinMore
<1>3. CASE Lose
  BY <1>0, <1>3 DEF Lose
<1>4. CASE Poll
  <2>1. lost' = lost
    BY <1>4 DEF Poll
  <2>2. InStep /\ Within(sent, All)
    BY <2>1 DEF ResetInv
  <2> QED
    BY <1>4, <2>2, PollStep
<1>5. CASE UNCHANGED vars
  <2>1. InStep /\ Within(sent, All)
    BY <1>5 DEF vars, ResetInv
  <2> QED
    BY <1>5, <2>1 DEF vars, InStep, All
<1> QED
  BY <1>1, <1>2, <1>3, <1>4, <1>5 DEF Next

\* Nothing is cut at the start.
LEMMA ResetInit == Init => ResetInv
<1> SUFFICES ASSUME Init PROVE InStep /\ Within(sent, All)
  BY DEF ResetInv
<1>1. InStep /\ sent = <<>> /\ All = <<>>
  BY LineInit DEF Init, InStep
<1>2. Len(<<>>) = 0 /\ 1 .. 0 = {}
  BY EmptySeq
<1>3. Within(<<>>, <<>>)
  <2>1. [ i \in 1 .. 0 |-> i ] \in [1 .. 0 -> 1 .. 0]
    OBVIOUS
  <2> QED
    BY <1>2, <2>1 DEF Within
<1> QED
  BY <1>1, <1>3

\* However often the board is reset while it sends, every report it sent whole
\* is handed over, and in the order it was sent: what the cut frames leave on
\* the line comes between the reports and takes none of them away.
THEOREM ResetsLoseNothing == Spec => [](lost = 0 => InStep /\ Within(sent, All))
<1>1. Init => ResetInv
  BY ResetInit
<1>2. LineInv /\ LineInv' /\ ResetInv /\ [Next]_vars => ResetInv'
  BY ResetStep
<1>3. ResetInv => (lost = 0 => InStep /\ Within(sent, All))
  BY DEF ResetInv
<1> QED
  BY <1>1, <1>2, <1>3, LineInvariant, PTL DEF Spec

\* The middle part of three.
LEMMA MiddlePart ==
    ASSUME NEW s \in Seq(Parsed), NEW x \in Seq(Parsed), NEW t \in Seq(Parsed)
    PROVE  SubSeq((s \o x) \o t, Len(s) + 1, Len(s) + Len(x)) = x
<1> DEFINE v == s \o x
           u == v \o t
           w == SubSeq(u, Len(s) + 1, Len(s) + Len(x))
<1>1. Len(s) \in Nat /\ Len(x) \in Nat /\ Len(t) \in Nat
  BY LenProperties
<1>2. /\ v \in Seq(Parsed) /\ Len(v) = Len(s) + Len(x)
      /\ \A i \in 1 .. Len(s) + Len(x) : v[i] = IF i <= Len(s) THEN s[i] ELSE x[i - Len(s)]
  BY ConcatProperties
<1> HIDE DEF v
<1>3. \A i \in 1 .. Len(v) + Len(t) : u[i] = IF i <= Len(v) THEN v[i] ELSE t[i - Len(v)]
  BY <1>2, ConcatProperties
<1> HIDE DEF u
<1>4. ASSUME NEW i \in Len(s) + 1 .. Len(s) + Len(x)
      PROVE  u[i] = x[i - Len(s)] /\ i - Len(s) \in 1 .. Len(x)
  <2>1. i \in 1 .. Len(s) + Len(x) /\ ~(i <= Len(s)) /\ i \in 1 .. Len(v) + Len(t) /\ i <= Len(v)
    BY <1>1, <1>2
  <2>2. u[i] = v[i] /\ v[i] = x[i - Len(s)]
    BY <1>2, <1>3, <2>1
  <2> QED
    BY <1>1, <2>2
<1>5. \A i \in Len(s) + 1 .. Len(s) + Len(x) : u[i] \in Parsed
  <2> SUFFICES ASSUME NEW i \in Len(s) + 1 .. Len(s) + Len(x) PROVE u[i] \in Parsed
    OBVIOUS
  <2> QED
    BY <1>4, ElementOfSeq
<1>6. /\ w \in Seq(Parsed) /\ Len(w) = Len(x)
      /\ \A i \in 1 .. Len(x) : w[i] = u[Len(s) + 1 + i - 1]
  <2>1. Len(s) + 1 \in Int /\ Len(s) + Len(x) \in Int
    BY <1>1
  <2>2. /\ w \in Seq(Parsed)
        /\ Len(w) = IF Len(s) + 1 <= Len(s) + Len(x) THEN Len(s) + Len(x) - (Len(s) + 1) + 1 ELSE 0
        /\ \A i \in 1 .. Len(s) + Len(x) - (Len(s) + 1) + 1 : w[i] = u[Len(s) + 1 + i - 1]
    BY <1>5, <2>1, SubSeqProperties
  <2>3. Len(s) + Len(x) - (Len(s) + 1) + 1 = Len(x)
    BY <1>1
  <2> QED
    BY <1>1, <2>2, <2>3
<1> HIDE DEF w
<1>7. \A i \in 1 .. Len(x) : w[i] = x[i]
  <2> SUFFICES ASSUME NEW i \in 1 .. Len(x) PROVE w[i] = x[i]
    OBVIOUS
  <2> DEFINE k == Len(s) + 1 + i - 1
  <2>1. k \in Len(s) + 1 .. Len(s) + Len(x) /\ k - Len(s) = i
    BY <1>1
  <2>2. w[i] = u[k]
    BY <1>6
  <2> HIDE DEF k
  <2> QED
    BY <1>4, <2>1, <2>2
<1>8. w = x
  BY <1>6, <1>7, SeqEqual
<1> QED
  BY <1>8 DEF w, u, v

\* What the one cut frame left is in one place among the reports sent.
CutInv ==
    lost = 0 /\ Len(cut) = 1 =>
        \E s, x, t \in Seq(Parsed) :
            sent = s \o t /\ All = (s \o x) \o t /\ 2 * Len(x) <= Len(Encode(cut[1]))

\* The cut comes after what was sent until then, every later report behind it.
LEMMA CutInvStep == LineInv /\ LineInv' /\ ResetInv /\ OrderInv /\ CutInv /\ [Next]_vars => CutInv'
<1> SUFFICES ASSUME LineInv, LineInv', ResetInv, OrderInv, CutInv, [Next]_vars, lost' = 0, Len(cut') = 1
             PROVE  \E s, x, t \in Seq(Parsed) :
                        sent' = s \o t /\ All' = (s \o x) \o t /\ 2 * Len(x) <= Len(Encode(cut'[1]))
  BY DEF CutInv
<1> DEFINE Split(u, a, c) ==
               \E s, x, t \in Seq(Parsed) : u = s \o t /\ a = (s \o x) \o t /\ 2 * Len(x) <= Len(Encode(c))
<1>0. /\ lost \in Nat /\ Len(cut) \in Nat /\ cut \in Seq(Reports)
      /\ sent \in Seq(Parsed) /\ All \in Seq(Parsed) /\ \A r \in Reports : r \in Parsed
  <2>1. \A r \in Reports : r \in Parsed
    BY ReportsAssumption, FrameRead
  <2>2. sent \in Seq(Parsed)
    <3>1. Reports \subseteq Parsed
      BY <2>1
    <3> QED
      BY <3>1, SeqMonotonic DEF LineInv
  <2> QED
    BY <2>1, <2>2, AllTyped, LenProperties DEF LineInv
<1>a. ASSUME lost = 0, cut' = cut PROVE InStep /\ Split(sent, All, cut[1])
  BY <1>a DEF CutInv, ResetInv
<1>1. CASE Report
  <2>1. lost = 0 /\ cut' = cut
    BY <1>1 DEF Report
  <2>2. InStep /\ Split(sent, All, cut[1])
    BY <1>a, <2>1
  <2>3. PICK r \in Reports : sent' = sent \o <<r>> /\ All' = All \o <<r>>
    BY <1>1, <2>2, ReportStep
  <2>4. PICK s, x, t \in Seq(Parsed) :
            sent = s \o t /\ All = (s \o x) \o t /\ 2 * Len(x) <= Len(Encode(cut[1]))
    BY <2>2
  <2>5. <<r>> \in Seq(Parsed)
    BY <1>0
  <2>6. s \o x \in Seq(Parsed) /\ t \o <<r>> \in Seq(Parsed)
    BY <2>5, ConcatProperties
  <2>7. (s \o t) \o <<r>> = s \o (t \o <<r>>)
    <3>1. Regroups(s, t, <<r>>)
      BY <2>4, <2>5, ParsedAssociative, Zenon
    <3> QED
      BY <3>1 DEF Regroups
  <2>8. ((s \o x) \o t) \o <<r>> = (s \o x) \o (t \o <<r>>)
    <3>1. Regroups(s \o x, t, <<r>>)
      BY <2>4, <2>5, <2>6, ParsedAssociative, Zenon
    <3> QED
      BY <3>1 DEF Regroups
  <2>9. sent' = s \o (t \o <<r>>) /\ All' = (s \o x) \o (t \o <<r>>)
    BY <2>3, <2>4, <2>7, <2>8
  <2> QED
    BY <2>1, <2>4, <2>6, <2>9
<1>2. CASE Cut
  <2>1. PICK r \in Reports : \E n \in 0 .. Len(Encode(r)) - 1 :
            cut' = Append(cut, r) /\ OfCut(r, n) \in Seq(Parsed) /\ (InStep => All' = All \o OfCut(r, n))
    BY <1>2, CutStep
  <2>2. PICK n \in 0 .. Len(Encode(r)) - 1 :
            cut' = Append(cut, r) /\ OfCut(r, n) \in Seq(Parsed) /\ (InStep => All' = All \o OfCut(r, n))
    BY <2>1
  <2>3. sent' = sent /\ lost' = lost
    BY <1>2, CutStep
  <2>4. Len(cut) = 0 /\ cut'[1] = r
    <3>1. Len(Append(cut, r)) = Len(cut) + 1 /\ Append(cut, r)[Len(cut) + 1] = r
      BY <1>0, AppendProperties
    <3>2. Len(cut) = 0
      BY <1>0, <2>2, <3>1
    <3>3. Len(cut) + 1 = 1
      BY <3>2
    <3> QED
      BY <2>2, <3>1, <3>2, <3>3
  <2>5. Faults = 0
    BY <2>3, <2>4 DEF Faults
  <2>6. All = sent /\ InStep
    BY <2>5 DEF OrderInv, InStep
  <2>7. All' = All \o OfCut(r, n)
    BY <2>2, <2>6
  <2>8. 2 * Len(OfCut(r, n)) <= Len(Encode(cut'[1]))
    BY <2>4, CutMakesFew
  <2>9. <<>> \in Seq(Parsed) /\ sent \o OfCut(r, n) \in Seq(Parsed)
    BY <1>0, <2>2, EmptySeq, ConcatProperties
  <2>10. sent \o <<>> = sent /\ (sent \o OfCut(r, n)) \o <<>> = sent \o OfCut(r, n)
    BY <1>0, <2>9, ConcatEmptySeq
  <2>11. sent' = sent \o <<>> /\ All' = (sent \o OfCut(r, n)) \o <<>>
    BY <2>3, <2>6, <2>7, <2>10
  <2> QED
    BY <1>0, <2>2, <2>8, <2>9, <2>11
<1>3. CASE Lose
  BY <1>0, <1>3 DEF Lose
<1>4. CASE Poll
  <2>1. lost = 0 /\ cut' = cut
    BY <1>4 DEF Poll
  <2>2. Split(sent, All, cut[1])
    BY <1>a, <2>1
  <2>3. sent' = sent /\ All' = All
    BY <1>4, PollStep
  <2> QED
    BY <2>1, <2>2, <2>3
<1>5. CASE UNCHANGED vars
  <2>1. lost = 0 /\ cut' = cut /\ sent' = sent /\ All' = All
    BY <1>5 DEF vars, All
  <2>2. Split(sent, All, cut[1])
    BY <1>a, <2>1
  <2> QED
    BY <2>1, <2>2
<1> QED
  BY <1>1, <1>2, <1>3, <1>4, <1>5 DEF Next

\* A reset that cuts a frame short costs no report sent whole, before or after:
\* what is made of the cut frame comes in one place among them and is at most
\* half as many reports as the frame has bytes.  For any reports, whatever
\* bytes their values have, any division into reads and any such text.
THEOREM CutsCostNothing == Spec => []CutCostsNothing
<1>1. Init => OrderInv /\ ResetInv /\ CutInv
  <2>1. Init => OrderInv
    BY LineInit DEF Init, OrderInv
  <2>2. Init => CutInv
    BY EmptySeq DEF Init, CutInv
  <2> QED
    BY <2>1, <2>2, ResetInit
<1>2. LineInv /\ LineInv' /\ OrderInv /\ ResetInv /\ CutInv /\ [Next]_vars => OrderInv' /\ ResetInv' /\ CutInv'
  BY OrderStep, ResetStep, CutInvStep
<1>3. LineInv /\ CutInv => CutCostsNothing
  <2> SUFFICES ASSUME LineInv, CutInv, lost = 0, Len(cut) = 1
               PROVE  LET n == Len(All) - Len(sent) IN
                      /\ 2 * n <= Len(Encode(cut[1]))
                      /\ \E i \in 0 .. Len(sent) :
                             All = SubSeq(sent, 1, i) \o SubSeq(All, i + 1, i + n)
                                       \o SubSeq(sent, i + 1, Len(sent))
    BY DEF CutCostsNothing
  <2>1. PICK s, x, t \in Seq(Parsed) :
            sent = s \o t /\ All = (s \o x) \o t /\ 2 * Len(x) <= Len(Encode(cut[1]))
    BY DEF CutInv
  <2>2. Len(s) \in Nat /\ Len(x) \in Nat /\ Len(t) \in Nat
    BY LenProperties
  <2>3. Len(sent) = Len(s) + Len(t) /\ Len(All) = Len(s) + Len(x) + Len(t)
    <3>1. s \o x \in Seq(Parsed) /\ Len(s \o x) = Len(s) + Len(x) /\ Len(s \o t) = Len(s) + Len(t)
      BY ConcatProperties
    <3>2. Len((s \o x) \o t) = Len(s \o x) + Len(t)
      BY <3>1, ConcatProperties
    <3> QED
      BY <2>1, <3>1, <3>2
  <2>4. Len(All) - Len(sent) = Len(x) /\ Len(s) \in 0 .. Len(sent)
    BY <2>2, <2>3
  <2>5. SubSeq(sent, 1, Len(s)) = s
    <3>1. SubSeq((<<>> \o s) \o t, Len(<<>>) + 1, Len(<<>>) + Len(s)) = s
      BY EmptySeq, MiddlePart
    <3>2. <<>> \o s = s /\ Len(<<>>) = 0
      BY ConcatEmptySeq, EmptySeq
    <3>3. 0 + 1 = 1 /\ 0 + Len(s) = Len(s)
      BY <2>2
    <3> QED
      BY <2>1, <3>1, <3>2, <3>3
  <2>6. SubSeq(All, Len(s) + 1, Len(s) + Len(x)) = x
    BY <2>1, MiddlePart
  <2>7. SubSeq(sent, Len(s) + 1, Len(sent)) = t
    <3>1. SubSeq((s \o t) \o <<>>, Len(s) + 1, Len(s) + Len(t)) = t
      BY EmptySeq, MiddlePart
    <3>2. (s \o t) \o <<>> = s \o t
      BY ConcatProperties, ConcatEmptySeq
    <3> QED
      BY <2>1, <2>3, <3>1, <3>2
  <2>8. All = SubSeq(sent, 1, Len(s)) \o SubSeq(All, Len(s) + 1, Len(s) + Len(x))
                  \o SubSeq(sent, Len(s) + 1, Len(sent))
    BY <2>1, <2>5, <2>6, <2>7
  <2> QED
    BY <2>1, <2>4, <2>8
<1> QED
  BY <1>1, <1>2, <1>3, LineInvariant, PTL DEF Spec

\* Whatever was lost or cut before, and whatever that cost: a reset puts the
\* Central back in step, and in step it stays until the next fault, and hands
\* over what is sent and nothing else.
THEOREM StepStays == Spec => StepKept
<1> DEFINE New == SubSeq(sent', Len(sent) + 1, Len(sent'))
           Kept == /\ cut' # cut => InStep'
                   /\ InStep /\ lost' = lost /\ cut' = cut => InStep' /\ All' = All \o New
<1>1. ASSUME LineInv, LineInv', [Next]_vars PROVE Kept
  <2>0. sent \in Seq(Parsed) /\ All \in Seq(Parsed) /\ \A r \in Reports : r \in Parsed
    <3>1. \A r \in Reports : r \in Parsed
      BY ReportsAssumption, FrameRead
    <3>2. Reports \subseteq Parsed
      BY <3>1
    <3> QED
      BY <1>1, <3>1, <3>2, SeqMonotonic, AllTyped DEF LineInv
  <2>a. ASSUME sent' = sent, All' = All, InStep => InStep' PROVE InStep => InStep' /\ All' = All \o New
    <3>1. SubSeq((sent \o <<>>) \o <<>>, Len(sent) + 1, Len(sent) + Len(<<>>)) = <<>>
      BY <2>0, EmptySeq, MiddlePart
    <3>2. sent \o <<>> = sent /\ All \o <<>> = All /\ Len(sent) + Len(<<>>) = Len(sent)
      BY <2>0, ConcatEmptySeq, EmptySeq, LenProperties
    <3>3. New = <<>>
      BY <2>a, <3>1, <3>2
    <3> QED
      BY <2>a, <3>2, <3>3
  <2>1. CASE Report
    <3>1. cut' = cut
      BY <2>1 DEF Report
    <3>2. ASSUME InStep PROVE InStep' /\ All' = All \o New
      <4>1. PICK r \in Reports : InStep' /\ sent' = sent \o <<r>> /\ All' = All \o <<r>>
        BY <1>1, <2>1, <3>2, ReportStep
      <4>2. <<r>> \in Seq(Parsed) /\ Len(<<r>>) = 1
        BY <2>0
      <4>3. SubSeq((sent \o <<r>>) \o <<>>, Len(sent) + 1, Len(sent) + Len(<<r>>)) = <<r>>
        BY <2>0, <4>2, EmptySeq, MiddlePart
      <4>4. (sent \o <<r>>) \o <<>> = sent \o <<r>> /\ Len(sent \o <<r>>) = Len(sent) + Len(<<r>>)
        BY <2>0, <4>2, ConcatProperties, ConcatEmptySeq
      <4>5. New = <<r>>
        BY <4>1, <4>3, <4>4
      <4> QED
        BY <4>1, <4>5
    <3> QED
      BY <3>1, <3>2
  <2>2. CASE Cut
    <3>1. InStep' /\ \E r \in Reports : cut' = Append(cut, r)
      BY <1>1, <2>2, CutStep
    <3>2. cut' # cut
      <4>1. PICK r \in Reports : cut' = Append(cut, r)
        BY <3>1
      <4>2. Len(cut') = Len(cut) + 1 /\ Len(cut) \in Nat
        BY <1>1, <4>1, AppendProperties, LenProperties DEF LineInv
      <4> QED
        BY <4>2
    <3> QED
      BY <3>1, <3>2
  <2>3. CASE Lose
    <3>1. cut' = cut /\ lost' = lost + 1 /\ lost \in Nat
      BY <1>1, <2>3 DEF Lose, LineInv
    <3> QED
      BY <3>1
  <2>4. CASE Poll
    <3>1. cut' = cut /\ sent' = sent /\ All' = All /\ (InStep' <=> InStep)
      BY <1>1, <2>4, PollStep DEF Poll
    <3> QED
      BY <2>a, <3>1
  <2>5. CASE UNCHANGED vars
    <3>1. cut' = cut /\ sent' = sent /\ All' = All /\ (InStep' <=> InStep)
      BY <2>5 DEF vars, InStep, All
    <3> QED
      BY <2>a, <3>1
  <2> QED
    BY <1>1, <2>1, <2>2, <2>3, <2>4, <2>5 DEF Next
<1>2. LineInv /\ LineInv' /\ [Next]_vars => [Kept]_vars
  BY <1>1
<1> QED
  BY <1>2, LineInvariant, PTL DEF Spec, StepKept

=============================================================================
