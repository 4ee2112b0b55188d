------------------------ MODULE GroundStation_proofs ------------------------
(***************************************************************************)
(* The database is the last week of what it was given; what was saved is   *)
(* what is served; an answer taken for complete is complete.               *)
(***************************************************************************)
EXTENDS GroundStation, SequenceTheorems, WellFoundedInduction, TLAPS

----------------------------------------------------------------------------
(* Induction over sequences, with the set of those that have the property *)

\* Every nonempty set of naturals has a least element.
LEMMA LeastNat ==
    ASSUME NEW T \in SUBSET Nat, T # {}
    PROVE  \E n \in T : \A m \in T : n <= m
<1> DEFINE R == OpToRel(<, Nat)
<1>1. IsWellFoundedOn(R, Nat)
  BY NatLessThanWellFounded
<1>2. \A x, y \in Nat : x < y => <<x, y>> \in R
  BY DEF OpToRel
<1> HIDE DEF R
<1>3. PICK x \in T : \A y \in T : ~ (<<y, x>> \in R)
  BY <1>1, WFMin
<1>4. ASSUME NEW y \in T PROVE x <= y
  <2>1. y \in Nat /\ x \in Nat /\ ~ (<<y, x>> \in R)
    BY <1>3
  <2> QED
    BY <1>2, <2>1
<1> QED
  BY <1>4

\* Induction, with the set of numbers that have the property.
LEMMA SetInduction ==
    ASSUME NEW N \in SUBSET Nat, 0 \in N, \A n \in Nat : n \in N => n + 1 \in N
    PROVE  N = Nat
<1> SUFFICES ASSUME N # Nat PROVE FALSE
  OBVIOUS
<1>1. PICK n \in Nat \ N : \A k \in Nat \ N : n <= k
  BY LeastNat
<1>2. n - 1 \in Nat /\ n - 1 \notin N => FALSE
  BY <1>1
<1>3. n # 0
  BY <1>1
<1>4. n - 1 \in Nat /\ (n - 1) + 1 = n
  BY <1>3
<1> QED
  BY <1>1, <1>2, <1>4

\* What holds of no rows, and of one row more each time, holds of all rows.
LEMMA RowsInduction ==
    ASSUME NEW P \in SUBSET Seq(Times), <<>> \in P,
           \A s \in P : \A x \in Times : Append(s, x) \in P
    PROVE  P = Seq(Times)
<1> DEFINE N == { n \in Nat : \A s \in Seq(Times) : Len(s) = n => s \in P }
<1>1. 0 \in N
  BY EmptySeq
<1>2. ASSUME NEW n \in Nat, n \in N PROVE n + 1 \in N
  <2> SUFFICES ASSUME NEW s \in Seq(Times), Len(s) = n + 1 PROVE s \in P
    OBVIOUS
  <2>1. s # <<>>
    BY <1>2, EmptySeq
  <2>2. PICK u \in Seq(Times), x \in Times : s = Append(u, x)
    BY <2>1, SequenceEmptyOrAppend
  <2>3. Len(u) \in Nat /\ Len(s) = Len(u) + 1
    BY <2>2, AppendProperties, LenProperties
  <2>4. Len(u) = n
    BY <2>3
  <2>5. u \in P
    BY <1>2, <2>4
  <2> QED
    BY <2>2, <2>5
<1>3. N \in SUBSET Nat
  OBVIOUS
<1>4. N = Nat
  <2> HIDE DEF N
  <2> QED
    BY <1>1, <1>2, <1>3, SetInduction
<1>5. ASSUME NEW s \in Seq(Times) PROVE s \in P
  <2>1. Len(s) \in N
    BY <1>4, LenProperties
  <2> QED
    BY <2>1
<1> QED
  BY <1>5

----------------------------------------------------------------------------
(* Only *)

\* f is the function Only(rows, stamps) is the last value of.
Picks(f, rows, stamps) ==
    f = [ n \in 0 .. Len(rows) |->
            IF n = 0 THEN <<>>
            ELSE IF rows[n] \in stamps THEN Append(f[n - 1], rows[n]) ELSE f[n - 1] ]

\* There is such a function.
LEMMA PicksExist ==
    ASSUME NEW rows \in Seq(Times), NEW S
    PROVE  \E f : Picks(f, rows, S)
<1> DEFINE step(f, n) == IF n = 0 THEN <<>>
                         ELSE IF rows[n] \in S THEN Append(f[n - 1], rows[n]) ELSE f[n - 1]
           N == { k \in Nat : k <= Len(rows) => \E f : f = [ n \in 0 .. k |-> step(f, n) ] }
<1>1. 0 \in N
  <2> DEFINE f == [ n \in 0 .. 0 |-> <<>> ]
  <2>1. f = [ n \in 0 .. 0 |-> step(f, n) ]
    OBVIOUS
  <2> QED
    BY <2>1
<1>2. ASSUME NEW k \in Nat, k \in N PROVE k + 1 \in N
  <2> SUFFICES ASSUME k + 1 <= Len(rows)
               PROVE  \E f : f = [ n \in 0 .. k + 1 |-> step(f, n) ]
    OBVIOUS
  <2>a. Len(rows) \in Nat
    BY LenProperties
  <2>b. k <= Len(rows)
    BY <1>2, <2>a
  <2>c. \E f : f = [ n \in 0 .. k |-> step(f, n) ]
    <3> HIDE DEF step
    <3> QED
      BY <1>2, <2>b
  <2>1. PICK f : f = [ n \in 0 .. k |-> step(f, n) ]
    BY <2>c
  <2> DEFINE g == [ n \in 0 .. k + 1 |-> IF n <= k THEN f[n] ELSE step(f, n) ]
  <2>2. \A n \in 0 .. k : g[n] = f[n]
    OBVIOUS
  <2>3. ASSUME NEW n \in 0 .. k + 1 PROVE g[n] = step(g, n)
    <3>a. \A j \in 0 .. k : f[j] = step(f, j)
      BY <2>1
    <3>1. g[n] = step(f, n)
      <4>1. CASE n <= k
        BY <2>2, <3>a, <4>1
      <4>2. CASE ~(n <= k)
        BY <4>2
      <4> QED
        BY <4>1, <4>2
    <3>2. n = 0 \/ (n - 1 \in 0 .. k /\ g[n - 1] = f[n - 1])
      BY <2>2
    <3> HIDE DEF g
    <3>3. step(f, n) = step(g, n)
      BY <3>2
    <3> QED
      BY <3>1, <3>3
  <2>4. g = [ n \in 0 .. k + 1 |-> step(g, n) ]
    <3> DEFINE h == [ n \in 0 .. k + 1 |-> step(g, n) ]
    <3>1. g = [ n \in 0 .. k + 1 |-> g[n] ]
      OBVIOUS
    <3> HIDE DEF g
    <3> QED
      BY <2>3, <3>1
  <2> QED
    BY <2>4
<1>3. N \in SUBSET Nat
  OBVIOUS
<1>4. N = Nat
  <2> HIDE DEF N
  <2> QED
    BY <1>1, <1>2, <1>3, SetInduction
<1>5. Len(rows) \in N
  BY <1>4, LenProperties
<1> QED
  BY <1>5 DEF Picks

\* Only has the rows of such a selection.
LEMMA OnlyPicks ==
    ASSUME NEW rows \in Seq(Times), NEW S
    PROVE  \E f : Picks(f, rows, S) /\ Only(rows, S) = f[Len(rows)]
<1>1. PICK f : Picks(f, rows, S)
  BY PicksExist
<1> DEFINE g == CHOOSE h : Picks(h, rows, S)
<1>2. Picks(g, rows, S)
  BY <1>1
<1>3. Only(rows, S) = g[Len(rows)]
  BY DEF Only, Picks
<1> QED
  BY <1>2, <1>3

\* What it makes of no rows, and of one row more.
LEMMA OnlyEmpty ==
    ASSUME NEW S
    PROVE  Only(<<>>, S) = <<>>
<1>1. <<>> \in Seq(Times) /\ Len(<<>>) = 0
  BY EmptySeq
<1>2. PICK f : Picks(f, <<>>, S) /\ Only(<<>>, S) = f[Len(<<>>)]
  BY <1>1, OnlyPicks
<1> QED
  BY <1>1, <1>2 DEF Picks

\* A row more is selected or not.
LEMMA OnlyAppend ==
    ASSUME NEW s \in Seq(Times), NEW x \in Times, NEW S
    PROVE  Only(Append(s, x), S) = IF x \in S THEN Append(Only(s, S), x) ELSE Only(s, S)
<1> DEFINE t == Append(s, x)
<1>1. /\ t \in Seq(Times) /\ Len(t) = Len(s) + 1 /\ Len(s) \in Nat
      /\ t[Len(s) + 1] = x
      /\ \A i \in 1 .. Len(s) : t[i] = s[i]
  BY AppendProperties, LenProperties
<1> HIDE DEF t
<1>2. PICK f : Picks(f, s, S) /\ Only(s, S) = f[Len(s)]
  BY OnlyPicks
<1>3. PICK g : Picks(g, t, S) /\ Only(t, S) = g[Len(t)]
  BY <1>1, OnlyPicks
<1>4. \A n \in 0 .. Len(s) :
          f[n] = IF n = 0 THEN <<>>
                 ELSE IF s[n] \in S THEN Append(f[n - 1], s[n]) ELSE f[n - 1]
  BY <1>2 DEF Picks
<1>5. \A n \in 0 .. Len(s) + 1 :
          g[n] = IF n = 0 THEN <<>>
                 ELSE IF t[n] \in S THEN Append(g[n - 1], t[n]) ELSE g[n - 1]
  BY <1>1, <1>3 DEF Picks
<1> DEFINE N == { n \in Nat : n <= Len(s) => f[n] = g[n] }
<1>6. 0 \in N
  BY <1>1, <1>4, <1>5
<1>7. ASSUME NEW n \in Nat, n \in N PROVE n + 1 \in N
  <2> SUFFICES ASSUME n + 1 <= Len(s) PROVE f[n + 1] = g[n + 1]
    OBVIOUS
  <2>1. n + 1 \in 0 .. Len(s) /\ n + 1 \in 0 .. Len(s) + 1 /\ n + 1 \in 1 .. Len(s) /\ n + 1 # 0
        /\ (n + 1) - 1 = n
    BY <1>1
  <2>2. f[n] = g[n]
    BY <1>1, <1>7
  <2>3. s[n + 1] = t[n + 1]
    BY <1>1, <2>1
  <2>4. f[n + 1] = IF s[n + 1] \in S THEN Append(f[n], s[n + 1]) ELSE f[n]
    BY <1>4, <2>1
  <2>5. g[n + 1] = IF t[n + 1] \in S THEN Append(g[n], t[n + 1]) ELSE g[n]
    BY <1>5, <2>1
  <2> QED
    BY <2>2, <2>3, <2>4, <2>5
<1>8. N = Nat
  <2>1. N \in SUBSET Nat
    OBVIOUS
  <2> HIDE DEF N
  <2> QED
    BY <1>6, <1>7, <2>1, SetInduction
<1>9. f[Len(s)] = g[Len(s)]
  BY <1>1, <1>8
<1>10. g[Len(s) + 1] = IF x \in S THEN Append(g[Len(s)], x) ELSE g[Len(s)]
  BY <1>1, <1>5
<1> QED
  BY <1>1, <1>2, <1>3, <1>9, <1>10 DEF t

\* It makes rows.
LEMMA OnlyTyped ==
    ASSUME NEW s \in Seq(Times), NEW S
    PROVE  Only(s, S) \in Seq(Times)
<1> DEFINE P == { u \in Seq(Times) : Only(u, S) \in Seq(Times) }
<1>1. <<>> \in P
  BY EmptySeq, OnlyEmpty
<1>2. ASSUME NEW u \in P, NEW x \in Times PROVE Append(u, x) \in P
  <2>1. Append(u, x) \in Seq(Times) /\ Append(Only(u, S), x) \in Seq(Times)
    BY AppendProperties
  <2>2. Only(Append(u, x), S) \in {Append(Only(u, S), x), Only(u, S)}
    BY OnlyAppend
  <2> QED
    BY <2>1, <2>2
<1>3. P \in SUBSET Seq(Times)
  OBVIOUS
<1>4. P = Seq(Times)
  <2> HIDE DEF P
  <2> QED
    BY <1>1, <1>2, <1>3, RowsInduction
<1> QED
  BY <1>4

\* The time stamps of rows.
LEMMA StampsOf ==
    /\ ToSet(<<>>) = {}
    /\ \A s \in Seq(Times) : ToSet(s) \subseteq Times
    /\ \A s \in Seq(Times), x \in Times : ToSet(Append(s, x)) = ToSet(s) \cup {x}
<1>1. \A s \in Seq(Times) : ToSet(s) = { s[i] : i \in 1 .. Len(s) }
  BY LenProperties DEF ToSet
<1>2. ASSUME NEW s \in Seq(Times), NEW x \in Times
      PROVE  ToSet(Append(s, x)) = ToSet(s) \cup {x}
  <2> DEFINE t == Append(s, x)
  <2>1. /\ t \in Seq(Times) /\ Len(t) = Len(s) + 1 /\ Len(s) \in Nat
        /\ t[Len(s) + 1] = x
        /\ \A i \in 1 .. Len(s) : t[i] = s[i]
    BY AppendProperties, LenProperties
  <2> HIDE DEF t
  <2>2. ToSet(t) = { t[i] : i \in 1 .. Len(s) + 1 }
    BY <1>1, <2>1
  <2>3. 1 .. Len(s) + 1 = (1 .. Len(s)) \cup {Len(s) + 1}
    BY <2>1
  <2>4. ToSet(t) = { t[i] : i \in 1 .. Len(s) } \cup {t[Len(s) + 1]}
    BY <2>2, <2>3
  <2>5. { t[i] : i \in 1 .. Len(s) } = { s[i] : i \in 1 .. Len(s) }
    BY <2>1
  <2> QED
    BY <1>1, <2>1, <2>4, <2>5 DEF t
<1>3. ToSet(<<>>) = {}
  <2>1. <<>> \in Seq(Times) /\ Len(<<>>) = 0 /\ 1 .. 0 = {}
    BY EmptySeq
  <2> QED
    BY <1>1, <2>1
<1>4. \A s \in Seq(Times) : ToSet(s) \subseteq Times
  BY <1>1, ElementOfSeq
<1> QED
  BY <1>2, <1>3, <1>4

\* It keeps the rows with those time stamps and no others.
LEMMA OnlyStamps ==
    ASSUME NEW s \in Seq(Times), NEW S
    PROVE  ToSet(Only(s, S)) = ToSet(s) \cap S
<1> DEFINE P == { u \in Seq(Times) : ToSet(Only(u, S)) = ToSet(u) \cap S }
<1>1. <<>> \in P
  BY EmptySeq, OnlyEmpty, StampsOf
<1>2. ASSUME NEW u \in P, NEW x \in Times PROVE Append(u, x) \in P
  <2>1. Only(u, S) \in Seq(Times) /\ Append(u, x) \in Seq(Times)
    BY AppendProperties, OnlyTyped
  <2>2. /\ ToSet(Append(u, x)) = ToSet(u) \cup {x}
        /\ ToSet(Append(Only(u, S), x)) = ToSet(Only(u, S)) \cup {x}
        /\ ToSet(Only(u, S)) = ToSet(u) \cap S
    BY <2>1, StampsOf
  <2>3. CASE x \in S
    <3>1. Only(Append(u, x), S) = Append(Only(u, S), x)
      BY <2>3, OnlyAppend
    <3> QED
      BY <2>1, <2>2, <2>3, <3>1
  <2>4. CASE x \notin S
    <3>1. Only(Append(u, x), S) = Only(u, S)
      BY <2>4, OnlyAppend
    <3> QED
      BY <2>1, <2>2, <2>4, <3>1
  <2> QED
    BY <2>3, <2>4
<1>3. P \in SUBSET Seq(Times)
  OBVIOUS
<1>4. P = Seq(Times)
  <2> HIDE DEF P
  <2> QED
    BY <1>1, <1>2, <1>3, RowsInduction
<1> QED
  BY <1>4

\* Picking twice.
LEMMA OnlyOnly ==
    ASSUME NEW s \in Seq(Times), NEW S, NEW T
    PROVE  Only(Only(s, S), T) = Only(s, S \cap T)
<1> DEFINE P == { u \in Seq(Times) : Only(Only(u, S), T) = Only(u, S \cap T) }
<1>1. <<>> \in P
  BY EmptySeq, OnlyEmpty
<1>2. ASSUME NEW u \in P, NEW x \in Times PROVE Append(u, x) \in P
  <2>1. Only(u, S) \in Seq(Times) /\ Append(u, x) \in Seq(Times)
    BY AppendProperties, OnlyTyped
  <2>2. Only(Append(u, x), S) = IF x \in S THEN Append(Only(u, S), x) ELSE Only(u, S)
    BY OnlyAppend
  <2>3. Only(Append(u, x), S \cap T) =
            IF x \in S \cap T THEN Append(Only(u, S \cap T), x) ELSE Only(u, S \cap T)
    BY OnlyAppend
  <2>4. Only(Append(Only(u, S), x), T) =
            IF x \in T THEN Append(Only(Only(u, S), T), x) ELSE Only(Only(u, S), T)
    BY <2>1, OnlyAppend
  <2>5. Only(Only(u, S), T) = Only(u, S \cap T)
    OBVIOUS
  <2>6. CASE x \in S
    <3>1. Only(Append(u, x), S) = Append(Only(u, S), x)
      BY <2>2, <2>6
    <3>2. Only(Append(u, x), S \cap T) =
              IF x \in T THEN Append(Only(u, S \cap T), x) ELSE Only(u, S \cap T)
      BY <2>3, <2>6
    <3>3. Only(Only(Append(u, x), S), T) = Only(Append(u, x), S \cap T)
      BY <2>4, <2>5, <3>1, <3>2
    <3> QED
      BY <2>1, <3>3
  <2>7. CASE x \notin S
    BY <2>1, <2>2, <2>3, <2>5, <2>7
  <2> QED
    BY <2>6, <2>7
<1>3. P \in SUBSET Seq(Times)
  OBVIOUS
<1>4. P = Seq(Times)
  <2> HIDE DEF P
  <2> QED
    BY <1>1, <1>2, <1>3, RowsInduction
<1> QED
  BY <1>4

\* Which other time stamps there are does not matter.
LEMMA OnlySame ==
    ASSUME NEW s \in Seq(Times), NEW S, NEW T, ToSet(s) \cap S = ToSet(s) \cap T
    PROVE  Only(s, S) = Only(s, T)
<1> DEFINE P == { u \in Seq(Times) : ToSet(u) \cap S = ToSet(u) \cap T => Only(u, S) = Only(u, T) }
<1>1. <<>> \in P
  BY EmptySeq, OnlyEmpty
<1>2. ASSUME NEW u \in P, NEW x \in Times PROVE Append(u, x) \in P
  <2> SUFFICES ASSUME ToSet(Append(u, x)) \cap S = ToSet(Append(u, x)) \cap T
               PROVE  Only(Append(u, x), S) = Only(Append(u, x), T)
    BY AppendProperties
  <2>1. ToSet(Append(u, x)) = ToSet(u) \cup {x}
    BY StampsOf
  <2>2. ToSet(u) \cap S = ToSet(u) \cap T /\ (x \in S <=> x \in T)
    BY <2>1
  <2>3. Only(u, S) = Only(u, T)
    BY <2>2
  <2>4. Only(Append(u, x), S) = IF x \in S THEN Append(Only(u, S), x) ELSE Only(u, S)
    BY OnlyAppend
  <2>5. Only(Append(u, x), T) = IF x \in T THEN Append(Only(u, T), x) ELSE Only(u, T)
    BY OnlyAppend
  <2> QED
    BY <2>2, <2>3, <2>4, <2>5
<1>3. P \in SUBSET Seq(Times)
  OBVIOUS
<1>4. P = Seq(Times)
  <2> HIDE DEF P
  <2> QED
    BY <1>1, <1>2, <1>3, RowsInduction
<1> QED
  BY <1>4

\* Nothing is left out where every time stamp is asked for.
LEMMA OnlyAll ==
    ASSUME NEW s \in Seq(Times), NEW S, ToSet(s) \subseteq S
    PROVE  Only(s, S) = s
<1> DEFINE P == { u \in Seq(Times) : Only(u, Times) = u }
<1>1. <<>> \in P
  BY EmptySeq, OnlyEmpty
<1>2. ASSUME NEW u \in P, NEW x \in Times PROVE Append(u, x) \in P
  BY AppendProperties, OnlyAppend
<1>3. P \in SUBSET Seq(Times)
  OBVIOUS
<1>4. P = Seq(Times)
  <2> HIDE DEF P
  <2> QED
    BY <1>1, <1>2, <1>3, RowsInduction
<1>5. Only(s, Times) = s
  BY <1>4
<1>6. Only(s, S) = Only(s, Times)
  BY OnlySame, StampsOf
<1> QED
  BY <1>5, <1>6

----------------------------------------------------------------------------
(* The database *)

Database == [Lists -> Seq(Times)]

Stamps(d) == ToSet(d["meas"]) \cup ToSet(d["events"])

\* the time stamps less than a week older than all those of d
Window(d) == { ts \in Times : \A u \in Stamps(d) : u <= ts + WEEK_SECONDS }

\* Of rows there is a latest time stamp.
LEMMA RowsBounded ==
    ASSUME NEW s \in Seq(Times)
    PROVE  \E b \in Nat : \A u \in ToSet(s) : u <= b
<1> DEFINE P == { r \in Seq(Times) : \E b \in Nat : \A u \in ToSet(r) : u <= b }
<1>1. <<>> \in P
  BY EmptySeq, StampsOf
<1>2. ASSUME NEW r \in P, NEW x \in Times PROVE Append(r, x) \in P
  <2>1. PICK b \in Nat : \A u \in ToSet(r) : u <= b
    OBVIOUS
  <2>2. ToSet(Append(r, x)) = ToSet(r) \cup {x} /\ ToSet(r) \subseteq Times /\ Append(r, x) \in Seq(Times)
    BY StampsOf, AppendProperties
  <2>3. x \in Nat /\ \A u \in ToSet(r) : u \in Nat /\ u <= b
    BY <2>1, <2>2, DatabaseAssumption
  <2>4. b + x \in Nat /\ x <= b + x /\ \A u \in ToSet(r) : u <= b + x
    BY <2>3
  <2>5. \A u \in ToSet(Append(r, x)) : u <= b + x
    BY <2>2, <2>4
  <2> QED
    BY <2>2, <2>4, <2>5
<1>3. P \in SUBSET Seq(Times)
  OBVIOUS
<1>4. P = Seq(Times)
  <2> HIDE DEF P
  <2> QED
    BY <1>1, <1>2, <1>3, RowsInduction
<1> QED
  BY <1>4

\* latestTs is the latest time stamp there is, or 0.
LEMMA LatestIsMax ==
    ASSUME NEW d \in Database
    PROVE  /\ LatestTs(d) \in {0} \cup Stamps(d)
           /\ LatestTs(d) \in Nat
           /\ \A u \in Stamps(d) : u <= LatestTs(d)
<1> DEFINE S == {0} \cup Stamps(d)
<1>1. d["meas"] \in Seq(Times) /\ d["events"] \in Seq(Times)
  BY DEF Database, Lists
<1>2. S \subseteq Nat
  <2>1. ToSet(d["meas"]) \subseteq Times /\ ToSet(d["events"]) \subseteq Times
    BY <1>1, StampsOf
  <2>2. Times \subseteq Nat
    BY DatabaseAssumption
  <2> SUFFICES ASSUME NEW x \in S PROVE x \in Nat
    OBVIOUS
  <2>3. x = 0 \/ x \in ToSet(d["meas"]) \/ x \in ToSet(d["events"])
    BY DEF Stamps
  <2> QED
    BY <2>1, <2>2, <2>3
<1>3. PICK b \in Nat : \A u \in S : u <= b
  <2>1. PICK b1 \in Nat : \A u \in ToSet(d["meas"]) : u <= b1
    BY <1>1, RowsBounded
  <2>2. PICK b2 \in Nat : \A u \in ToSet(d["events"]) : u <= b2
    BY <1>1, RowsBounded
  <2>3. b1 + b2 \in Nat /\ \A u \in S : u <= b1 + b2
    BY <1>2, <2>1, <2>2 DEF Stamps
  <2> QED
    BY <2>3
<1> DEFINE B == { n \in Nat : \A u \in S : u <= n }
<1>4. PICK m \in B : \A n \in B : m <= n
  <2>1. B \in SUBSET Nat /\ B # {}
    BY <1>3
  <2> HIDE DEF B
  <2> QED
    BY <2>1, LeastNat
<1>5. m \in Nat /\ \A u \in S : u <= m
  OBVIOUS
<1>6. m \in S
  <2> SUFFICES ASSUME m \notin S PROVE FALSE
    OBVIOUS
  <2>1. m # 0
    OBVIOUS
  <2>2. m - 1 \in Nat /\ \A u \in S : u <= m - 1
    BY <1>2, <1>5, <2>1
  <2>3. m - 1 \in B
    BY <2>2
  <2>4. m <= m - 1
    BY <1>4, <2>3
  <2> QED
    BY <1>5, <2>4
<1>7. LatestTs(d) = CHOOSE x \in S : \A y \in S : x >= y
  <2>1. S = {0} \cup ToSet(d["meas"]) \cup ToSet(d["events"])
    BY DEF Stamps
  <2> QED
    BY <2>1 DEF LatestTs, Max
<1>8. \E x \in S : \A y \in S : x >= y
  BY <1>2, <1>5, <1>6
<1> HIDE DEF S
<1>9. LatestTs(d) \in S /\ \A y \in S : LatestTs(d) >= y
  BY <1>7, <1>8
<1> QED
  BY <1>2, <1>9 DEF S

\* Pruning keeps a database one.
LEMMA PruneTyped ==
    ASSUME NEW d \in Database
    PROVE  Prune(d) \in Database
<1> DEFINE cutoff == LatestTs(d) - WEEK_SECONDS
           kept == { ts \in Times : ts >= cutoff }
<1>1. Prune(d) = IF LatestTs(d) <= WEEK_SECONDS THEN d ELSE [l \in Lists |-> Only(d[l], kept)]
  BY DEF Prune
<1> HIDE DEF kept
<1>2. \A l \in Lists : Only(d[l], kept) \in Seq(Times)
  BY OnlyTyped DEF Database
<1> QED
  BY <1>1, <1>2 DEF Database

\* Pruning leaves alone what is a window of something.
LEMMA PruneOfWindow ==
    ASSUME NEW h \in Database, NEW d \in Database,
           \A l \in Lists : d[l] = Only(h[l], Window(h))
    PROVE  Prune(d) = d
<1> DEFINE M == LatestTs(d)
           kept == { ts \in Times : ts >= M - WEEK_SECONDS }
<1>1. M \in Nat /\ M \in {0} \cup Stamps(d)
  BY LatestIsMax
<1>2. \A l \in Lists : /\ h[l] \in Seq(Times) /\ d[l] \in Seq(Times)
                      /\ ToSet(d[l]) = ToSet(h[l]) \cap Window(h)
  BY OnlyStamps DEF Database
<1>3. Stamps(d) \subseteq Stamps(h)
  BY <1>2 DEF Stamps, Lists
<1>4. WEEK_SECONDS \in Nat /\ \A ts \in Times : ts \in Nat
  BY DatabaseAssumption
<1>5. CASE M <= WEEK_SECONDS
  BY <1>5 DEF Prune
<1>6. CASE ~(M <= WEEK_SECONDS)
  <2>1. M # 0
    BY <1>4, <1>6
  <2>2. M \in Stamps(h)
    BY <1>1, <1>3, <2>1
  <2>3. ASSUME NEW l \in Lists PROVE Only(d[l], kept) = d[l]
    <3>1. ASSUME NEW ts \in ToSet(d[l]) PROVE ts \in kept
      <4>1. ts \in Window(h)
        BY <1>2
      <4>2. ts \in Times /\ M <= ts + WEEK_SECONDS
        BY <2>2, <4>1 DEF Window
      <4> HIDE DEF M
      <4>3. ts \in Nat
        BY <1>4, <4>2
      <4>4. ts >= M - WEEK_SECONDS
        BY <1>1, <1>4, <4>2, <4>3
      <4> QED
        BY <4>2, <4>4
    <3> HIDE DEF kept
    <3> QED
      BY <1>2, <3>1, OnlyAll
  <2>4. Prune(d) = [l \in Lists |-> Only(d[l], kept)]
    BY <1>6 DEF Prune
  <2> HIDE DEF kept
  <2>5. d = [l \in Lists |-> d[l]]
    BY DEF Database
  <2> QED
    BY <2>3, <2>4, <2>5
<1> QED
  BY <1>5, <1>6

With(d, l, ts) == [d EXCEPT ![l] = Append(@, ts)]

\* A record is added to what was given and to its window: pruned, the result
\* is again the window of what was given.
LEMMA WindowSlides ==
    ASSUME NEW h \in Database, NEW d \in Database,
           \A l \in Lists : d[l] = Only(h[l], Window(h)),
           NEW k \in Lists, NEW x \in Times
    PROVE  /\ With(h, k, x) \in Database /\ Prune(With(d, k, x)) \in Database
           /\ \A l \in Lists : Prune(With(d, k, x))[l] = Only(With(h, k, x)[l], Window(With(h, k, x)))
<1> DEFINE h2 == With(h, k, x)
           d2 == With(d, k, x)
<1>0. h2 = [h EXCEPT ![k] = Append(@, x)] /\ d2 = [d EXCEPT ![k] = Append(@, x)]
  BY DEF With
<1> SUFFICES /\ h2 \in Database /\ Prune(d2) \in Database
             /\ \A l \in Lists : Prune(d2)[l] = Only(h2[l], Window(h2))
  OBVIOUS
<1> HIDE DEF h2, d2
<1> USE <1>0
<1> DEFINE M == LatestTs(d2)
           kept == { ts \in Times : ts >= M - WEEK_SECONDS }
<1>1. /\ \A l \in Lists : h[l] \in Seq(Times) /\ d[l] \in Seq(Times)
      /\ h2 \in Database /\ d2 \in Database
  <2>1. \A l \in Lists : h[l] \in Seq(Times) /\ d[l] \in Seq(Times)
    BY DEF Database
  <2>2. Append(h[k], x) \in Seq(Times) /\ Append(d[k], x) \in Seq(Times)
    BY <2>1, AppendProperties
  <2> QED
    BY <2>1, <2>2 DEF Database
<1>2. Prune(d2) \in Database
  BY <1>1, PruneTyped
<1>3. /\ \A l \in Lists : l # k => h2[l] = h[l] /\ d2[l] = d[l]
      /\ h2[k] = Append(h[k], x) /\ d2[k] = Append(d[k], x)
  BY DEF Database
<1>4. WEEK_SECONDS \in Nat /\ \A ts \in Times : ts \in Nat
  BY DatabaseAssumption
<1>5. \A l \in Lists : ToSet(d[l]) = ToSet(h[l]) \cap Window(h)
  BY <1>1, OnlyStamps
<1>6. /\ Stamps(h2) = Stamps(h) \cup {x}
      /\ Stamps(d2) = Stamps(d) \cup {x}
      /\ Stamps(h) \subseteq Times /\ Stamps(d) \subseteq Stamps(h)
  <2>1. /\ ToSet(h2[k]) = ToSet(h[k]) \cup {x}
        /\ ToSet(d2[k]) = ToSet(d[k]) \cup {x}
    BY <1>1, <1>3, StampsOf
  <2>2. \A l \in Lists : l # k => ToSet(h2[l]) = ToSet(h[l]) /\ ToSet(d2[l]) = ToSet(d[l])
    BY <1>3
  <2>3. Stamps(h2) = Stamps(h) \cup {x} /\ Stamps(d2) = Stamps(d) \cup {x}
    BY <2>1, <2>2 DEF Stamps, Lists
  <2>4. \A l \in Lists : ToSet(h[l]) \subseteq Times
    BY <1>1, StampsOf
  <2> QED
    BY <1>5, <2>3, <2>4 DEF Stamps, Lists
\* What was given latest is in its window.
<1>7. LatestTs(h) \in Nat /\ LatestTs(h) \in {0} \cup Stamps(d) /\ \A u \in Stamps(h) : u <= LatestTs(h)
  <2> DEFINE m == LatestTs(h)
  <2>1. m \in Nat /\ m \in {0} \cup Stamps(h) /\ \A u \in Stamps(h) : u <= m
    BY LatestIsMax
  <2> HIDE DEF m
  <2>2. ASSUME m \in Stamps(h) PROVE m \in Stamps(d)
    <3>1. \A u \in Stamps(h) : u \in Nat /\ u <= m + WEEK_SECONDS
      <4>1. \A u \in Stamps(h) : u \in Nat
        BY <1>4, <1>6
      <4> QED
        BY <1>4, <2>1, <4>1
    <3>2. m \in Window(h)
      BY <1>6, <2>2, <3>1 DEF Window
    <3> QED
      BY <1>5, <2>2, <3>2 DEF Stamps, Lists
  <2> QED
    BY <2>1, <2>2 DEF m
<1>8. M \in Nat /\ M \in {0} \cup Stamps(h2) /\ \A u \in Stamps(h2) : u \in Nat /\ u <= M
  <2>1. M \in Nat /\ M \in {0} \cup Stamps(d2) /\ \A u \in Stamps(d2) : u <= M
    BY <1>1, LatestIsMax
  <2> HIDE DEF M
  <2>2. \A u \in Stamps(h2) : u \in Nat
    BY <1>4, <1>6
  <2>3. LatestTs(h) <= M
    <3>1. CASE LatestTs(h) = 0
      BY <2>1, <3>1
    <3>2. CASE LatestTs(h) \in Stamps(d)
      BY <1>6, <2>1, <3>2
    <3> QED
      BY <1>7, <3>1, <3>2
  <2>4. \A u \in Stamps(h) : u <= M
    <3> SUFFICES ASSUME NEW u \in Stamps(h) PROVE u <= M
      OBVIOUS
    <3>1. u \in Nat /\ u <= LatestTs(h)
      BY <1>6, <1>7, <2>2
    <3> QED
      BY <1>7, <2>1, <2>3, <3>1
  <2> QED
    BY <1>6, <2>1, <2>2, <2>4
<1> HIDE DEF M
<1>9. Window(h2) \subseteq Window(h) /\ Window(h2) \subseteq Times
  BY <1>6 DEF Window
<1>10. CASE M <= WEEK_SECONDS
  <2>1. \A u \in Stamps(h2), ts \in Times : u <= ts + WEEK_SECONDS
    <3> SUFFICES ASSUME NEW u \in Stamps(h2), NEW ts \in Times PROVE u <= ts + WEEK_SECONDS
      OBVIOUS
    <3>1. u \in Nat /\ u <= M /\ ts \in Nat
      BY <1>4, <1>8
    <3> QED
      BY <1>4, <1>8, <1>10, <3>1
  <2>2. Window(h2) = Times /\ Window(h) = Times
    BY <1>9, <2>1 DEF Window
  <2>3. \A l \in Lists : ToSet(h[l]) \subseteq Times /\ h2[l] \in Seq(Times) /\ ToSet(h2[l]) \subseteq Times
    BY <1>1, StampsOf DEF Database
  <2>4. \A l \in Lists : d[l] = h[l] /\ Only(h2[l], Times) = h2[l]
    BY <1>1, <2>2, <2>3, OnlyAll
  <2>5. \A l \in Lists : d2[l] = h2[l]
    BY <1>3, <2>4
  <2>6. Prune(d2) = d2
    BY <1>10 DEF Prune, M
  <2> QED
    BY <1>1, <1>2, <2>2, <2>4, <2>5, <2>6
<1>11. CASE ~(M <= WEEK_SECONDS)
  <2>1. M \in Stamps(h2)
    <3>1. M # 0
      BY <1>4, <1>11
    <3> QED
      BY <1>8, <3>1
  <2>2. ASSUME NEW ts \in Times PROVE ts \in Window(h2) <=> ts \in kept
    <3>1. ts \in Nat
      BY <1>4
    <3>2. ts \in kept <=> M <= ts + WEEK_SECONDS
      BY <1>4, <1>8, <3>1
    <3>3. ts \in Window(h2) => M <= ts + WEEK_SECONDS
      BY <2>1 DEF Window
    <3>4. ASSUME M <= ts + WEEK_SECONDS PROVE ts \in Window(h2)
      <4>1. ASSUME NEW u \in Stamps(h2) PROVE u <= ts + WEEK_SECONDS
        <5>1. u \in Nat /\ u <= M /\ M \in Nat
          BY <1>8
        <5> QED
          BY <1>4, <3>1, <3>4, <5>1
      <4> QED
        BY <4>1 DEF Window
    <3> QED
      BY <3>2, <3>3, <3>4
  <2>3. Window(h2) = kept
    BY <1>9, <2>2
  <2>4. Prune(d2) = [l \in Lists |-> Only(d2[l], kept)]
    BY <1>11 DEF Prune, M
  <2> HIDE DEF kept
  <2>5. Window(h) \cap kept = kept
    BY <1>9, <2>3
  <2>6. ASSUME NEW l \in Lists PROVE Only(d2[l], kept) = Only(h2[l], kept)
    <3>1. Only(d[l], kept) = Only(h[l], kept)
      BY <1>1, <2>5, OnlyOnly
    <3>2. CASE l # k
      BY <1>3, <3>1, <3>2
    <3>3. CASE l = k
      <4>1. Only(Append(d[k], x), kept) = IF x \in kept THEN Append(Only(d[k], kept), x) ELSE Only(d[k], kept)
        BY <1>1, OnlyAppend
      <4>2. Only(Append(h[k], x), kept) = IF x \in kept THEN Append(Only(h[k], kept), x) ELSE Only(h[k], kept)
        BY <1>1, OnlyAppend
      <4> QED
        BY <1>3, <3>1, <3>3, <4>1, <4>2
    <3> QED
      BY <3>2, <3>3
  <2> QED
    BY <1>1, <1>2, <2>3, <2>4, <2>6
<1> QED
  BY <1>10, <1>11

----------------------------------------------------------------------------
(* The inductive invariant *)

\* What a save made of the files.
SaveInv ==
    /\ saving # "no" => ~intact
    /\ intact => disk = saved
    /\ Prune(saved) = saved

\* the database of the program that saves
DbInv == DbTypeOK /\ DbIsWindow /\ SaveInv

\* What the server loads is one complete save as long as it may be one.
LoadInv ==
    base # {} =>
        \E b \in base :
            /\ base = {b}
            /\ b \in Database /\ Prune(b) = b
            /\ server = "events" => snap["meas"] = b["meas"] /\ disk["events"] = b["events"]
            /\ server = "up" => snap = b

EndType ==
    [at : {"off", "menu", "reading", "left", "failed"}, asked : Requests, pending : BOOLEAN,
     down : Seq(Frame), rows : Seq(Times), cut : BOOLEAN, served : Database]

GroundTypes ==
    /\ server \in {"down", "load", "events", "up"}
    /\ snap \in Database
    /\ queue \in Seq(Clients) /\ current \in Clients \cup {None}
    /\ todo \in Seq(Frame)
    /\ end \in [Clients -> EndType]
    /\ \A c \in Clients : Len(end[c].down) <= SOCK_N

\* A connection is in one place, and there only while the server is up.
ConnInv ==
    /\ \A i, j \in 1 .. Len(queue) : queue[i] = queue[j] => i = j
    /\ \A i \in 1 .. Len(queue) : queue[i] # current
    /\ queue # <<>> \/ current # None => server = "up"
    /\ current = None => todo = <<>>
    /\ \A c \in Clients :
           end[c].at # "off" /\ ~end[c].cut <=> c = current \/ \E i \in 1 .. Len(queue) : queue[i] = c

\* the frames of an answer
Answer(d, r) == LET found == Rows(d, r) IN [i \in DOMAIN found |-> Row(r.list, found[i])] \o <<Done(Len(found))>>

\* What the client has read and what is on its way is the start of its answer.
Started(e) ==
    LET found == Rows(e.served, e.asked)
        frames == Answer(e.served, e.asked)
    IN  /\ Len(e.rows) <= Len(found)
        /\ \A i \in 1 .. Len(e.rows) : e.rows[i] = found[i]
        /\ Len(e.rows) + Len(e.down) <= Len(frames)
        /\ \A i \in 1 .. Len(e.down) : e.down[i] = frames[Len(e.rows) + i]

\* What the server has still to write is the rest of it.
Remains(e, rest) ==
    LET frames == Answer(e.served, e.asked)
    IN  /\ Len(e.rows) + Len(e.down) + Len(rest) = Len(frames)
        /\ \A i \in 1 .. Len(rest) : rest[i] = frames[Len(e.rows) + Len(e.down) + i]

\* What one ground station is at.
ClientInv(c) ==
    LET e == end[c] IN
    /\ e.at = "off" => e = Off
    /\ e.at = "menu" => ~e.pending /\ e.down = <<>> /\ e.rows = <<>> /\ (c = current => todo = <<>>)
    /\ e.at = "reading" /\ e.pending => e.down = <<>> /\ e.rows = <<>> /\ (c = current => todo = <<>>)
    /\ e.at = "reading" /\ ~e.pending => Started(e) /\ (e.cut \/ (c = current /\ Remains(e, todo)))
    /\ e.at \in {"menu", "reading"} /\ ~e.cut => e.served = snap

GroundInv == GroundTypes /\ DbInv /\ LoadInv /\ ConnInv /\ \A c \in Clients : ClientInv(c)

----------------------------------------------------------------------------
(* The database and its files *)

\* The property in the words of this module.
LEMMA WindowOfHeard == DbIsWindow <=> \A l \in Lists : db[l] = Only(heard[l], Window(heard))
BY DEF DbIsWindow, Window, Stamps

\* Nothing is a window of nothing.
LEMMA EmptyDatabase ==
    /\ Empty \in Database
    /\ Prune(Empty) = Empty
    /\ \A l \in Lists : Empty[l] = Only(Empty[l], Window(Empty))
<1>1. Empty \in Database /\ \A l \in Lists : Empty[l] = <<>>
  BY EmptySeq DEF Empty, Database
<1>2. \A l \in Lists : Empty[l] = Only(Empty[l], Window(Empty))
  BY <1>1, OnlyEmpty
<1>3. Prune(Empty) = Empty
  BY <1>1, <1>2, PruneOfWindow
<1> QED
  BY <1>1, <1>2, <1>3

\* Database and files are empty at the start.
LEMMA DbStarts == DbInit => DbInv
<1> SUFFICES ASSUME DbInit PROVE DbInv
  OBVIOUS
<1> USE DEF DbInit
<1>1. left \in [{"adds", "saves", "starts", "asks"} -> Nat]
  BY DatabaseAssumption
<1>2. DbTypeOK
  BY <1>1, EmptyDatabase DEF DbTypeOK, Database
<1>3. DbIsWindow
  BY EmptyDatabase, WindowOfHeard
<1>4. SaveInv
  BY EmptyDatabase DEF SaveInv
<1> QED
  BY <1>2, <1>3, <1>4 DEF DbInv

\* What is used up is one of a kind.
LEMMA UseTyped ==
    ASSUME left \in [{"adds", "saves", "starts", "asks"} -> Nat],
           NEW what \in {"adds", "saves", "starts", "asks"}, Use(what)
    PROVE  left' \in [{"adds", "saves", "starts", "asks"} -> Nat]
<1>1. left[what] \in Nat /\ left[what] - 1 \in Nat
  BY DEF Use
<1> QED
  BY <1>1 DEF Use

\* What the session does keeps its invariant.
LEMMA DbSteps == DbInv /\ DbNext => DbInv'
<1> SUFFICES ASSUME DbInv, DbNext PROVE DbInv'
  OBVIOUS
<1>a. /\ db \in Database /\ disk \in Database /\ heard \in Database /\ saved \in Database
      /\ saving \in {"no", "meas", "events", "close"}
      /\ intact \in BOOLEAN
      /\ left \in [{"adds", "saves", "starts", "asks"} -> Nat]
      /\ \A l \in Lists : db[l] = Only(heard[l], Window(heard))
      /\ SaveInv
  BY WindowOfHeard DEF DbInv, DbTypeOK, Database
<1>b. /\ \A l \in Lists : db[l] \in Seq(Times) /\ disk[l] \in Seq(Times)
      /\ \A l \in Lists, rows \in Seq(Times) : [disk EXCEPT ![l] = rows] \in Database
  BY <1>a DEF Database
<1>c. "meas" \in Lists /\ "events" \in Lists /\ <<>> \in Seq(Times)
  BY EmptySeq DEF Lists
<1>d. ASSUME db' = db, heard' = heard PROVE DbIsWindow'
  BY <1>d DEF DbInv, DbIsWindow
<1>e. ASSUME db' \in Database, disk' \in Database, heard' \in Database, saved' \in Database,
             saving' \in {"no", "meas", "events", "close"}, intact' \in BOOLEAN,
             left' \in [{"adds", "saves", "starts", "asks"} -> Nat]
      PROVE  DbTypeOK'
  BY <1>e DEF DbTypeOK, Database
<1>1. CASE Add
  <2>1. saving = "no" /\ Use("adds") /\ UNCHANGED <<disk, saving, saved, intact>>
    BY <1>1 DEF Add
  <2>2. PICK l \in Lists, ts \in Times :
            /\ db' = Prune([db EXCEPT ![l] = Append(@, ts)])
            /\ heard' = [heard EXCEPT ![l] = Append(@, ts)]
    BY <1>1 DEF Add
  <2>3. /\ heard' \in Database /\ db' \in Database
        /\ \A k \in Lists : db'[k] = Only(heard'[k], Window(heard'))
    <3>1. db' = Prune(With(db, l, ts)) /\ heard' = With(heard, l, ts)
      BY <2>2 DEF With
    <3> QED
      BY <1>a, <3>1, WindowSlides
  <2>4. DbIsWindow'
    BY <2>3 DEF DbIsWindow, Window, Stamps
  <2>5. SaveInv'
    BY <1>a, <2>1 DEF SaveInv
  <2>6. left' \in [{"adds", "saves", "starts", "asks"} -> Nat]
    BY <1>a, <2>1, UseTyped
  <2> QED
    BY <1>a, <1>e, <2>1, <2>3, <2>4, <2>5, <2>6 DEF DbInv
<1>2. CASE NewSession
  <2> USE <1>2 DEF NewSession
  <2>1. DbTypeOK'
    BY <1>a, <1>e, EmptyDatabase
  <2>2. DbIsWindow'
    BY EmptyDatabase DEF DbIsWindow, Window, Stamps
  <2>3. SaveInv'
    BY <1>a DEF SaveInv
  <2> QED
    BY <2>1, <2>2, <2>3 DEF DbInv
<1>3. CASE SaveOpenMeas
  <2> USE <1>3 DEF SaveOpenMeas
  <2>1. left' \in [{"adds", "saves", "starts", "asks"} -> Nat]
    BY <1>a, UseTyped
  <2>2. DbTypeOK'
    BY <1>a, <1>b, <1>c, <1>e, <2>1
  <2>3. SaveInv'
    BY <1>a DEF SaveInv
  <2> QED
    BY <1>d, <2>2, <2>3 DEF DbInv
<1>4. CASE SaveFails
  <2> USE <1>4 DEF SaveFails, Close
  <2>1. DbTypeOK'
    BY <1>a, <1>b, <1>c, <1>e
  <2>2. SaveInv'
    BY <1>a DEF SaveInv
  <2> QED
    BY <1>d, <2>1, <2>2 DEF DbInv
<1>5. CASE SaveOpenEvents
  <2> USE <1>5 DEF SaveOpenEvents
  <2>1. DbTypeOK'
    BY <1>a, <1>b, <1>c, <1>e
  <2>2. SaveInv'
    BY <1>a DEF SaveInv
  <2> QED
    BY <1>d, <2>1, <2>2 DEF DbInv
<1>6. ASSUME NEW l \in Lists, SaveWrite(l) PROVE DbInv'
  <2> USE <1>6 DEF SaveWrite
  <2>1. PICK n \in Len(disk[l]) + 1 .. Len(db[l]) : disk' = [disk EXCEPT ![l] = SubSeq(db[l], 1, n)]
    OBVIOUS
  <2>2. SubSeq(db[l], 1, n) \in Seq(Times)
    <3>1. Len(disk[l]) \in Nat /\ Len(db[l]) \in Nat
      BY <1>b, LenProperties
    <3>2. n \in Nat /\ \A i \in 1 .. n : db[l][i] \in Times
      BY <1>b, <2>1, <3>1, ElementOfSeq
    <3> QED
      BY <3>2, SubSeqProperties
  <2>3. DbTypeOK'
    BY <1>a, <1>b, <1>e, <2>1, <2>2
  <2>4. SaveInv'
    BY <1>a DEF SaveInv, Lists
  <2> QED
    BY <1>d, <2>3, <2>4 DEF DbInv
<1>7. CASE SaveCloseEvents
  <2> USE <1>7 DEF SaveCloseEvents, Close
  <2>1. DbTypeOK'
    BY <1>a, <1>b, <1>c, <1>e
  <2>2. SaveInv'
    BY <1>a DEF SaveInv
  <2> QED
    BY <1>d, <2>1, <2>2 DEF DbInv
<1>8. CASE SaveCloseMeas
  <2> USE <1>8 DEF SaveCloseMeas, Close
  <2>1. DbTypeOK'
    BY <1>a, <1>b, <1>c, <1>e
  <2>2. Prune(db) = db
    BY <1>a, PruneOfWindow
  <2>3. SaveInv'
    BY <1>a, <2>2 DEF SaveInv
  <2> QED
    BY <1>d, <2>1, <2>3 DEF DbInv
<1> QED
  BY <1>1, <1>2, <1>3, <1>4, <1>5, <1>6, <1>7, <1>8 DEF DbNext

\* Steps of others leave the database alone.
LEMMA DbLeftAlone ==
    ASSUME DbInv, UNCHANGED dbVars,
           left' = left \/ \E what \in {"adds", "saves", "starts", "asks"} : Use(what)
    PROVE  DbInv'
<1>1. left' \in [{"adds", "saves", "starts", "asks"} -> Nat]
  BY UseTyped DEF DbInv, DbTypeOK
<1>2. DbTypeOK'
  BY <1>1 DEF DbInv, DbTypeOK, dbVars
<1>3. DbIsWindow'
  BY DEF DbInv, DbIsWindow, dbVars
<1>4. SaveInv'
  BY DEF DbInv, SaveInv, dbVars
<1> QED
  BY <1>2, <1>3, <1>4 DEF DbInv

----------------------------------------------------------------------------
(* Answers and connections *)

\* An answer is a frame for each row and one with their number.
LEMMA AnswerParts ==
    ASSUME NEW d \in Database, NEW r \in Requests
    PROVE  /\ Rows(d, r) \in Seq(Times)
           /\ Answer(d, r) \in Seq(Frame)
           /\ Len(Answer(d, r)) = Len(Rows(d, r)) + 1
           /\ Len(Rows(d, r)) \in Nat
           /\ \A i \in 1 .. Len(Rows(d, r)) :
                  Rows(d, r)[i] \in Times /\ Answer(d, r)[i] = Row(r.list, Rows(d, r)[i])
           /\ Answer(d, r)[Len(Rows(d, r)) + 1] = Done(Len(Rows(d, r)))
           /\ r.list \in Lists
<1>1. r \in [list : Lists, from : Nat, to : Nat] /\ r.list \in Lists
  BY GroundAssumption
<1>2. Rows(d, r) \in Seq(Times)
  <2>1. d[r.list] \in Seq(Times)
    BY <1>1 DEF Database
  <2> QED
    BY <2>1, OnlyTyped DEF Rows, InRange
<1> DEFINE found == Rows(d, r)
           rows == [i \in DOMAIN found |-> Row(r.list, found[i])]
           last == <<Done(Len(found))>>
<1>3. Len(found) \in Nat /\ DOMAIN found = 1 .. Len(found) /\ \A i \in 1 .. Len(found) : found[i] \in Times
  BY <1>2, LenProperties, ElementOfSeq
<1>4. \A i \in 1 .. Len(found) : Row(r.list, found[i]) \in Frame
  BY <1>1, <1>3 DEF Row, Frame
<1>5. Done(Len(found)) \in Frame
  BY <1>3 DEF Done, Frame
<1>6. Answer(d, r) = rows \o last
  BY DEF Answer
<1> HIDE DEF found
<1>7. rows \in Seq(Frame) /\ Len(rows) = Len(found)
      /\ \A i \in 1 .. Len(found) : rows[i] = Row(r.list, found[i])
  <2>1. rows \in [1 .. Len(found) -> Frame]
    BY <1>3, <1>4
  <2>2. rows \in Seq(Frame)
    BY <1>3, <2>1, IsASeq
  <2>3. DOMAIN rows = 1 .. Len(found)
    BY <1>3
  <2>4. Len(rows) = Len(found)
    <3>1. Len(rows) \in Nat /\ DOMAIN rows = 1 .. Len(rows)
      BY <2>2, LenProperties
    <3> HIDE DEF rows
    <3> QED
      BY <1>3, <2>3, <3>1
  <2> QED
    BY <1>3, <2>2, <2>4
<1>8. last \in Seq(Frame) /\ Len(last) = 1 /\ last[1] = Done(Len(found))
  BY <1>5
<1> HIDE DEF rows, last
<1>9. /\ rows \o last \in Seq(Frame) /\ Len(rows \o last) = Len(found) + 1
      /\ \A i \in 1 .. Len(found) : (rows \o last)[i] = rows[i]
      /\ (rows \o last)[Len(found) + 1] = last[1]
  <2> DEFINE n == Len(found)
             whole == rows \o last
  <2>1. n \in Nat /\ Len(rows) = n /\ Len(last) = 1
    BY <1>3, <1>7, <1>8
  <2>2. whole \in Seq(Frame) /\ Len(whole) = Len(rows) + Len(last)
        /\ \A i \in 1 .. Len(rows) + Len(last) :
               whole[i] = IF i <= Len(rows) THEN rows[i] ELSE last[i - Len(rows)]
    <3>1. rows \in Seq(Frame) /\ last \in Seq(Frame)
      BY <1>7, <1>8
    <3> QED
      BY <3>1, ConcatProperties
  <2> HIDE DEF whole, n
  <2>3. \A i \in 1 .. n : whole[i] = rows[i]
    BY <2>1, <2>2
  <2>4. n + 1 \in 1 .. n + 1 /\ ~(n + 1 <= n) /\ (n + 1) - n = 1
    BY <2>1
  <2>5. whole[n + 1] = last[1]
    BY <2>1, <2>2, <2>4
  <2> QED
    BY <2>1, <2>2, <2>3, <2>5 DEF whole, n
<1> QED
  BY <1>1, <1>2, <1>3, <1>6, <1>7, <1>8, <1>9 DEF found

\* nobody and nothing is connected
LEMMA OffTyped == Off \in EndType /\ Off.at = "off" /\ ~Off.cut /\ ~Off.pending
                  /\ Off.down = <<>> /\ Off.rows = <<>> /\ Len(Off.down) <= SOCK_N
<1>1. (CHOOSE r \in Requests : TRUE) \in Requests
  BY GroundAssumption
<1>2. <<>> \in Seq(Frame) /\ <<>> \in Seq(Times) /\ Len(<<>>) = 0
  BY EmptySeq
<1> QED
  BY <1>1, <1>2, EmptyDatabase, GroundAssumption DEF Off, EndType

\* What the invariant says of the types, one by one.
LEMMA Typed ==
    ASSUME GroundTypes
    PROVE  /\ Len(queue) \in Nat /\ (queue = <<>> <=> Len(queue) = 0)
           /\ \A i \in 1 .. Len(queue) : queue[i] \in Clients
           /\ Len(todo) \in Nat /\ (todo = <<>> <=> Len(todo) = 0)
           /\ \A i \in 1 .. Len(todo) : todo[i] \in Frame
           /\ \A c \in Clients :
                  LET e == end[c] IN
                  /\ e \in EndType
                  /\ Len(e.rows) \in Nat /\ (e.rows = <<>> <=> Len(e.rows) = 0)
                  /\ Len(e.down) \in Nat /\ (e.down = <<>> <=> Len(e.down) = 0)
                  /\ \A i \in 1 .. Len(e.down) : e.down[i] \in Frame
           /\ None \notin Clients
<1>1. queue \in Seq(Clients) /\ todo \in Seq(Frame) /\ end \in [Clients -> EndType]
  BY DEF GroundTypes
<1>2. ASSUME NEW S, NEW s \in Seq(S)
      PROVE  Len(s) \in Nat /\ (s = <<>> <=> Len(s) = 0) /\ \A i \in 1 .. Len(s) : s[i] \in S
  BY <1>2, LenProperties, EmptySeq, ElementOfSeq
<1>3. ASSUME NEW c \in Clients
      PROVE  /\ end[c] \in EndType
             /\ end[c].down \in Seq(Frame) /\ end[c].rows \in Seq(Times)
  BY <1>1 DEF EndType
<1>4. None \notin Clients
  BY GroundAssumption DEF None
<1> QED
  BY <1>1, <1>2, <1>3, <1>4

\* Nobody is connected at the start.
LEMMA GroundInit == Init => GroundInv
<1> SUFFICES ASSUME Init PROVE GroundInv
  OBVIOUS
<1>1. /\ DbInit /\ server = "down" /\ snap = Empty /\ base = {}
      /\ queue = <<>> /\ current = None /\ todo = <<>>
      /\ end = [c \in Clients |-> Off]
  BY DEF Init
<1>2. DbInv
  BY <1>1, DbStarts
<1>3. GroundTypes
  <2>1. <<>> \in Seq(Clients) /\ <<>> \in Seq(Frame)
    BY EmptySeq
  <2> QED
    BY <1>1, <2>1, OffTyped, EmptyDatabase DEF GroundTypes
<1>4. LoadInv
  BY <1>1 DEF LoadInv
<1>5. ConnInv
  BY <1>1, <1>3, Typed, OffTyped DEF ConnInv
<1>6. \A c \in Clients : ClientInv(c)
  BY <1>1, OffTyped DEF ClientInv
<1> QED
  BY <1>2, <1>3, <1>4, <1>5, <1>6 DEF GroundInv

----------------------------------------------------------------------------
(* The steps *)

\* The program that saves.
LEMMA SessionStep == GroundInv /\ Session => GroundInv'
<1> SUFFICES ASSUME GroundInv, Session PROVE GroundInv'
  OBVIOUS
<1>1. /\ GroundTypes /\ DbInv /\ LoadInv /\ ConnInv /\ \A c \in Clients : ClientInv(c)
      /\ server # "up" /\ DbNext
      /\ base' = IF server = "events" /\ disk' # disk THEN {} ELSE base
      /\ UNCHANGED <<server, snap, queue, current, todo, end>>
  BY DEF GroundInv, Session, conns
<1>2. DbInv'
  BY <1>1, DbSteps
<1>3. GroundTypes'
  BY <1>1 DEF GroundTypes
<1>4. ConnInv'
  BY <1>1 DEF ConnInv
<1>5. \A c \in Clients : ClientInv(c)'
  BY <1>1 DEF ClientInv, Started, Remains
<1>6. LoadInv'
  <2>1. CASE server = "events" /\ disk' # disk
    BY <1>1, <2>1 DEF LoadInv
  <2>2. CASE ~(server = "events" /\ disk' # disk)
    <3>1. base' = base /\ (server = "events" => disk' = disk)
      BY <1>1, <2>2
    <3> QED
      BY <1>1, <3>1 DEF LoadInv
  <2> QED
    BY <2>1, <2>2
<1> QED
  BY <1>2, <1>3, <1>4, <1>5, <1>6 DEF GroundInv

\* The server starts and loads the files.
LEMMA StartStep == GroundInv /\ (ServerStart \/ ServerLoad \/ ServerListen) => GroundInv'
<1> SUFFICES ASSUME GroundInv, ServerStart \/ ServerLoad \/ ServerListen PROVE GroundInv'
  OBVIOUS
<1>1. /\ GroundTypes /\ DbInv /\ LoadInv /\ ConnInv /\ \A c \in Clients : ClientInv(c)
      /\ UNCHANGED <<dbVars, queue, current, todo, end>>
      /\ server # "up"
  BY DEF GroundInv, ServerStart, ServerLoad, ServerListen, conns
<1>2. DbInv'
  BY <1>1, DbLeftAlone DEF ServerStart, ServerLoad, ServerListen
<1>3. queue = <<>> /\ current = None
  BY <1>1 DEF ConnInv
<1>4. ConnInv'
  <2>1. Len(queue) = 0
    BY <1>1, <1>3, Typed
  <2>2. \A c \in Clients : ~(end[c].at # "off" /\ ~end[c].cut)
    BY <1>1, <1>3, <2>1, Typed DEF ConnInv
  <2> QED
    BY <1>1, <1>3, <2>1, <2>2, Typed DEF ConnInv
<1>5. \A c \in Clients : ClientInv(c)'
  <2> SUFFICES ASSUME NEW c \in Clients PROVE ClientInv(c)'
    OBVIOUS
  <2>1. ~(end[c].at # "off" /\ ~end[c].cut)
    BY <1>1, <1>3, Typed DEF ConnInv
  <2> QED
    BY <1>1, <2>1 DEF ClientInv, Started, Remains
<1>6. /\ db \in Database /\ disk \in Database /\ saved \in Database
      /\ intact => disk = saved
      /\ Prune(saved) = saved
      /\ \A l \in Lists : disk[l] \in Seq(Times)
      /\ disk' = disk
  BY <1>1 DEF DbInv, DbTypeOK, SaveInv, Database, dbVars
<1>7. CASE ServerStart
  <2>1. server' = "load" /\ server = "down" /\ UNCHANGED <<snap, base>>
    BY <1>7 DEF ServerStart
  <2>2. GroundTypes'
    BY <1>1, <2>1 DEF GroundTypes
  <2>3. LoadInv'
    BY <1>1, <2>1 DEF LoadInv
  <2> QED
    BY <1>2, <1>4, <1>5, <2>2, <2>3 DEF GroundInv
<1>8. CASE ServerLoad
  <2>1. /\ server' = "events"
        /\ snap' = [Empty EXCEPT !["meas"] = disk["meas"]]
        /\ base' = IF intact THEN {saved} ELSE {}
    BY <1>8 DEF ServerLoad
  <2>2. snap' \in Database /\ snap'["meas"] = disk["meas"]
    BY <1>6, <2>1, EmptyDatabase DEF Database, Lists
  <2>3. GroundTypes'
    BY <1>1, <2>1, <2>2 DEF GroundTypes
  <2>4. LoadInv'
    <3>1. CASE intact
      <4>1. base' = {saved} /\ disk = saved /\ disk' = saved
        BY <1>6, <2>1, <3>1
      <4> QED
        BY <1>6, <2>1, <2>2, <4>1 DEF LoadInv
    <3>2. CASE ~intact
      BY <2>1, <3>2 DEF LoadInv
    <3> QED
      BY <3>1, <3>2
  <2> QED
    BY <1>2, <1>4, <1>5, <2>3, <2>4 DEF GroundInv
<1>9. CASE ServerListen
  <2> DEFINE loaded == [snap EXCEPT !["events"] = disk["events"]]
  <2>1. server = "events" /\ server' = "up" /\ snap' = Prune(loaded) /\ base' = base
    BY <1>9 DEF ServerListen
  <2>2. snap \in Database /\ loaded \in Database
    BY <1>1, <1>6 DEF GroundTypes, Database, Lists
  <2>3. snap' \in Database
    <3> HIDE DEF loaded
    <3> QED
      BY <2>1, <2>2, PruneTyped
  <2>4. GroundTypes'
    BY <1>1, <2>1, <2>3 DEF GroundTypes
  <2>5. LoadInv'
    <3> SUFFICES ASSUME base # {}
                 PROVE  \E b \in base : base = {b} /\ b \in Database /\ Prune(b) = b /\ snap' = b
      BY <2>1 DEF LoadInv
    <3>1. PICK b \in base : /\ base = {b} /\ b \in Database /\ Prune(b) = b
                            /\ snap["meas"] = b["meas"] /\ disk["events"] = b["events"]
      BY <1>1, <2>1 DEF LoadInv
    <3>2. loaded = b
      <4>1. loaded \in [Lists -> Seq(Times)] /\ b \in [Lists -> Seq(Times)]
        BY <2>2, <3>1 DEF Database
      <4>2. loaded["meas"] = b["meas"] /\ loaded["events"] = b["events"]
        BY <2>2, <3>1 DEF Database, Lists
      <4> HIDE DEF loaded
      <4> QED
        BY <4>1, <4>2 DEF Lists
    <3> QED
      BY <2>1, <3>1, <3>2
  <2> QED
    BY <1>2, <1>4, <1>5, <2>4, <2>5 DEF GroundInv
<1> QED
  BY <1>7, <1>8, <1>9

\* what the invariant is made of, for a step that leaves the database and the
\* server's copy of it alone
LEMMA LeftAlone ==
    ASSUME GroundInv, UNCHANGED <<dbVars, process>>,
           left' = left \/ \E what \in {"adds", "saves", "starts", "asks"} : Use(what)
    PROVE  /\ GroundTypes /\ ConnInv /\ \A c \in Clients : ClientInv(c)
           /\ DbInv' /\ LoadInv'
           /\ server' = server /\ snap' = snap
<1>1. GroundTypes /\ DbInv /\ LoadInv /\ ConnInv /\ \A c \in Clients : ClientInv(c)
  BY DEF GroundInv
<1>2. DbInv'
  BY <1>1, DbLeftAlone
<1>3. server' = server /\ snap' = snap /\ base' = base /\ disk' = disk
  BY DEF process, dbVars
<1>4. LoadInv'
  BY <1>1, <1>3 DEF LoadInv
<1> QED
  BY <1>1, <1>2, <1>3, <1>4

\* The next connection leaves the queue.
LEMMA AcceptStep == GroundInv /\ Accept => GroundInv'
<1> SUFFICES ASSUME GroundInv, Accept PROVE GroundInv'
  OBVIOUS
<1>1. /\ server = "up" /\ current = None /\ queue # <<>>
      /\ current' = Head(queue) /\ queue' = Tail(queue)
      /\ UNCHANGED <<dbVars, process, left, todo, end>>
  BY DEF Accept
<1>2. /\ GroundTypes /\ ConnInv /\ \A c \in Clients : ClientInv(c)
      /\ DbInv' /\ LoadInv'
      /\ server' = server /\ snap' = snap
  BY <1>1, LeftAlone
<1>3. /\ queue \in Seq(Clients) /\ Len(queue) \in Nat /\ Len(queue) # 0
      /\ \A i \in 1 .. Len(queue) : queue[i] \in Clients
      /\ None \notin Clients
  BY <1>1, <1>2, Typed DEF GroundTypes
<1>4. /\ current' = queue[1] /\ current' \in Clients
      /\ queue' \in Seq(Clients) /\ Len(queue') = Len(queue) - 1
      /\ \A i \in 1 .. Len(queue) - 1 : queue'[i] = queue[i + 1]
  <2>1. Head(queue) = queue[1]
    BY <1>3
  <2> QED
    BY <1>1, <1>3, <2>1, HeadTailProperties
<1>5. GroundTypes'
  BY <1>1, <1>2, <1>4 DEF GroundTypes
<1>6. ConnInv'
  <2>1. \A i, j \in 1 .. Len(queue) : queue[i] = queue[j] => i = j
    BY <1>2 DEF ConnInv
  <2>2. \A i, j \in 1 .. Len(queue') : queue'[i] = queue'[j] => i = j
    <3> SUFFICES ASSUME NEW i \in 1 .. Len(queue'), NEW j \in 1 .. Len(queue'), queue'[i] = queue'[j]
                 PROVE  i = j
      OBVIOUS
    <3>1. /\ i + 1 \in 1 .. Len(queue) /\ j + 1 \in 1 .. Len(queue)
          /\ queue[i + 1] = queue[j + 1]
      BY <1>3, <1>4
    <3>2. i + 1 = j + 1
      BY <2>1, <3>1
    <3> QED
      BY <1>3, <1>4, <3>2
  <2>3. \A i \in 1 .. Len(queue') : queue'[i] # current'
    <3> SUFFICES ASSUME NEW i \in 1 .. Len(queue'), queue'[i] = current'
                 PROVE  FALSE
      OBVIOUS
    <3>1. i \in Nat /\ i + 1 \in 1 .. Len(queue) /\ 1 \in 1 .. Len(queue) /\ i + 1 # 1
          /\ queue[i + 1] = queue[1]
      BY <1>3, <1>4
    <3> QED
      BY <2>1, <3>1
  <2>4. ASSUME NEW c \in Clients
        PROVE  (c = current \/ \E i \in 1 .. Len(queue) : queue[i] = c) <=>
               (c = current' \/ \E i \in 1 .. Len(queue') : queue'[i] = c)
    <3>1. c # current
      BY <1>1, <1>3
    <3>2. ASSUME NEW i \in 1 .. Len(queue), queue[i] = c
          PROVE  c = current' \/ \E j \in 1 .. Len(queue') : queue'[j] = c
      <4>1. CASE i = 1
        BY <1>4, <3>2, <4>1
      <4>2. CASE i # 1
        <5>1. i - 1 \in 1 .. Len(queue') /\ queue'[i - 1] = queue[(i - 1) + 1] /\ (i - 1) + 1 = i
          BY <1>3, <1>4, <4>2
        <5> QED
          BY <3>2, <5>1
      <4> QED
        BY <4>1, <4>2
    <3>3. 1 \in 1 .. Len(queue)
      BY <1>3
    <3>4. ASSUME NEW i \in 1 .. Len(queue'), queue'[i] = c
          PROVE  \E j \in 1 .. Len(queue) : queue[j] = c
      <4>1. i + 1 \in 1 .. Len(queue) /\ queue[i + 1] = queue'[i]
        BY <1>3, <1>4
      <4> QED
        BY <3>4, <4>1
    <3> QED
      BY <1>4, <3>1, <3>2, <3>3, <3>4
  <2>5. server' = "up" /\ current' # None
    BY <1>1, <1>2, <1>3, <1>4
  <2>6. \A c \in Clients :
            end'[c].at # "off" /\ ~end'[c].cut <=> c = current' \/ \E i \in 1 .. Len(queue') : queue'[i] = c
    BY <1>1, <1>2, <2>4 DEF ConnInv
  <2> QED
    BY <2>2, <2>3, <2>5, <2>6 DEF ConnInv
<1>7. ASSUME NEW c \in Clients PROVE ClientInv(c)'
  <2>1. c # current /\ todo = <<>>
    BY <1>1, <1>2, <1>3 DEF ConnInv
  <2>2. ClientInv(c)
    BY <1>2
  <2> QED
    BY <1>1, <1>2, <2>1, <2>2 DEF ClientInv, Started
<1> QED
  BY <1>2, <1>5, <1>6, <1>7 DEF GroundInv

\* The connection predicate of a step that moves nobody.
LEMMA ConnSame ==
    ASSUME ConnInv, UNCHANGED <<server, queue, current>>,
           current = None => todo' = <<>>,
           \A c \in Clients : end'[c].at # "off" /\ ~end'[c].cut <=> end[c].at # "off" /\ ~end[c].cut
    PROVE  ConnInv'
BY DEF ConnInv

\* An answer begun is known from what is asked, served, read and on its way.
LEMMA StartedSame ==
    ASSUME NEW e, NEW f, Started(e),
           f.asked = e.asked, f.served = e.served, f.rows = e.rows, f.down = e.down
    PROVE  Started(f)
BY DEF Started

\* What is known of a client, about its end of the connection.
LEMMA ClientParts ==
    ASSUME NEW c, ClientInv(c)
    PROVE  /\ end[c].at = "off" => end[c] = Off
           /\ end[c].at = "menu" =>
                  ~end[c].pending /\ end[c].down = <<>> /\ end[c].rows = <<>> /\ (c = current => todo = <<>>)
           /\ end[c].at = "reading" /\ end[c].pending =>
                  end[c].down = <<>> /\ end[c].rows = <<>> /\ (c = current => todo = <<>>)
           /\ end[c].at = "reading" /\ ~end[c].pending =>
                  Started(end[c]) /\ (end[c].cut \/ (c = current /\ Remains(end[c], todo)))
           /\ end[c].at \in {"menu", "reading"} /\ ~end[c].cut => end[c].served = snap
BY DEF ClientInv

\* Whom the step leaves alone.
LEMMA ClientSame ==
    ASSUME NEW c \in Clients, ClientInv(c),
           end'[c] = end[c], snap' = snap,
           \/ c # current /\ c # current'
           \/ current' = current /\ todo' = todo
    PROVE  ClientInv(c)'
<1> DEFINE e == end[c]
<1>1. /\ e.at = "off" => e = Off
      /\ e.at = "menu" => ~e.pending /\ e.down = <<>> /\ e.rows = <<>> /\ (c = current => todo = <<>>)
      /\ e.at = "reading" /\ e.pending =>
             e.down = <<>> /\ e.rows = <<>> /\ (c = current => todo = <<>>)
      /\ e.at = "reading" /\ ~e.pending => Started(e) /\ (e.cut \/ (c = current /\ Remains(e, todo)))
      /\ e.at \in {"menu", "reading"} /\ ~e.cut => e.served = snap
  BY ClientParts
<1>2. /\ (c = current => todo = <<>>) => (c = current' => todo' = <<>>)
      /\ c = current /\ Remains(e, todo) => c = current' /\ Remains(e, todo')
  OBVIOUS
<1>3. e' = e /\ snap' = snap
  OBVIOUS
<1> QED
  BY <1>1, <1>2, <1>3 DEF ClientInv

\* A request fixes the answer, of which nothing is written yet.
LEMMA HandleStep == GroundInv /\ Handle => GroundInv'
<1> SUFFICES ASSUME GroundInv, Handle PROVE GroundInv'
  OBVIOUS
<1> DEFINE k == current
           e == end[k]
           r == end[k].asked
<1>1. /\ k # None /\ todo = <<>> /\ e.pending
      /\ end' = [end EXCEPT ![k].pending = FALSE]
      /\ todo' = Answer(snap, r)
      /\ UNCHANGED <<dbVars, process, left, queue, current>>
  BY DEF Handle, Answer
<1>2. /\ GroundTypes /\ ConnInv /\ \A c \in Clients : ClientInv(c)
      /\ DbInv' /\ LoadInv'
      /\ server' = server /\ snap' = snap
  BY <1>1, LeftAlone
<1>3. k \in Clients /\ snap \in Database /\ end \in [Clients -> EndType] /\ e \in EndType
  BY <1>1, <1>2, Typed DEF GroundTypes
<1>4. r \in Requests
  BY <1>3 DEF EndType
<1> DEFINE f == [e EXCEPT !.pending = FALSE]
<1>5. /\ end' = [end EXCEPT ![k] = f] /\ end'[k] = f
      /\ \A c \in Clients : c # k => end'[c] = end[c]
  BY <1>1, <1>3
<1>6. /\ f \in EndType /\ f.at = e.at /\ f.cut = e.cut /\ f.asked = e.asked /\ f.served = e.served
      /\ f.down = e.down /\ f.rows = e.rows /\ ~f.pending
  BY <1>3 DEF EndType
<1> HIDE DEF f
<1>7. GroundTypes'
  <2>1. todo' \in Seq(Frame)
    BY <1>1, <1>3, <1>4, AnswerParts
  <2>2. end' \in [Clients -> EndType] /\ \A c \in Clients : Len(end'[c].down) <= SOCK_N
    <3>1. end' \in [Clients -> EndType]
      BY <1>3, <1>5, <1>6
    <3>2. ASSUME NEW c \in Clients PROVE end'[c].down = end[c].down
      BY <1>5, <1>6, <3>2
    <3> QED
      BY <1>2, <3>1, <3>2 DEF GroundTypes
  <2> QED
    BY <1>1, <1>2, <2>1, <2>2 DEF GroundTypes
<1>8. ConnInv'
  <2>1. \A c \in Clients : end'[c].at = end[c].at /\ end'[c].cut = end[c].cut
    BY <1>5, <1>6
  <2> QED
    BY <1>1, <1>2, <2>1, ConnSame
<1>9. ASSUME NEW c \in Clients PROVE ClientInv(c)'
  <2>1. CASE c # k
    BY <1>1, <1>2, <1>5, <2>1, ClientSame
  <2>2. CASE c = k
    <3>1. e.at # "off" /\ ~e.cut
      BY <1>2, <1>3 DEF ConnInv
    <3>2. e.at # "menu"
      BY <1>1, <1>2, <1>3 DEF ClientInv
    <3>3. CASE e.at # "reading"
      BY <1>5, <1>6, <2>2, <3>1, <3>2, <3>3 DEF ClientInv
    <3>4. CASE e.at = "reading"
      <4>1. e.served = snap /\ e.down = <<>> /\ e.rows = <<>>
        BY <1>1, <1>2, <1>3, <3>1, <3>4 DEF ClientInv
      <4>2. Len(e.down) = 0 /\ Len(e.rows) = 0
        BY <4>1, EmptySeq
      <4>3. /\ Len(Rows(snap, r)) \in Nat
            /\ Len(Answer(snap, r)) = Len(Rows(snap, r)) + 1
        BY <1>3, <1>4, AnswerParts
      <4>4. Started(f)
        BY <1>6, <4>1, <4>2, <4>3 DEF Started
      <4>5. Remains(f, todo')
        <5>1. \A i \in 1 .. Len(todo') : todo'[i] = Answer(snap, r)[0 + 0 + i]
          BY <1>1, <4>3
        <5> QED
          BY <1>1, <1>6, <4>1, <4>2, <4>3, <5>1 DEF Remains
      <4> QED
        BY <1>1, <1>2, <1>5, <1>6, <2>2, <3>1, <3>4, <4>1, <4>4, <4>5 DEF ClientInv
    <3> QED
      BY <3>3, <3>4
  <2> QED
    BY <2>1, <2>2
<1> QED
  BY <1>2, <1>7, <1>8, <1>9 DEF GroundInv

\* A frame moves from what is to be written to what is on its way.
LEMMA WriteStep == GroundInv /\ Write => GroundInv'
<1> SUFFICES ASSUME GroundInv, Write PROVE GroundInv'
  OBVIOUS
<1> DEFINE k == current
           e == end[k]
<1>1. /\ k # None /\ todo # <<>> /\ e.at \notin {"left", "failed"} /\ Len(e.down) < SOCK_N
      /\ end' = [end EXCEPT ![k].down = Append(@, Head(todo))]
      /\ todo' = Tail(todo)
      /\ UNCHANGED <<dbVars, process, left, queue, current>>
  BY DEF Write, Gone
<1>2. /\ GroundTypes /\ ConnInv /\ \A c \in Clients : ClientInv(c)
      /\ DbInv' /\ LoadInv'
      /\ server' = server /\ snap' = snap
  BY <1>1, LeftAlone
<1>3. k \in Clients /\ end \in [Clients -> EndType] /\ e \in EndType /\ SOCK_N \in Nat
  BY <1>1, <1>2, Typed, GroundAssumption DEF GroundTypes
<1>4. /\ Len(todo) \in Nat /\ Len(todo) >= 1 /\ Head(todo) = todo[1] /\ todo[1] \in Frame
      /\ todo' \in Seq(Frame) /\ Len(todo') = Len(todo) - 1
      /\ \A i \in 1 .. Len(todo) - 1 : todo'[i] = todo[i + 1]
  <2>1. todo \in Seq(Frame) /\ Len(todo) \in Nat /\ Len(todo) # 0
    BY <1>1, <1>2, Typed DEF GroundTypes
  <2>2. Head(todo) = todo[1]
    BY <2>1
  <2>3. /\ Head(todo) \in Frame /\ Tail(todo) \in Seq(Frame) /\ Len(Tail(todo)) = Len(todo) - 1
        /\ \A i \in 1 .. Len(Tail(todo)) : Tail(todo)[i] = todo[i + 1]
    BY <1>1, <2>1, HeadTailProperties
  <2> QED
    BY <1>1, <2>1, <2>2, <2>3
<1> DEFINE f == [e EXCEPT !.down = Append(@, Head(todo))]
<1>5. /\ end' = [end EXCEPT ![k] = f] /\ end'[k] = f
      /\ \A c \in Clients : c # k => end'[c] = end[c]
  BY <1>1, <1>3
<1>6. /\ Len(e.down) \in Nat /\ Len(e.rows) \in Nat
      /\ f.down \in Seq(Frame) /\ Len(f.down) = Len(e.down) + 1
      /\ \A i \in 1 .. Len(e.down) : f.down[i] = e.down[i]
      /\ f.down[Len(e.down) + 1] = todo[1]
  <2>1. e.down \in Seq(Frame) /\ f.down = Append(e.down, Head(todo))
    BY <1>3 DEF EndType
  <2> QED
    BY <1>2, <1>3, <1>4, <2>1, AppendProperties, Typed
<1>7. /\ f \in EndType /\ f.at = e.at /\ f.cut = e.cut /\ f.asked = e.asked /\ f.served = e.served
      /\ f.pending = e.pending /\ f.rows = e.rows
  <2>1. f.down \in Seq(Frame)
    BY <1>6
  <2> QED
    BY <1>3, <2>1 DEF EndType
<1> HIDE DEF f
<1>8. GroundTypes'
  <2>1. end' \in [Clients -> EndType]
    BY <1>3, <1>5, <1>7
  <2>2. ASSUME NEW c \in Clients PROVE Len(end'[c].down) <= SOCK_N
    BY <1>1, <1>2, <1>3, <1>5, <1>6 DEF GroundTypes
  <2> QED
    BY <1>1, <1>2, <1>4, <2>1, <2>2 DEF GroundTypes
<1>9. ConnInv'
  <2>1. \A c \in Clients : end'[c].at = end[c].at /\ end'[c].cut = end[c].cut
    BY <1>5, <1>7
  <2> QED
    BY <1>1, <1>2, <2>1, ConnSame
<1>10. ASSUME NEW c \in Clients PROVE ClientInv(c)'
  <2>1. CASE c # k
    BY <1>1, <1>2, <1>5, <2>1, ClientSame
  <2>2. CASE c = k
    <3>1. e.at # "off" /\ ~e.cut
      BY <1>2, <1>3 DEF ConnInv
    <3>2. e.at = "reading" /\ ~e.pending
      BY <1>1, <1>2, <1>3, <3>1 DEF ClientInv, EndType
    <3>3. Started(e) /\ Remains(e, todo) /\ e.served = snap
      BY <1>2, <1>3, <3>1, <3>2 DEF ClientInv
    <3> DEFINE found == Rows(e.served, e.asked)
               frames == Answer(e.served, e.asked)
               n == Len(e.rows)
               m == Len(e.down)
    <3>4. Len(found) \in Nat /\ Len(frames) = Len(found) + 1
      <4>1. e.served \in Database /\ e.asked \in Requests
        BY <1>3 DEF EndType
      <4> QED
        BY <4>1, AnswerParts
    <3>5. /\ n <= Len(found) /\ \A i \in 1 .. n : e.rows[i] = found[i]
          /\ n + m <= Len(frames) /\ \A i \in 1 .. m : e.down[i] = frames[n + i]
      BY <3>3 DEF Started
    <3>6. /\ n + m + Len(todo) = Len(frames)
          /\ \A i \in 1 .. Len(todo) : todo[i] = frames[n + m + i]
      BY <3>3 DEF Remains
    <3> HIDE DEF found, frames, n, m
    <3>7. n \in Nat /\ m \in Nat
      BY <1>6 DEF n, m
    <3>8. Started(f)
      <4>1. n + (m + 1) <= Len(frames)
        BY <1>4, <3>4, <3>6, <3>7
      <4>2. ASSUME NEW i \in 1 .. m + 1 PROVE f.down[i] = frames[n + i]
        <5>1. CASE i = m + 1
          <6>1. todo[1] = frames[n + m + 1] /\ n + m + 1 = n + (m + 1)
            BY <1>4, <3>6, <3>7
          <6> QED
            BY <1>6, <5>1, <6>1 DEF m
        <5>2. CASE i # m + 1
          <6>1. i \in 1 .. m
            BY <3>7, <5>2
          <6> QED
            BY <1>6, <3>5, <6>1 DEF m
        <5> QED
          BY <5>1, <5>2
      <4> QED
        BY <1>6, <1>7, <3>5, <4>1, <4>2 DEF Started, found, frames, n, m
    <3>9. Remains(f, todo')
      <4>1. n + (m + 1) + Len(todo') = Len(frames)
        <5>1. Len(todo) \in Nat /\ Len(todo') = Len(todo) - 1 /\ n + m + Len(todo) = Len(frames)
          BY <1>4, <3>6
        <5> QED
          BY <3>7, <5>1
      <4>2. ASSUME NEW i \in 1 .. Len(todo') PROVE todo'[i] = frames[n + (m + 1) + i]
        <5>1. i + 1 \in 1 .. Len(todo) /\ todo'[i] = todo[i + 1] /\ n + (m + 1) + i = n + m + (i + 1)
          BY <1>4, <3>7
        <5>2. todo[i + 1] = frames[n + m + (i + 1)]
          BY <3>6, <5>1
        <5> QED
          BY <5>1, <5>2
      <4> QED
        BY <1>6, <1>7, <4>1, <4>2 DEF Remains, found, frames, n, m
    <3> QED
      BY <1>1, <1>2, <1>5, <1>7, <2>2, <3>1, <3>2, <3>3, <3>8, <3>9 DEF ClientInv
  <2> QED
    BY <2>1, <2>2
<1> QED
  BY <1>2, <1>8, <1>9, <1>10 DEF GroundInv

\* A connection is closed by the server: its client starts over.
LEMMA CloseStep == GroundInv /\ current # None /\ Gone(current) /\ CloseCurrent => GroundInv'
<1> SUFFICES ASSUME GroundInv, current # None, CloseCurrent PROVE GroundInv'
  OBVIOUS
<1> DEFINE k == current
<1>1. /\ current' = None /\ todo' = <<>>
      /\ end' = [end EXCEPT ![k] = Off]
      /\ UNCHANGED <<dbVars, process, left, queue>>
  BY DEF CloseCurrent
<1>2. /\ GroundTypes /\ ConnInv /\ \A c \in Clients : ClientInv(c)
      /\ DbInv' /\ LoadInv'
      /\ server' = server /\ snap' = snap
  BY <1>1, LeftAlone
<1>3. k \in Clients /\ end \in [Clients -> EndType] /\ None \notin Clients
  BY <1>2, Typed DEF GroundTypes
<1>4. end'[k] = Off /\ \A c \in Clients : c # k => end'[c] = end[c]
  BY <1>1, <1>3
<1>5. GroundTypes'
  <2>1. <<>> \in Seq(Frame)
    BY EmptySeq
  <2>2. end' \in [Clients -> EndType]
    BY <1>1, <1>3, OffTyped
  <2>3. \A c \in Clients : Len(end'[c].down) <= SOCK_N
    BY <1>2, <1>4, OffTyped DEF GroundTypes
  <2> QED
    BY <1>1, <1>2, <2>1, <2>2, <2>3 DEF GroundTypes
<1>6. ConnInv'
  <2>1. ASSUME NEW i \in 1 .. Len(queue) PROVE queue[i] \in Clients /\ queue[i] # k /\ queue[i] # None
    BY <1>2, <1>3, Typed DEF ConnInv
  <2>2. ASSUME NEW c \in Clients
        PROVE  end'[c].at # "off" /\ ~end'[c].cut <=> c = None \/ \E i \in 1 .. Len(queue) : queue[i] = c
    <3>1. CASE c = k
      BY <1>3, <1>4, <2>1, <3>1, OffTyped
    <3>2. CASE c # k
      BY <1>2, <1>3, <1>4, <3>2 DEF ConnInv
    <3> QED
      BY <3>1, <3>2
  <2>3. queue # <<>> => server = "up"
    BY <1>2 DEF ConnInv
  <2>4. \A i, j \in 1 .. Len(queue) : queue[i] = queue[j] => i = j
    BY <1>2 DEF ConnInv
  <2> QED
    BY <1>1, <1>2, <2>1, <2>2, <2>3, <2>4 DEF ConnInv
<1>7. ASSUME NEW c \in Clients PROVE ClientInv(c)'
  <2>1. CASE c # k
    <3>1. c # current /\ c # current'
      BY <1>1, <1>3, <2>1
    <3> QED
      BY <1>2, <1>4, <2>1, <3>1, ClientSame
  <2>2. CASE c = k
    BY <1>4, <2>2, OffTyped DEF ClientInv
  <2> QED
    BY <2>1, <2>2
<1> QED
  BY <1>2, <1>5, <1>6, <1>7 DEF GroundInv

\* The server ends, by whatever.
LEMMA DieStep == GroundInv /\ Die => GroundInv'
<1> SUFFICES ASSUME GroundInv, Die PROVE GroundInv'
  OBVIOUS
<1>1. /\ server' = "down" /\ snap' = Empty /\ base' = {}
      /\ queue' = <<>> /\ current' = None /\ todo' = <<>>
      /\ end' = [c \in Clients |-> IF end[c].at = "off" \/ Gone(c) THEN Off ELSE [end[c] EXCEPT !.cut = TRUE]]
      /\ UNCHANGED <<dbVars, left>>
  BY DEF Die
<1>2. GroundTypes /\ DbInv /\ ConnInv /\ \A c \in Clients : ClientInv(c)
  BY DEF GroundInv
<1>3. DbInv' /\ LoadInv'
  BY <1>1, <1>2, DbLeftAlone DEF LoadInv
<1>4. ASSUME NEW c \in Clients
      PROVE  LET e == end[c]  f == end'[c] IN
             /\ f \in EndType /\ Len(f.down) <= SOCK_N
             /\ \/ f = Off
                \/ /\ f.cut
                   /\ e.at \in {"menu", "reading"}
                   /\ f.at = e.at /\ f.asked = e.asked /\ f.pending = e.pending
                   /\ f.down = e.down /\ f.rows = e.rows /\ f.served = e.served
  <2>1. end[c] \in EndType /\ Len(end[c].down) <= SOCK_N
    BY <1>2 DEF GroundTypes
  <2>2. CASE end[c].at = "off" \/ Gone(c)
    BY <1>1, <2>2, OffTyped
  <2>3. CASE ~(end[c].at = "off" \/ Gone(c))
    <3>1. end'[c] = [end[c] EXCEPT !.cut = TRUE] /\ end[c].at \in {"menu", "reading"}
      BY <1>1, <2>1, <2>3 DEF Gone, EndType
    <3> QED
      BY <2>1, <3>1 DEF EndType
  <2> QED
    BY <2>2, <2>3
<1>5. GroundTypes'
  <2>1. <<>> \in Seq(Clients) /\ <<>> \in Seq(Frame)
    BY EmptySeq
  <2>2. DOMAIN end' = Clients /\ end' = [c \in Clients |-> end'[c]]
    BY <1>1
  <2>3. end' \in [Clients -> EndType] /\ \A c \in Clients : Len(end'[c].down) <= SOCK_N
    BY <1>4, <2>2
  <2> QED
    BY <1>1, <2>1, <2>3, EmptyDatabase DEF GroundTypes
<1>6. ConnInv'
  <2>1. Len(<<>>) = 0 /\ None \notin Clients
    BY <1>2, Typed, EmptySeq
  <2>2. \A c \in Clients : ~(end'[c].at # "off" /\ ~end'[c].cut)
    BY <1>4, OffTyped
  <2> QED
    BY <1>1, <2>1, <2>2 DEF ConnInv
<1>7. ASSUME NEW c \in Clients PROVE ClientInv(c)'
  <2>1. c # None
    BY <1>2, Typed
  <2>2. CASE end'[c] = Off
    BY <2>2, OffTyped DEF ClientInv
  <2>3. CASE end'[c] # Off
    <3> DEFINE e == end[c]
               f == end'[c]
    <3>1. /\ f.cut /\ f.at = e.at /\ f.asked = e.asked /\ f.pending = e.pending
          /\ f.down = e.down /\ f.rows = e.rows /\ f.served = e.served
          /\ e.at \in {"menu", "reading"}
      BY <1>4, <2>3
    <3>2. /\ e.at = "menu" => ~e.pending /\ e.down = <<>> /\ e.rows = <<>>
          /\ e.at = "reading" /\ e.pending => e.down = <<>> /\ e.rows = <<>>
          /\ e.at = "reading" /\ ~e.pending => Started(e)
      <4>1. ClientInv(c)
        BY <1>2
      <4> QED
        BY <4>1, ClientParts
    <3>3. Started(e) => Started(f)
      BY <3>1, StartedSame, Zenon
    <3>4. /\ f.at = "menu" => ~f.pending /\ f.down = <<>> /\ f.rows = <<>>
          /\ f.at = "reading" /\ f.pending => f.down = <<>> /\ f.rows = <<>>
          /\ f.at = "reading" /\ ~f.pending => Started(f)
          /\ f.at # "off" /\ f.cut
      BY <3>1, <3>2, <3>3
    <3> HIDE DEF f
    <3> QED
      BY <1>1, <2>1, <3>4 DEF ClientInv, f
  <2> QED
    BY <2>2, <2>3
<1> QED
  BY <1>3, <1>5, <1>6, <1>7 DEF GroundInv

\* Frames for a client that has left go nowhere.
LEMMA WriteToLeftStep == GroundInv /\ WriteToLeft => GroundInv'
<1> SUFFICES ASSUME GroundInv, WriteToLeft PROVE GroundInv'
  OBVIOUS
<1>1. current # None /\ todo # <<>> /\ Gone(current)
  BY DEF WriteToLeft
<1>2. CASE CloseCurrent
  BY <1>1, <1>2, CloseStep
<1>3. CASE Die
  BY <1>3, DieStep
<1>4. CASE todo' = Tail(todo) /\ UNCHANGED <<dbVars, left, process, queue, current, end>>
  <2>2. /\ GroundTypes /\ ConnInv /\ \A c \in Clients : ClientInv(c)
        /\ DbInv' /\ LoadInv'
        /\ server' = server /\ snap' = snap
    BY <1>4, LeftAlone
  <2>3. todo \in Seq(Frame) /\ Tail(todo) \in Seq(Frame)
    BY <1>1, <2>2, HeadTailProperties DEF GroundTypes
  <2>4. GroundTypes'
    BY <1>4, <2>2, <2>3 DEF GroundTypes
  <2>5. ConnInv'
    BY <1>1, <1>4, <2>2, ConnSame
  <2>6. ASSUME NEW c \in Clients PROVE ClientInv(c)'
    <3>1. CASE c # current
      BY <1>4, <2>2, <3>1, ClientSame
    <3>2. CASE c = current
      <4>1. end'[c].at \in {"left", "failed"}
        BY <1>1, <1>4, <3>2 DEF Gone
      <4> QED
        BY <4>1 DEF ClientInv
    <3> QED
      BY <3>1, <3>2
  <2> QED
    BY <2>2, <2>4, <2>5, <2>6 DEF GroundInv
<1> QED
  BY <1>2, <1>3, <1>4 DEF WriteToLeft

\* What a step of one ground station comes to.
LEMMA BecomesStep ==
    ASSUME GroundInv, NEW c \in Clients, NEW e, Becomes(c, e), e \in EndType, Len(e.down) <= SOCK_N,
           left' = left \/ \E what \in {"adds", "saves", "starts", "asks"} : Use(what),
           queue' = queue,
           e.at # "off" /\ ~e.cut <=> end[c].at # "off" /\ ~end[c].cut,
           end'[c] = e => ClientInv(c)'
    PROVE  GroundInv'
<1>1. /\ end' = [end EXCEPT ![c] = e]
      /\ UNCHANGED <<dbVars, process, current, todo, queue>>
  BY DEF Becomes
<1>2. /\ GroundTypes /\ ConnInv /\ \A d \in Clients : ClientInv(d)
      /\ DbInv' /\ LoadInv'
      /\ server' = server /\ snap' = snap
  BY <1>1, LeftAlone
<1>3. end \in [Clients -> EndType]
  BY <1>2 DEF GroundTypes
<1>4. end'[c] = e /\ \A d \in Clients : d # c => end'[d] = end[d]
  BY <1>1, <1>3
<1>5. GroundTypes'
  <2>1. end' \in [Clients -> EndType]
    BY <1>1, <1>3
  <2>2. \A d \in Clients : Len(end'[d].down) <= SOCK_N
    BY <1>2, <1>4 DEF GroundTypes
  <2> QED
    BY <1>1, <1>2, <2>1, <2>2 DEF GroundTypes
<1>6. ConnInv'
  <2>1. \A d \in Clients : end'[d].at # "off" /\ ~end'[d].cut <=> end[d].at # "off" /\ ~end[d].cut
    BY <1>4
  <2>2. current = None => todo' = <<>>
    BY <1>1, <1>2 DEF ConnInv
  <2> QED
    BY <1>1, <1>2, <2>1, <2>2, ConnSame
<1>7. ASSUME NEW d \in Clients PROVE ClientInv(d)'
  <2>1. CASE d # c
    BY <1>1, <1>2, <1>4, <2>1, ClientSame
  <2>2. CASE d = c
    BY <1>4, <2>2
  <2> QED
    BY <2>1, <2>2
<1> QED
  BY <1>2, <1>5, <1>6, <1>7 DEF GroundInv

\* A new connection waits at the end of the queue.
LEMMA ConnectStep ==
    ASSUME GroundInv, NEW c \in Clients, Connect(c)
    PROVE  GroundInv'
<1> DEFINE e == [Off EXCEPT !.at = "menu", !.served = snap]
<1>1. /\ end[c].at = "off" /\ server = "up"
      /\ queue' = Append(queue, c)
      /\ end' = [end EXCEPT ![c] = e]
      /\ UNCHANGED <<dbVars, process, left, current, todo>>
  BY DEF Connect, Becomes
<1>2. /\ GroundTypes /\ ConnInv /\ \A d \in Clients : ClientInv(d)
      /\ DbInv' /\ LoadInv'
      /\ server' = server /\ snap' = snap
  BY <1>1, LeftAlone
<1>3. /\ e \in EndType /\ e.at = "menu" /\ e.served = snap /\ ~e.cut /\ ~e.pending
      /\ e.down = <<>> /\ e.rows = <<>> /\ Len(e.down) <= SOCK_N
  BY <1>2, OffTyped DEF EndType, GroundTypes
<1> HIDE DEF e
<1>4. /\ end \in [Clients -> EndType] /\ queue \in Seq(Clients)
      /\ end'[c] = e /\ \A d \in Clients : d # c => end'[d] = end[d]
  BY <1>1, <1>2 DEF GroundTypes
<1>5. c # current /\ \A i \in 1 .. Len(queue) : queue[i] # c
  BY <1>1, <1>2 DEF ConnInv
<1>6. /\ queue' \in Seq(Clients) /\ Len(queue) \in Nat /\ Len(queue') = Len(queue) + 1
      /\ \A i \in 1 .. Len(queue) : queue'[i] = queue[i]
      /\ queue'[Len(queue) + 1] = c
  BY <1>1, <1>4, AppendProperties, LenProperties
<1>7. GroundTypes'
  <2>1. end' \in [Clients -> EndType]
    BY <1>1, <1>3, <1>4
  <2>2. \A d \in Clients : Len(end'[d].down) <= SOCK_N
    BY <1>2, <1>3, <1>4 DEF GroundTypes
  <2> QED
    BY <1>1, <1>2, <1>6, <2>1, <2>2 DEF GroundTypes
<1>8. ConnInv'
  <2>1. \A i, j \in 1 .. Len(queue') : queue'[i] = queue'[j] => i = j
    <3> SUFFICES ASSUME NEW i \in 1 .. Len(queue'), NEW j \in 1 .. Len(queue'), queue'[i] = queue'[j]
                 PROVE  i = j
      OBVIOUS
    <3>1. /\ i \in 1 .. Len(queue) \/ i = Len(queue) + 1
          /\ j \in 1 .. Len(queue) \/ j = Len(queue) + 1
      BY <1>6
    <3>2. CASE i \in 1 .. Len(queue) /\ j \in 1 .. Len(queue)
      <4>1. queue[i] = queue[j]
        BY <1>6, <3>2
      <4> QED
        BY <1>2, <3>2, <4>1 DEF ConnInv
    <3>3. CASE i = Len(queue) + 1 /\ j \in 1 .. Len(queue)
      BY <1>5, <1>6, <3>3
    <3>4. CASE i \in 1 .. Len(queue) /\ j = Len(queue) + 1
      BY <1>5, <1>6, <3>4
    <3> QED
      BY <3>1, <3>2, <3>3, <3>4
  <2>2. \A i \in 1 .. Len(queue') : queue'[i] # current'
    <3> SUFFICES ASSUME NEW i \in 1 .. Len(queue') PROVE queue'[i] # current
      BY <1>1
    <3>1. CASE i \in 1 .. Len(queue)
      BY <1>2, <1>6, <3>1 DEF ConnInv
    <3>2. CASE i = Len(queue) + 1
      BY <1>5, <1>6, <3>2
    <3> QED
      BY <1>6, <3>1, <3>2
  <2>3. ASSUME NEW d \in Clients
        PROVE  end'[d].at # "off" /\ ~end'[d].cut <=> d = current' \/ \E i \in 1 .. Len(queue') : queue'[i] = d
    <3>1. CASE d = c
      <4>1. Len(queue) + 1 \in 1 .. Len(queue')
        BY <1>6
      <4> QED
        BY <1>3, <1>4, <1>6, <3>1, <4>1
    <3>2. CASE d # c
      <4>1. (\E i \in 1 .. Len(queue') : queue'[i] = d) <=> \E i \in 1 .. Len(queue) : queue[i] = d
        <5>1. \A i \in 1 .. Len(queue') : i \in 1 .. Len(queue) \/ i = Len(queue) + 1
          BY <1>6
        <5>2. \A i \in 1 .. Len(queue) : i \in 1 .. Len(queue')
          BY <1>6
        <5> QED
          BY <1>6, <3>2, <5>1, <5>2
      <4> QED
        BY <1>1, <1>2, <1>4, <3>2, <4>1 DEF ConnInv
    <3> QED
      BY <3>1, <3>2
  <2>4. server' = "up" /\ (current' = None => todo' = <<>>)
    BY <1>1, <1>2 DEF ConnInv
  <2> QED
    BY <2>1, <2>2, <2>3, <2>4 DEF ConnInv
<1>9. ASSUME NEW d \in Clients PROVE ClientInv(d)'
  <2>1. CASE d # c
    BY <1>1, <1>2, <1>4, <2>1, ClientSame
  <2>2. CASE d = c
    BY <1>1, <1>2, <1>3, <1>4, <1>5, <2>2 DEF ClientInv
  <2> QED
    BY <2>1, <2>2
<1> QED
  BY <1>2, <1>7, <1>8, <1>9 DEF GroundInv

\* A request is pending, and nothing of its answer is there.
LEMMA AskStep ==
    ASSUME GroundInv, NEW c \in Clients, Ask(c)
    PROVE  GroundInv'
<1>1. /\ end[c].at = "menu" /\ Use("asks") /\ queue' = queue
  BY DEF Ask
<1>2. PICK r \in Requests : Becomes(c, [end[c] EXCEPT !.at = "reading", !.asked = r, !.pending = TRUE])
  BY DEF Ask
<1> DEFINE e == [end[c] EXCEPT !.at = "reading", !.asked = r, !.pending = TRUE]
<1>3. /\ GroundTypes /\ ClientInv(c) /\ ConnInv
      /\ end[c] \in EndType /\ Len(end[c].down) <= SOCK_N
  BY DEF GroundInv, GroundTypes
<1>4. /\ e \in EndType /\ e.at = "reading" /\ e.pending /\ e.cut = end[c].cut /\ e.served = end[c].served
      /\ e.down = end[c].down /\ e.rows = end[c].rows
  BY <1>3 DEF EndType
<1> HIDE DEF e
<1>5. Becomes(c, e)
  BY <1>2 DEF e
<1>6. ASSUME end'[c] = e PROVE ClientInv(c)'
  <2>1. /\ end[c].down = <<>> /\ end[c].rows = <<>> /\ (c = current => todo = <<>>)
        /\ ~end[c].cut => end[c].served = snap
    BY <1>1, <1>3 DEF ClientInv
  <2>2. snap' = snap /\ current' = current /\ todo' = todo
    BY <1>5 DEF Becomes, process
  <2> QED
    BY <1>4, <1>6, <2>1, <2>2 DEF ClientInv
<1> QED
  BY <1>1, <1>3, <1>4, <1>5, <1>6, BecomesStep

\* What a client reads next is the next frame of its answer: a row, or the last
\* one, and then it has all rows.
LEMMA NextFrame ==
    ASSUME GroundInv, NEW c \in Clients, end[c].at = "reading", end[c].down # <<>>
    PROVE  LET e == end[c]
               f == Head(e.down)
               found == Rows(e.served, e.asked)
           IN  /\ ~e.pending
               /\ e.down[1] = f /\ Len(e.down) \in Nat \ {0} /\ Len(e.rows) \in Nat
               /\ \/ /\ f.tag = e.asked.list /\ f.tag # "DONE"
                     /\ Len(e.rows) < Len(found) /\ f.ts = found[Len(e.rows) + 1] /\ f.ts \in Times
                  \/ /\ f.tag = "DONE" /\ f.count = Len(e.rows)
                     /\ e.rows = found
                     /\ Len(e.down) = 1 /\ (c = current => todo = <<>>)
<1> DEFINE e == end[c]
           f == Head(e.down)
           found == Rows(e.served, e.asked)
           frames == Answer(e.served, e.asked)
<1>1. /\ GroundTypes /\ ConnInv /\ ClientInv(c)
      /\ e \in EndType
  BY DEF GroundInv, GroundTypes
<1>2. /\ Len(e.rows) \in Nat /\ Len(e.down) \in Nat /\ Len(e.down) # 0
      /\ e.rows \in Seq(Times) /\ e.down \in Seq(Frame)
      /\ Len(todo) \in Nat /\ (todo = <<>> <=> Len(todo) = 0)
  BY <1>1, Typed DEF EndType
<1>3. ~e.pending /\ Started(e) /\ (e.cut \/ (c = current /\ Remains(e, todo)))
  BY <1>1 DEF ClientInv
<1>4. /\ found \in Seq(Times) /\ Len(found) \in Nat
      /\ Len(frames) = Len(found) + 1
      /\ \A i \in 1 .. Len(found) : found[i] \in Times /\ frames[i] = Row(e.asked.list, found[i])
      /\ frames[Len(found) + 1] = Done(Len(found))
      /\ e.asked.list \in Lists
  <2>1. e.served \in Database /\ e.asked \in Requests
    BY <1>1 DEF EndType
  <2> QED
    BY <2>1, AnswerParts
<1>5. /\ Len(e.rows) <= Len(found)
      /\ \A i \in 1 .. Len(e.rows) : e.rows[i] = found[i]
      /\ Len(e.rows) + Len(e.down) <= Len(frames)
      /\ \A i \in 1 .. Len(e.down) : e.down[i] = frames[Len(e.rows) + i]
  BY <1>3 DEF Started
<1>6. c = current => Len(e.rows) + Len(e.down) + Len(todo) = Len(frames)
  <2>1. c = current => ~e.cut
    BY <1>1 DEF ConnInv
  <2> QED
    BY <1>3, <2>1 DEF Remains
<1> HIDE DEF found, frames
<1>7. f = e.down[1] /\ f = frames[Len(e.rows) + 1]
  <2>1. f = e.down[1]
    BY <1>2
  <2>2. 1 \in 1 .. Len(e.down)
    BY <1>2
  <2> QED
    BY <1>5, <2>1, <2>2
<1>8. CASE Len(e.rows) < Len(found)
  <2>1. Len(e.rows) + 1 \in 1 .. Len(found)
    BY <1>2, <1>4, <1>8
  <2>2. f = Row(e.asked.list, found[Len(e.rows) + 1]) /\ found[Len(e.rows) + 1] \in Times
    BY <1>4, <1>7, <2>1
  <2>3. f.tag = e.asked.list /\ f.ts = found[Len(e.rows) + 1] /\ f.tag # "DONE" /\ f.ts \in Times
    BY <1>4, <2>2 DEF Row, Lists
  <2> QED
    BY <1>2, <1>3, <1>7, <1>8, <2>3 DEF found
<1>9. CASE ~(Len(e.rows) < Len(found))
  <2>1. Len(e.rows) = Len(found)
    BY <1>2, <1>4, <1>5, <1>9
  <2>2. f = Done(Len(e.rows))
    BY <1>4, <1>7, <2>1
  <2>3. f.tag = "DONE" /\ f.count = Len(e.rows)
    BY <2>2 DEF Done
  <2>4. e.rows = found
    BY <1>2, <1>4, <1>5, <2>1, SeqEqual
  <2>5. Len(e.down) = 1
    <3>1. Len(e.rows) + Len(e.down) <= Len(e.rows) + 1
      BY <1>4, <1>5, <2>1
    <3>2. Len(e.rows) \in Nat /\ Len(e.down) \in Nat /\ Len(e.down) # 0
      BY <1>2
    <3>3. \A a, b \in Nat : b # 0 /\ a + b <= a + 1 => b = 1
      OBVIOUS
    <3> QED
      BY <3>1, <3>2, <3>3
  <2>6. c = current => todo = <<>>
    <3>1. c = current => Len(todo) = 0
      BY <1>2, <1>4, <1>6, <2>1, <2>5
    <3> QED
      BY <1>2, <3>1
  <2> QED
    BY <1>2, <1>3, <1>7, <2>3, <2>4, <2>5, <2>6 DEF found
<1> QED
  BY <1>8, <1>9

\* A frame read is the next row of the answer, or its end.
LEMMA ReadFrameStep ==
    ASSUME GroundInv, NEW c \in Clients, ReadFrame(c)
    PROVE  GroundInv'
<1> DEFINE o == end[c]
           f == Head(o.down)
           e == [o EXCEPT !.down = Tail(@)]
           found == Rows(o.served, o.asked)
           frames == Answer(o.served, o.asked)
           n == Len(o.rows)
<1>1. /\ o.at = "reading" /\ o.down # <<>>
      /\ left' = left /\ queue' = queue
  BY DEF ReadFrame
<1>2. Becomes(c, IF f.tag = "DONE"
                 THEN [e EXCEPT !.at = IF f.count = Len(e.rows) THEN "menu" ELSE "failed", !.rows = <<>>]
                 ELSE IF f.tag = e.asked.list THEN [e EXCEPT !.rows = Append(@, f.ts)] ELSE e)
  BY DEF ReadFrame
<1>3. /\ GroundTypes /\ ConnInv /\ ClientInv(c)
      /\ o \in EndType /\ Len(o.down) <= SOCK_N
      /\ o.served \in Database /\ o.asked \in Requests /\ o.rows \in Seq(Times) /\ o.down \in Seq(Frame)
  BY DEF GroundInv, GroundTypes, EndType
<1>4. /\ ~o.pending /\ Len(o.down) \in Nat \ {0} /\ n \in Nat
      /\ \/ /\ f.tag = o.asked.list /\ f.tag # "DONE"
            /\ n < Len(found) /\ f.ts = found[n + 1] /\ f.ts \in Times
         \/ /\ f.tag = "DONE" /\ f.count = n
            /\ o.rows = found
            /\ Len(o.down) = 1 /\ (c = current => todo = <<>>)
  BY <1>1, NextFrame
<1>5. /\ Tail(o.down) \in Seq(Frame) /\ Len(Tail(o.down)) = Len(o.down) - 1
      /\ \A i \in 1 .. Len(o.down) - 1 : Tail(o.down)[i] = o.down[i + 1]
  BY <1>1, <1>3, HeadTailProperties
<1>6. /\ e \in EndType /\ e.at = o.at /\ e.asked = o.asked /\ e.pending = o.pending /\ e.rows = o.rows
      /\ e.cut = o.cut /\ e.served = o.served /\ e.down = Tail(o.down)
  BY <1>3, <1>5 DEF EndType
<1>7. SOCK_N \in Nat /\ Len(e.down) <= SOCK_N
  BY <1>3, <1>4, <1>5, <1>6, GroundAssumption
<1> HIDE DEF e
<1>8. CASE f.tag = "DONE"
  <2> DEFINE g == [e EXCEPT !.at = "menu", !.rows = <<>>]
  <2>1. Becomes(c, g)
    BY <1>2, <1>4, <1>6, <1>8
  <2>2. <<>> \in Seq(Times)
    BY EmptySeq
  <2>3. /\ g \in EndType /\ g.at = "menu" /\ g.rows = <<>> /\ g.asked = o.asked /\ g.pending = o.pending
        /\ g.cut = o.cut /\ g.served = o.served /\ g.down = Tail(o.down)
    BY <1>6, <2>2 DEF EndType
  <2> HIDE DEF g
  <2>4. g.down = <<>>
    <3>1. Tail(o.down) \in Seq(Frame) /\ Len(Tail(o.down)) = 0
      BY <1>4, <1>5, <1>8
    <3>2. \A s \in Seq(Frame) : Len(s) = 0 => s = <<>>
      BY EmptySeq
    <3> QED
      BY <2>3, <3>1, <3>2
  <2>5. c = current => todo = <<>>
    BY <1>4, <1>8
  <2>6. ASSUME end'[c] = g PROVE ClientInv(c)'
    <3>1. snap' = snap /\ current' = current /\ todo' = todo
      BY <2>1 DEF Becomes, process
    <3>2. ~o.cut => o.served = snap
      BY <1>1, <1>3 DEF ClientInv
    <3> QED
      BY <1>4, <2>3, <2>4, <2>5, <2>6, <3>1, <3>2 DEF ClientInv
  <2>7. Len(g.down) <= SOCK_N
    BY <1>6, <1>7, <2>3
  <2> QED
    BY <1>1, <2>1, <2>3, <2>6, <2>7, BecomesStep
<1>9. CASE f.tag # "DONE"
  <2> DEFINE g == [e EXCEPT !.rows = Append(@, f.ts)]
  <2>1. Becomes(c, g)
    BY <1>2, <1>4, <1>6, <1>9
  <2>2. n < Len(found) /\ f.ts = found[n + 1] /\ f.ts \in Times
    BY <1>4, <1>9
  <2>3. /\ Append(o.rows, f.ts) \in Seq(Times) /\ Len(Append(o.rows, f.ts)) = n + 1
        /\ \A i \in 1 .. n : Append(o.rows, f.ts)[i] = o.rows[i]
        /\ Append(o.rows, f.ts)[n + 1] = found[n + 1]
    BY <1>3, <2>2, AppendProperties
  <2>4. /\ g \in EndType /\ g.at = "reading" /\ g.rows = Append(o.rows, f.ts) /\ g.asked = o.asked
        /\ g.pending = o.pending /\ g.cut = o.cut /\ g.served = o.served /\ g.down = Tail(o.down)
    BY <1>1, <1>6, <2>3 DEF EndType
  <2> HIDE DEF g, f
  <2>5. /\ Started(o)
        /\ o.cut \/ (c = current /\ Remains(o, todo))
        /\ ~o.cut => o.served = snap
    BY <1>1, <1>3, <1>4 DEF ClientInv
  <2>6. /\ n <= Len(found) /\ \A i \in 1 .. n : o.rows[i] = found[i]
        /\ n + Len(o.down) <= Len(frames)
        /\ \A i \in 1 .. Len(o.down) : o.down[i] = frames[n + i]
    BY <2>5 DEF Started
  <2>7. Len(found) \in Nat /\ Len(frames) = Len(found) + 1
    BY <1>3, AnswerParts
  <2>8. Len(g.rows) = n + 1 /\ Len(g.down) = Len(o.down) - 1
    BY <1>5, <2>3, <2>4
  <2> HIDE DEF found, frames, n, o
  <2>9. n + 1 <= Len(found) /\ (n + 1) + (Len(o.down) - 1) = n + Len(o.down)
    <3>1. \A a, b, m \in Nat : (a < b => a + 1 <= b) /\ (a + 1) + (m - 1) = a + m
      OBVIOUS
    <3>2. n \in Nat /\ Len(found) \in Nat /\ Len(o.down) \in Nat /\ n < Len(found)
      BY <1>4, <2>2, <2>7
    <3> QED
      BY <3>1, <3>2
  <2>10. \A i \in 1 .. n + 1 : g.rows[i] = found[i]
    <3> SUFFICES ASSUME NEW i \in 1 .. n + 1 PROVE g.rows[i] = found[i]
      OBVIOUS
    <3>1. i \in 1 .. n \/ i = n + 1
      BY <1>4
    <3> QED
      BY <2>3, <2>4, <2>6, <3>1
  <2>11. \A i \in 1 .. Len(o.down) - 1 : g.down[i] = frames[(n + 1) + i]
    <3> SUFFICES ASSUME NEW i \in 1 .. Len(o.down) - 1 PROVE g.down[i] = frames[(n + 1) + i]
      OBVIOUS
    <3>1. i + 1 \in 1 .. Len(o.down) /\ (n + 1) + i = n + (i + 1)
      BY <1>4
    <3>2. o.down[i + 1] = frames[n + (i + 1)]
      BY <2>6, <3>1
    <3> QED
      BY <1>5, <2>4, <3>1, <3>2
  <2>12. Started(g)
    BY <2>4, <2>6, <2>8, <2>9, <2>10, <2>11 DEF Started, found, frames
  <2>13. Remains(o, todo) => Remains(g, todo)
    BY <2>4, <2>8, <2>9 DEF Remains, n, o
  <2>14. ASSUME end'[c] = g PROVE ClientInv(c)'
    <3>1. snap' = snap /\ current' = current /\ todo' = todo
      BY <2>1 DEF Becomes, process
    <3> QED
      BY <1>4, <2>4, <2>5, <2>12, <2>13, <2>14, <3>1 DEF ClientInv
  <2>15. Len(g.down) <= SOCK_N
    BY <1>6, <1>7, <2>4
  <2> QED
    BY <1>1, <2>1, <2>4, <2>14, <2>15, BecomesStep DEF o
<1> QED
  BY <1>8, <1>9

\* A client that learns of the server's end, or leaves.
LEMMA EndStep ==
    ASSUME GroundInv, NEW c \in Clients, ReadEnd(c) \/ Leave(c)
    PROVE  GroundInv'
<1>1. /\ GroundTypes /\ ConnInv /\ ClientInv(c) /\ end[c] \in EndType
      /\ left' = left /\ queue' = queue
      /\ end[c].at # "off"
  BY DEF GroundInv, GroundTypes, ReadEnd, Leave
<1>2. CASE end[c].cut
  <2>1. Becomes(c, Off)
    BY <1>2 DEF ReadEnd, Leave
  <2>2. ASSUME end'[c] = Off PROVE ClientInv(c)'
    BY <2>2, OffTyped DEF ClientInv
  <2> QED
    BY <1>1, <1>2, <2>1, <2>2, OffTyped, BecomesStep
<1>3. CASE ~end[c].cut
  <2> DEFINE e == [end[c] EXCEPT !.at = "left", !.down = <<>>, !.rows = <<>>]
  <2>1. Becomes(c, e)
    BY <1>3 DEF ReadEnd, Leave
  <2>2. <<>> \in Seq(Frame) /\ <<>> \in Seq(Times) /\ Len(<<>>) = 0
    BY EmptySeq
  <2>3. e \in EndType /\ e.at = "left" /\ e.cut = end[c].cut /\ e.down = <<>>
    BY <1>1, <2>2 DEF EndType
  <2>4. Len(e.down) <= SOCK_N
    BY <2>2, <2>3, GroundAssumption
  <2> HIDE DEF e
  <2>5. ASSUME end'[c] = e PROVE ClientInv(c)'
    BY <2>3, <2>5 DEF ClientInv
  <2> QED
    BY <1>1, <2>1, <2>3, <2>4, <2>5, BecomesStep
<1> QED
  BY <1>2, <1>3

\* Nothing changes.
LEMMA StutterStep == GroundInv /\ UNCHANGED vars => GroundInv'
<1> SUFFICES ASSUME GroundInv, UNCHANGED vars PROVE GroundInv'
  OBVIOUS
<1>1. UNCHANGED <<dbVars, left, process, queue, current, todo, end>>
  BY DEF vars, conns
<1>2. /\ GroundTypes /\ ConnInv /\ \A c \in Clients : ClientInv(c)
      /\ DbInv' /\ LoadInv'
      /\ server' = server /\ snap' = snap
  BY <1>1, LeftAlone
<1>3. GroundTypes'
  BY <1>1, <1>2 DEF GroundTypes
<1>4. ConnInv'
  BY <1>1, <1>2 DEF ConnInv
<1>5. \A c \in Clients : ClientInv(c)'
  BY <1>1, <1>2, ClientSame
<1> QED
  BY <1>2, <1>3, <1>4, <1>5 DEF GroundInv

\* All steps together.
LEMMA GroundStep == GroundInv /\ [Next]_vars => GroundInv'
<1> SUFFICES ASSUME GroundInv, [Next]_vars PROVE GroundInv'
  OBVIOUS
<1>1. CASE Session
  BY <1>1, SessionStep
<1>2. CASE ServerStart \/ ServerLoad \/ ServerListen
  BY <1>2, StartStep
<1>3. CASE Accept
  BY <1>3, AcceptStep
<1>4. CASE Handle
  BY <1>4, HandleStep
<1>5. CASE Write
  BY <1>5, WriteStep
<1>6. CASE HangUp
  BY <1>6, CloseStep DEF HangUp
<1>7. CASE WriteToLeft
  BY <1>7, WriteToLeftStep
<1>8. CASE ServerStop
  BY <1>8, DieStep DEF ServerStop
<1>9. ASSUME NEW c \in Clients, Connect(c) \/ Ask(c) \/ ReadFrame(c) \/ ReadEnd(c) \/ Leave(c)
      PROVE  GroundInv'
  BY <1>9, ConnectStep, AskStep, ReadFrameStep, EndStep
<1>10. CASE UNCHANGED vars
  BY <1>10, StutterStep
<1> QED
  BY <1>1, <1>2, <1>3, <1>4, <1>5, <1>6, <1>7, <1>8, <1>9, <1>10 DEF Next, Server

----------------------------------------------------------------------------
(* The theorems *)

\* Whatever the session's program, the server and the clients do.
THEOREM GroundInvariant == Spec => []GroundInv
<1>1. Init => GroundInv
  BY GroundInit
<1>2. GroundInv /\ [Next]_vars => GroundInv'
  BY GroundStep
<1> QED
  BY <1>1, <1>2, PTL DEF Spec

\* Types of the state; whoever is connected is being served or in the queue
\* (serveForever handles one connection at a time), and nobody is in it twice.
THEOREM TypeInvariant == Spec => []TypeOK
<1>1. GroundInv => TypeOK
  <2> SUFFICES ASSUME GroundInv PROVE TypeOK
    OBVIOUS
  <2>1. GroundTypes /\ DbTypeOK /\ ConnInv
    BY DEF GroundInv, DbInv
  <2>2. ToSet(queue) = { queue[i] : i \in 1 .. Len(queue) }
    BY <2>1, LenProperties DEF GroundTypes, ToSet
  <2>3. ASSUME NEW c \in Clients
        PROVE  /\ end[c].at \in {"off", "menu", "reading", "left", "failed"}
               /\ end[c].asked \in Requests
               /\ end[c].down \in Seq(Frame) /\ Len(end[c].down) <= SOCK_N
               /\ end[c].rows \in Seq(Times)
               /\ end[c].at # "off" /\ ~end[c].cut <=> c = current \/ c \in ToSet(queue)
    BY <2>1, <2>2 DEF GroundTypes, EndType, ConnInv
  <2>4. current # None => server = "up"
    BY <2>1 DEF ConnInv
  <2> QED
    BY <2>1, <2>3, <2>4 DEF TypeOK, GroundTypes, Database
<1> QED
  BY <1>1, GroundInvariant, PTL

\* The database is the last week of what the session was given, in order,
\* although prune looks only at what it has kept.
THEOREM WeekInOrder == Spec => []DbIsWindow
<1>1. GroundInv => DbIsWindow
  BY DEF GroundInv, DbInv
<1> QED
  BY <1>1, GroundInvariant, PTL

\* A server that loaded a complete save while nobody wrote serves what was
\* saved, as it was saved: loadCsv prunes nothing of it.
THEOREM SavedIsServed == Spec => []ServedIsSaved
<1>1. GroundInv => ServedIsSaved
  BY DEF GroundInv, LoadInv, ServedIsSaved
<1> QED
  BY <1>1, GroundInvariant, PTL

\* An answer that getLog or getEvents takes for complete is what the server had
\* of the range, whole and in order, and no complete one is refused.
THEOREM CompleteAnswers == Spec => AnswerWhole
<1> DEFINE Whole(c) ==
        end[c].at = "reading" =>
            /\ end'[c].at # "failed"
            /\ end'[c].at = "menu" => end[c].rows = Rows(end[c].served, end[c].asked)
<1>1. ASSUME GroundInv, [Next]_vars, NEW c \in Clients, end[c].at = "reading"
      PROVE  /\ end'[c].at # "failed"
             /\ end'[c].at = "menu" => end[c].rows = Rows(end[c].served, end[c].asked)
  <2>1. /\ GroundTypes /\ ConnInv /\ end \in [Clients -> EndType] /\ current \in Clients \cup {None}
        /\ None \notin Clients
    BY <1>1, Typed DEF GroundInv, GroundTypes
  <2>2. SUFFICES ASSUME end'[c] # end[c]
                 PROVE  \/ end'[c].at \in {"reading", "off", "left"}
                        \/ end'[c].at = "menu" /\ end[c].rows = Rows(end[c].served, end[c].asked)
    BY <1>1
  <2>3. CASE \/ Session \/ ServerStart \/ ServerLoad \/ ServerListen \/ Accept \/ UNCHANGED vars
    BY <2>2, <2>3 DEF Session, ServerStart, ServerLoad, ServerListen, Accept, vars
  <2>4. CASE Handle \/ Write
    <3>1. /\ current \in Clients
          /\ \/ end' = [end EXCEPT ![current].pending = FALSE]
             \/ end' = [end EXCEPT ![current].down = Append(@, Head(todo))]
      BY <2>1, <2>4 DEF Handle, Write
    <3>2. end'[c].at = end[c].at
      <4>1. end[c] \in EndType /\ end[current] \in EndType
        BY <2>1, <3>1
      <4>2. CASE c # current
        BY <2>1, <3>1, <4>2
      <4>3. CASE c = current
        <5>1. \/ end'[c] = [end[c] EXCEPT !.pending = FALSE]
              \/ end'[c] = [end[c] EXCEPT !.down = Append(@, Head(todo))]
          BY <2>1, <3>1, <4>3
        <5> QED
          BY <4>1, <5>1 DEF EndType
      <4> QED
        BY <4>2, <4>3
    <3> QED
      BY <1>1, <3>2
  <2>5. ASSUME current # None, CloseCurrent PROVE end'[c].at = "off"
    BY <2>1, <2>2, <2>5, OffTyped DEF CloseCurrent
  <2>6. ASSUME Die PROVE end'[c].at \in {"reading", "off"}
    <3>1. end'[c] = Off \/ end'[c] = [end[c] EXCEPT !.cut = TRUE]
      BY <2>6 DEF Die
    <3>2. end[c] \in EndType
      BY <2>1
    <3> QED
      BY <1>1, <3>1, <3>2, OffTyped DEF EndType
  <2>7. CASE HangUp \/ WriteToLeft \/ ServerStop
    BY <2>2, <2>5, <2>6, <2>7 DEF HangUp, WriteToLeft, ServerStop
  <2>8. ASSUME NEW d \in Clients, NEW e, Becomes(d, e) PROVE d = c /\ end'[c] = e
    BY <2>1, <2>2, <2>8 DEF Becomes
  <2>9. ASSUME NEW d \in Clients, Connect(d) \/ Ask(d) PROVE FALSE
    BY <1>1, <2>8, <2>9 DEF Connect, Ask
  <2>10. ASSUME NEW d \in Clients, ReadEnd(d) \/ Leave(d) PROVE end'[c].at \in {"off", "left"}
    <3>1. end'[c] = Off \/ end'[c] = [end[c] EXCEPT !.at = "left", !.down = <<>>, !.rows = <<>>]
      BY <2>8, <2>10 DEF ReadEnd, Leave
    <3>2. end[c] \in EndType
      BY <2>1
    <3> QED
      BY <3>1, <3>2, OffTyped DEF EndType
  <2>11. ASSUME NEW d \in Clients, ReadFrame(d)
         PROVE  \/ end'[c].at = "reading"
                \/ end'[c].at = "menu" /\ end[c].rows = Rows(end[c].served, end[c].asked)
    <3> DEFINE o == end[c]
               f == Head(o.down)
               e == [o EXCEPT !.down = Tail(@)]
    <3>1. /\ d = c /\ o.down # <<>>
          /\ end'[c] = IF f.tag = "DONE"
                       THEN [e EXCEPT !.at = IF f.count = Len(e.rows) THEN "menu" ELSE "failed", !.rows = <<>>]
                       ELSE IF f.tag = e.asked.list THEN [e EXCEPT !.rows = Append(@, f.ts)] ELSE e
      BY <2>8, <2>11 DEF ReadFrame
    <3>2. \/ f.tag # "DONE"
          \/ f.tag = "DONE" /\ f.count = Len(o.rows) /\ o.rows = Rows(o.served, o.asked)
      BY <1>1, <3>1, NextFrame
    <3>3. o \in EndType
      BY <2>1
    <3>4. "at" \in DOMAIN e /\ e.at = o.at /\ e.rows = o.rows
      BY <3>3 DEF EndType
    <3> HIDE DEF e, f
    <3> QED
      BY <1>1, <3>1, <3>2, <3>4
  <2> QED
    BY <1>1, <2>3, <2>4, <2>7, <2>9, <2>10, <2>11 DEF Next, Server
<1>2. GroundInv /\ [Next]_vars => \A c \in Clients : Whole(c)
  BY <1>1
<1>3. GroundInv /\ [Next]_vars =>
        [\A c \in Clients :
           end[c].at = "reading" =>
               /\ end'[c].at # "failed"
               /\ end'[c].at = "menu" => end[c].rows = Rows(end[c].served, end[c].asked)]_vars
  BY <1>2
<1> QED
  BY <1>3, GroundInvariant, PTL DEF Spec, AnswerWhole

\* What counts as a complete save is the last week of what that session was
\* given until then, in order: nothing else ever becomes what a server may load.
THEOREM SavesAreWeeks ==
    Spec => [][saved' # saved =>
                  /\ intact' /\ disk' = saved'
                  /\ \A l \in Lists : saved'[l] = Only(heard[l], Window(heard))]_vars
<1>1. ASSUME GroundInv, GroundInv', [Next]_vars, saved' # saved
      PROVE  /\ intact' /\ disk' = saved'
             /\ \A l \in Lists : saved'[l] = Only(heard[l], Window(heard))
  <2>1. DbNext
    <3>1. CASE \E c \in Clients : Connect(c) \/ Ask(c) \/ ReadFrame(c) \/ ReadEnd(c) \/ Leave(c)
      BY <1>1, <3>1 DEF Connect, Ask, ReadFrame, ReadEnd, Leave, Becomes, dbVars
    <3>2. CASE Server \/ ServerStart \/ ServerStop
      BY <1>1, <3>2 DEF Server, ServerStart, ServerStop, ServerLoad, ServerListen, Accept, Handle, Write,
                        HangUp, WriteToLeft, CloseCurrent, Die, dbVars
    <3>3. CASE UNCHANGED vars
      BY <1>1, <3>3 DEF vars, dbVars
    <3> QED
      BY <1>1, <3>1, <3>2, <3>3 DEF Next, Session
  <2>2. SaveCloseMeas
    BY <1>1, <2>1 DEF DbNext, Add, NewSession, SaveOpenMeas, SaveFails, SaveOpenEvents, SaveWrite, SaveCloseEvents
  <2>3. saved' = db /\ intact' = TRUE
    BY <1>1, <2>2 DEF SaveCloseMeas
  <2>4. disk' = saved'
    BY <1>1, <2>3 DEF GroundInv, DbInv, SaveInv
  <2>5. \A l \in Lists : db[l] = Only(heard[l], Window(heard))
    BY <1>1, WindowOfHeard DEF GroundInv, DbInv
  <2> QED
    BY <2>3, <2>4, <2>5
<1>2. GroundInv /\ GroundInv' /\ [Next]_vars =>
          [saved' # saved =>
              /\ intact' /\ disk' = saved'
              /\ \A l \in Lists : saved'[l] = Only(heard[l], Window(heard))]_vars
  BY <1>1
<1> QED
  BY <1>2, GroundInvariant, PTL DEF Spec

\* From the files to the ground station: while the server is there that loaded
\* a complete save, a complete answer is what that save has of the range, whole
\* and in order.
THEOREM AnswersAreSaved ==
    Spec => [][\A c \in Clients :
                  base # {} /\ ~end[c].cut /\ end[c].at = "reading" /\ end'[c].at = "menu" =>
                      \E b \in base : base = {b} /\ end[c].rows = Rows(b, end[c].asked)]_vars
<1> DEFINE Whole(c) ==
        end[c].at = "reading" =>
            /\ end'[c].at # "failed"
            /\ end'[c].at = "menu" => end[c].rows = Rows(end[c].served, end[c].asked)
           OfSave(c) ==
        base # {} /\ ~end[c].cut /\ end[c].at = "reading" /\ end'[c].at = "menu" =>
            \E b \in base : base = {b} /\ end[c].rows = Rows(b, end[c].asked)
<1>1. ASSUME GroundInv, NEW c \in Clients, Whole(c),
             base # {}, ~end[c].cut, end[c].at = "reading", end'[c].at = "menu"
      PROVE  \E b \in base : base = {b} /\ end[c].rows = Rows(b, end[c].asked)
  <2>1. end[c].served = snap
    BY <1>1 DEF GroundInv, ClientInv
  <2>2. server = "up"
    <3>1. end[c].at # "off"
      BY <1>1
    <3>2. c = current \/ \E i \in 1 .. Len(queue) : queue[i] = c
      BY <1>1, <3>1 DEF GroundInv, ConnInv
    <3>3. queue # <<>> \/ current # None
      <4>1. c # None
        BY GroundAssumption DEF None
      <4>2. Len(<<>>) = 0 /\ 1 .. 0 = {}
        BY EmptySeq
      <4> QED
        BY <3>2, <4>1, <4>2
    <3> QED
      BY <1>1, <3>3 DEF GroundInv, ConnInv
  <2>3. PICK b \in base : base = {b} /\ snap = b
    BY <1>1, <2>2 DEF GroundInv, LoadInv
  <2> QED
    BY <1>1, <2>1, <2>3
<1>2. GroundInv /\ [\A c \in Clients : Whole(c)]_vars => [\A c \in Clients : OfSave(c)]_vars
  <2> SUFFICES ASSUME GroundInv, \A c \in Clients : Whole(c) PROVE \A c \in Clients : OfSave(c)
    OBVIOUS
  <2> QED
    BY <1>1
<1>3. Spec => [][\A c \in Clients : Whole(c)]_vars
  BY CompleteAnswers DEF AnswerWhole
<1> QED
  BY <1>2, <1>3, GroundInvariant, PTL
=============================================================================
