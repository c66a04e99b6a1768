--------------------------- MODULE FramingProofs ---------------------------
(***************************************************************************)
(* Theorems about Framing, for any messages and any buffer: as long as TCP *)
(* cuts the bytes where receive can put them together, no byte is lost and *)
(* each call of receive handles the next message.                          *)
(***************************************************************************)
EXTENDS Framing, SequenceTheorems, FiniteSetTheorems, TLAPS

-----------------------------------------------------------------------------
(* Natural numbers.                                                        *)

\* Induction, for a set: otherwise there is a shortest interval that leaves it.
LEMMA NaturalsBySteps ==
    ASSUME NEW T, 0 \in T, \A n \in Nat : n \in T => n + 1 \in T
    PROVE  \A n \in Nat : n \in T
<1> SUFFICES ASSUME NEW n \in Nat, n \notin T PROVE FALSE
  OBVIOUS
<1> DEFINE S == 0 .. n
           Bad == {U \in SUBSET S : \E k \in 0 .. n : k \notin T /\ U = 0 .. k}
<1>1. IsFiniteSet(S)
  BY FS_Interval
<1>2. Bad \subseteq FiniteSubsetsOf(S)
  BY <1>1, FS_Subset DEF FiniteSubsetsOf
<1>3. S \in Bad
  OBVIOUS
<1>4. PICK U \in Bad : \A V \in Bad : ~ (<<V, U>> \in StrictSubsetOrdering(S))
  BY <1>2, <1>3, FS_StrictSubsetOrderingWellFounded, WFMin
<1>5. PICK k \in 0 .. n : k \notin T /\ U = 0 .. k
  OBVIOUS
<1>6. k # 0 /\ k - 1 \in Nat /\ k - 1 \in 0 .. n
  BY <1>5
<1>7. k - 1 \notin T
  <2>1. (k - 1) + 1 = k
    BY <1>6
  <2> QED
    BY <1>5, <1>6, <2>1
<1> DEFINE V == 0 .. k - 1
<1>8. V \in Bad
  BY <1>6, <1>7
<1>9. V \subseteq U /\ k \in U /\ k \notin V
  BY <1>5, <1>6
<1> QED
  BY <1>4, <1>8, <1>9 DEF StrictSubsetOrdering

LEMMA MinOfNaturals ==
    ASSUME NEW S \in SUBSET Nat, S # {}
    PROVE  Min(S) \in S /\ \A n \in S : Min(S) <= n
<1> DEFINE HasMin == \E m \in S : \A n \in S : m <= n
           T == {n \in Nat : (\E m \in S : m <= n) => HasMin}
<1>1. 0 \in T
  OBVIOUS
<1>2. ASSUME NEW n \in Nat, n \in T PROVE n + 1 \in T
  <2> SUFFICES ASSUME NEW m \in S, m <= n + 1, ~ \E k \in S : k <= n
               PROVE  HasMin
    BY <1>2
  <2>1. m = n + 1 /\ \A k \in S : m <= k
    OBVIOUS
  <2> QED
    BY <2>1
<1>3. PICK n \in S : TRUE
  OBVIOUS
<1>4. n \in Nat /\ n <= n
  BY <1>3
<1>5. n \in T
  <2> HIDE DEF T
  <2> QED
    BY <1>1, <1>2, <1>4, NaturalsBySteps
<1>6. HasMin
  BY <1>3, <1>4, <1>5
<1> QED
  BY <1>6 DEF Min
-----------------------------------------------------------------------------
(* Sequences that are put end to end.                                      *)

\* f puts the first sequences of s end to end.
Joins(f, s) ==
    f = [i \in 1 .. Len(s) |-> IF i = 1 THEN s[i] ELSE f[i - 1] \o s[i]]

LEMMA JoinsExists ==
    ASSUME NEW S, NEW s \in Seq(Seq(S))
    PROVE  \E f : Joins(f, s)
<1> DEFINE P(f, n) ==
              /\ DOMAIN f = 1 .. n
              /\ \A i \in 1 .. n : f[i] = IF i = 1 THEN s[i] ELSE f[i - 1] \o s[i]
           T == {n \in Nat : \E f : P(f, n)}
<1>1. 0 \in T
  <2>1. P([i \in 1 .. 0 |-> s[i]], 0)
    OBVIOUS
  <2> QED
    BY <2>1
<1>2. ASSUME NEW n \in Nat, n \in T PROVE n + 1 \in T
  <2>1. PICK f : P(f, n)
    BY <1>2
  <2> DEFINE g == [i \in 1 .. n + 1 |-> IF i = n + 1
                                        THEN IF i = 1 THEN s[i] ELSE f[n] \o s[i]
                                        ELSE f[i]]
  <2>2. DOMAIN g = 1 .. n + 1
    OBVIOUS
  <2>3. ASSUME NEW i \in 1 .. n + 1
        PROVE  g[i] = IF i = 1 THEN s[i] ELSE g[i - 1] \o s[i]
    <3>1. CASE i = n + 1 /\ i # 1
      <4>1. n \in 1 .. n + 1 /\ n # n + 1 /\ i - 1 = n
        BY <3>1
      <4>2. g[n] = f[n]
        BY <4>1
      <4> QED
        BY <3>1, <4>1, <4>2
    <3>2. CASE i # n + 1 /\ i # 1
      <4>1. i \in 1 .. n /\ i - 1 \in 1 .. n + 1 /\ i - 1 # n + 1
        BY <3>2
      <4>2. g[i] = f[i] /\ g[i - 1] = f[i - 1]
        BY <4>1
      <4> QED
        BY <2>1, <3>2, <4>1, <4>2
    <3>3. CASE i = 1 /\ n = 0
      BY <3>3
    <3>4. CASE i = 1 /\ n # 0
      <4>1. i \in 1 .. n /\ i # n + 1
        BY <3>4
      <4>2. g[i] = f[i] /\ f[i] = s[i]
        BY <2>1, <3>4, <4>1
      <4> QED
        BY <3>4, <4>2
    <3> QED
      BY <3>1, <3>2, <3>3, <3>4
  <2> HIDE DEF g
  <2>4. P(g, n + 1)
    BY <2>2, <2>3
  <2>5. \E h : P(h, n + 1)
    BY <2>4
  <2> HIDE DEF P
  <2> QED
    BY <2>5
<1>3. Len(s) \in T
  <2> HIDE DEF T
  <2> QED
    BY <1>1, <1>2, NaturalsBySteps
<1>4. PICK f : P(f, Len(s))
  BY <1>3
<1> DEFINE g == [i \in 1 .. Len(s) |-> f[i]]
<1>5. \A i \in 1 .. Len(s) : i = 1 \/ i - 1 \in 1 .. Len(s)
  OBVIOUS
<1>6. \A i \in 1 .. Len(s) : g[i] = IF i = 1 THEN s[i] ELSE g[i - 1] \o s[i]
  BY <1>4, <1>5
<1>7. Joins(g, s)
  <2>1. DOMAIN g = 1 .. Len(s) /\ g = [i \in 1 .. Len(s) |-> g[i]]
    OBVIOUS
  <2> HIDE DEF g
  <2> QED
    BY <1>6, <2>1 DEF Joins
<1> QED
  BY <1>7

\* What a function that joins returns, type and value.
LEMMA JoinsValues ==
    ASSUME NEW S, NEW s \in Seq(Seq(S)), NEW f, Joins(f, s)
    PROVE  \A i \in 1 .. Len(s) :
              /\ f[i] \in Seq(S)
              /\ f[i] = IF i = 1 THEN s[i] ELSE f[i - 1] \o s[i]
<1>1. \A i \in 1 .. Len(s) : f[i] = IF i = 1 THEN s[i] ELSE f[i - 1] \o s[i]
  BY DEF Joins
<1> DEFINE T == {n \in Nat : n \in 1 .. Len(s) => f[n] \in Seq(S)}
<1>2. 0 \in T
  OBVIOUS
<1>3. ASSUME NEW n \in Nat, n \in T PROVE n + 1 \in T
  <2> SUFFICES ASSUME n + 1 \in 1 .. Len(s) PROVE f[n + 1] \in Seq(S)
    OBVIOUS
  <2>1. s[n + 1] \in Seq(S)
    OBVIOUS
  <2>2. CASE n = 0
    BY <1>1, <2>1, <2>2
  <2>3. CASE n # 0
    <3>1. n \in 1 .. Len(s) /\ n + 1 # 1 /\ (n + 1) - 1 = n
      BY <2>3
    <3>2. f[n] \in Seq(S) /\ f[n + 1] = f[n] \o s[n + 1]
      BY <1>1, <1>3, <3>1
    <3> QED
      BY <2>1, <3>2
  <2> QED
    BY <2>2, <2>3
<1>4. \A n \in Nat : n \in T
  <2> HIDE DEF T
  <2> QED
    BY <1>2, <1>3, NaturalsBySteps
<1> QED
  BY <1>1, <1>4

LEMMA FlattenValue ==
    ASSUME NEW S, NEW s \in Seq(Seq(S)), s # <<>>
    PROVE  \E f : Joins(f, s) /\ FlattenSeq(s) = f[Len(s)]
<1> DEFINE f == CHOOSE g : Joins(g, s)
<1>1. Joins(f, s)
  BY JoinsExists
<1>2. FlattenSeq(s) = f[Len(s)]
  BY DEF FlattenSeq, Joins
<1> QED
  BY <1>1, <1>2
\* Sequences that agree are joined alike, as far as they agree.
LEMMA FlattenAppend ==
    ASSUME NEW S, NEW s \in Seq(Seq(S)), NEW x \in Seq(S)
    PROVE  FlattenSeq(s) \in Seq(S) /\ FlattenSeq(Append(s, x)) = FlattenSeq(s) \o x
<1> DEFINE s2 == Append(s, x)
<1>1. s2 \in Seq(Seq(S)) /\ s2 # <<>> /\ Len(s2) = Len(s) + 1 /\ s2[Len(s) + 1] = x
      /\ \A i \in 1 .. Len(s) : s2[i] = s[i]
  BY AppendProperties
<1> HIDE DEF s2
<1>2. PICK g : Joins(g, s2) /\ FlattenSeq(s2) = g[Len(s2)]
  BY <1>1, FlattenValue
<1>3. \A i \in 1 .. Len(s2) : g[i] = IF i = 1 THEN s2[i] ELSE g[i - 1] \o s2[i]
  <2>1. s2 \in Seq(Seq(S)) /\ Joins(g, s2)
    BY <1>1, <1>2
  <2>2. \A i \in 1 .. Len(s2) :
              /\ g[i] \in Seq(S)
              /\ g[i] = IF i = 1 THEN s2[i] ELSE g[i - 1] \o s2[i]
    BY ONLY <2>1, JoinsValues
  <2> QED
    BY ONLY <2>2
<1>4. CASE s = <<>>
  <2>1. FlattenSeq(s) = <<>>
    BY <1>4 DEF FlattenSeq
  <2>2. FlattenSeq(s2) = x
    BY <1>1, <1>2, <1>3, <1>4
  <2> QED
    BY <2>1, <2>2, ConcatEmptySeq, EmptySeq DEF s2
<1>5. CASE s # <<>>
  <2>1. PICK f : Joins(f, s) /\ FlattenSeq(s) = f[Len(s)]
    BY <1>5, FlattenValue
  <2>2. \A i \in 1 .. Len(s) : /\ f[i] \in Seq(S)
                               /\ f[i] = IF i = 1 THEN s[i] ELSE f[i - 1] \o s[i]
    BY <2>1, JoinsValues
  <2> DEFINE T == {n \in Nat : n \in 1 .. Len(s) => f[n] = g[n]}
  <2>3. 0 \in T
    OBVIOUS
  <2>4. ASSUME NEW n \in Nat, n \in T PROVE n + 1 \in T
    <3> SUFFICES ASSUME n + 1 \in 1 .. Len(s) PROVE f[n + 1] = g[n + 1]
      OBVIOUS
    <3>1. n + 1 \in 1 .. Len(s2) /\ s2[n + 1] = s[n + 1]
      BY <1>1
    <3>2. CASE n = 0
      BY <1>3, <2>2, <3>1, <3>2
    <3>3. CASE n # 0
      <4>1. n \in 1 .. Len(s) /\ n + 1 # 1 /\ (n + 1) - 1 = n
        BY <3>3
      <4>2. f[n + 1] = f[n] \o s[n + 1] /\ g[n + 1] = g[n] \o s2[n + 1]
        BY <1>3, <2>2, <3>1, <4>1
      <4> QED
        BY <2>4, <3>1, <4>1, <4>2
    <3> QED
      BY <3>2, <3>3
  <2>5. \A n \in Nat : n \in T
    <3> HIDE DEF T
    <3> QED
      BY <2>3, <2>4, NaturalsBySteps
  <2>6. Len(s) \in 1 .. Len(s) /\ Len(s) \in Nat /\ Len(s) + 1 \in 1 .. Len(s2)
        /\ Len(s) + 1 # 1 /\ (Len(s) + 1) - 1 = Len(s)
    BY <1>1, <1>5, EmptySeq
  <2>7. f[Len(s)] = g[Len(s)] /\ f[Len(s)] \in Seq(S)
    BY <2>2, <2>5, <2>6
  <2>8. g[Len(s) + 1] = g[Len(s)] \o x
    BY <1>1, <1>3, <2>6
  <2> QED
    BY <1>1, <1>2, <2>1, <2>7, <2>8 DEF s2
<1> QED
  BY <1>4, <1>5

LEMMA FlattenHead ==
    ASSUME NEW S, NEW t \in Seq(Seq(S)), NEW x \in Seq(S),
           NEW s \in Seq(Seq(S)), Len(s) = Len(t) + 1, s[1] = x,
           \A i \in 1 .. Len(t) : s[i + 1] = t[i]
    PROVE  FlattenSeq(s) = x \o FlattenSeq(t)
<1>1. PICK g : Joins(g, s) /\ FlattenSeq(s) = g[Len(s)]
  <2>1. s # <<>>
    OBVIOUS
  <2> QED
    BY <2>1, FlattenValue
<1>2. \A i \in 1 .. Len(s) : g[i] = IF i = 1 THEN s[i] ELSE g[i - 1] \o s[i]
  BY <1>1, JoinsValues
<1>3. g[1] = x
  BY <1>2
<1>4. CASE t = <<>>
  <2>1. FlattenSeq(t) = <<>>
    BY <1>4 DEF FlattenSeq
  <2> QED
    BY <1>1, <1>3, <1>4, <2>1, ConcatEmptySeq
<1>5. CASE t # <<>>
  <2>1. PICK f : Joins(f, t) /\ FlattenSeq(t) = f[Len(t)]
    BY <1>5, FlattenValue
  <2>2. \A i \in 1 .. Len(t) : /\ f[i] \in Seq(S)
                               /\ f[i] = IF i = 1 THEN t[i] ELSE f[i - 1] \o t[i]
    BY <2>1, JoinsValues
  <2> DEFINE T == {n \in Nat : n \in 1 .. Len(t) => g[n + 1] = x \o f[n]}
  <2>3. 0 \in T
    OBVIOUS
  <2>4. ASSUME NEW n \in Nat, n \in T PROVE n + 1 \in T
    <3> SUFFICES ASSUME n + 1 \in 1 .. Len(t)
                 PROVE  g[(n + 1) + 1] = x \o f[n + 1]
      BY SMTT(30)
    <3>1. /\ (n + 1) + 1 \in 1 .. Len(s) /\ (n + 1) + 1 # 1
          /\ ((n + 1) + 1) - 1 = n + 1
      OBVIOUS
    <3>2. g[(n + 1) + 1] = g[n + 1] \o t[n + 1]
      BY <1>2, <3>1
    <3>3. CASE n = 0
      <4>1. g[n + 1] = x
        BY <1>3, <3>3
      <4>2. f[n + 1] = t[n + 1]
        BY <2>2, <3>3
      <4> QED
        BY <3>2, <4>1, <4>2
    <3>4. CASE n # 0
      <4>1. n \in 1 .. Len(t) /\ n + 1 # 1 /\ (n + 1) - 1 = n
        BY <3>4
      <4> HIDE DEF T
      <4>2. f[n + 1] = f[n] \o t[n + 1] /\ f[n] \in Seq(S)
        BY <2>2, <4>1
      <4>5. t[n + 1] \in Seq(S)
        OBVIOUS
      <4>3. g[n + 1] = x \o f[n]
        BY <2>4, <4>1 DEF T
      <4>4. (x \o f[n]) \o t[n + 1] = x \o (f[n] \o t[n + 1])
        <5>1. PICK a \in Seq(S) : a = f[n]
          BY <4>2
        <5>2. PICK b \in Seq(S) : b = t[n + 1]
          BY <4>5
        <5>3. (x \o a) \o b = x \o (a \o b)
          BY ONLY SMTT(60), a \in Seq(S), b \in Seq(S), x \in Seq(S), ConcatAssociative
        <5> QED
          BY <5>1, <5>2, <5>3
      <4> QED
        BY <3>2, <4>2, <4>3, <4>4
    <3> QED
      BY <3>3, <3>4
  <2>5. \A n \in Nat : n \in T
    <3> HIDE DEF T
    <3> QED
      BY <2>3, <2>4, NaturalsBySteps
  <2>6. Len(t) \in 1 .. Len(t) /\ Len(t) \in Nat
    BY <1>5, EmptySeq
  <2>7. g[Len(t) + 1] = x \o f[Len(t)]
    BY <2>5, <2>6
  <2> QED
    BY <1>1, <2>1, <2>7
<1> QED
  BY <1>4, <1>5-----------------------------------------------------------------------------
(* Lines.                                                                  *)

LEMMA CutAtElement ==
    ASSUME NEW S, NEW s \in Seq(S), NEW x \in S, NEW t \in Seq(S)
    PROVE  LET b == (s \o <<x>>) \o t
           IN  /\ b \in Seq(S) /\ Len(b) = Len(s) + 1 + Len(t)
               /\ b[Len(s) + 1] = x
               /\ \A i \in 1 .. Len(s) : b[i] = s[i]
               /\ \A i \in 1 .. Len(t) : b[Len(s) + 1 + i] = t[i]
OBVIOUS

\* What comes before the first newline of a terminated text is the text and its
\* escape character.
LEMMA FirstLineEnds ==
    ASSUME NEW S, NEW e \in S, NEW nl \in S, e # nl,
           NEW t \in Seq(S), \A i \in 1 .. Len(t) : t[i] # nl,
           NEW r \in Seq(S), NEW q \in Seq(S), \A i \in 1 .. Len(q) : q[i] # nl,
           NEW u \in Seq(S), (q \o <<nl>>) \o u = (t \o <<e, nl>>) \o r
    PROVE  q = Append(t, e) /\ u = r
<1> DEFINE a == (q \o <<nl>>) \o u
           b == (t \o <<e, nl>>) \o r
<1>1. /\ Len(a) = Len(q) + 1 + Len(u)
      /\ a[Len(q) + 1] = nl
      /\ \A i \in 1 .. Len(q) : a[i] = q[i]
      /\ \A i \in 1 .. Len(u) : a[Len(q) + 1 + i] = u[i]
  OBVIOUS
<1>2. /\ Len(b) = Len(t) + 2 + Len(r)
      /\ b[Len(t) + 1] = e
      /\ b[Len(t) + 2] = nl
      /\ \A i \in 1 .. Len(t) : b[i] = t[i]
      /\ \A i \in 1 .. Len(r) : b[Len(t) + 2 + i] = r[i]
  OBVIOUS
<1>3. a = b
  OBVIOUS
<1> HIDE DEF a, b
<1>4. Len(q) \in Nat /\ Len(t) \in Nat /\ Len(u) \in Nat /\ Len(r) \in Nat
  OBVIOUS
<1>5. Len(q) = Len(t) + 1
  <2>1. CASE Len(q) < Len(t)
    <3>1. Len(q) + 1 \in 1 .. Len(t)
      BY <1>4, <2>1
    <3> QED
      BY <1>1, <1>2, <1>3, <3>1
  <2>2. CASE Len(q) = Len(t)
    BY <1>1, <1>2, <1>3, <2>2
  <2>3. CASE Len(q) > Len(t) + 1
    <3>1. Len(t) + 2 \in 1 .. Len(q)
      BY <1>4, <2>3
    <3> QED
      BY <1>1, <1>2, <1>3, <3>1
  <2> QED
    BY <1>4, <2>1, <2>2, <2>3
<1>6. q = Append(t, e)
  <2> DEFINE p == Append(t, e)
  <2>1. /\ p \in Seq(S) /\ Len(p) = Len(t) + 1 /\ p[Len(t) + 1] = e
        /\ \A i \in 1 .. Len(t) : p[i] = t[i]
    BY AppendProperties
  <2> HIDE DEF p
  <2>2. ASSUME NEW i \in 1 .. Len(q) PROVE q[i] = p[i]
    <3>1. q[i] = b[i]
      BY <1>1, <1>3
    <3>2. i = Len(t) + 1 \/ i \in 1 .. Len(t)
      BY <1>4, <1>5
    <3> QED
      BY <1>2, <2>1, <3>1, <3>2
  <2>3. q = p
    BY <1>5, <2>1, <2>2, SeqEqual
  <2> QED
    BY <2>3 DEF p
<1>7. u = r
  <2>1. Len(u) = Len(r)
    BY <1>1, <1>2, <1>3, <1>4, <1>5
  <2>2. ASSUME NEW i \in 1 .. Len(u) PROVE u[i] = r[i]
    <3>1. Len(q) + 1 + i = Len(t) + 2 + i
      BY <1>4, <1>5
    <3> QED
      BY <1>1, <1>2, <1>3, <2>1, <3>1
  <2> QED
    BY <2>1, <2>2, SeqEqual
<1> QED
  BY <1>6, <1>7

\* And what comes before it and does not end with the escape character has none.
LEMMA PartialLine ==
    ASSUME NEW S, NEW e \in S, NEW nl \in S, e # nl,
           NEW t \in Seq(S), \A i \in 1 .. Len(t) : t[i] # e,
           NEW r \in Seq(S), NEW q \in Seq(S), \A i \in 1 .. Len(q) : q[i] # nl,
           q # <<>> => q[Len(q)] # e,
           NEW u \in Seq(S), q \o u = (t \o <<e, nl>>) \o r
    PROVE  \A i \in 1 .. Len(q) : q[i] # e
<1> DEFINE a == q \o u
           b == (t \o <<e, nl>>) \o r
<1>1. \A i \in 1 .. Len(q) : a[i] = q[i]
  BY SMTT(30)
<1>2. /\ b[Len(t) + 2] = nl
      /\ \A i \in 1 .. Len(t) : b[i] = t[i]
  OBVIOUS
<1>3. a = b
  OBVIOUS
<1> HIDE DEF a, b
<1>4. Len(q) \in Nat /\ Len(t) \in Nat
  OBVIOUS
<1>5. Len(q) <= Len(t) + 1
  <2> SUFFICES ASSUME Len(q) > Len(t) + 1 PROVE FALSE
    BY <1>4
  <2>1. Len(t) + 2 \in 1 .. Len(q)
    BY <1>4
  <2> QED
    BY <1>1, <1>2, <1>3, <2>1
<1> TAKE i \in 1 .. Len(q)
<1>6. CASE i = Len(q)
  BY <1>6
<1>7. CASE i # Len(q)
  <2>1. i \in 1 .. Len(t)
    BY <1>4, <1>5, <1>7
  <2> QED
    BY <1>1, <1>2, <1>3, <2>1
<1> QED
  BY <1>6, <1>7-----------------------------------------------------------------------------
(* Messages.                                                               *)

\* What the sender writes; only the memory behind the buffer has another byte.
SentBytes == Bytes \ {Junk}

LEMMA TextBytes ==
    ASSUME NEW m \in 1 .. Amount
    PROVE  /\ Lengths[m] \in Nat \ {0}
           /\ Text(m) \in Seq(SentBytes \ {ESC, NL})
           /\ Len(Text(m)) = Lengths[m]
           /\ \A i \in 1 .. Len(Text(m)) : Text(m)[i] # ESC /\ Text(m)[i] # NL
<1>1. Lengths[m] \in Nat \ {0}
  BY LengthsAssumption DEF Amount
<1>2. m # 0
  OBVIOUS
<1>3. ASSUME NEW i \in 1 .. Lengths[m]
      PROVE  <<m, i>> \in SentBytes \ {ESC, NL}
  <2>1. <<m, i>> # ESC /\ <<m, i>> # NL /\ <<m, i>> # Junk
    BY <1>2 DEF ESC, NL, Junk
  <2>2. DOMAIN Text(m) = 1 .. Lengths[m] /\ Text(m)[i] = <<m, i>>
    BY DEF Text
  <2>3. <<m, i>> \in ToSet(Text(m))
    BY <2>2 DEF ToSet
  <2>4. <<m, i>> \in Bytes
    BY <2>3 DEF Bytes
  <2> QED
    BY <2>1, <2>4 DEF SentBytes
<1>4. \A i \in 1 .. Lengths[m] : Text(m)[i] = <<m, i>>
  BY DEF Text
<1>5. Text(m) \in [1 .. Lengths[m] -> SentBytes \ {ESC, NL}]
  BY <1>3 DEF Text
<1>6. Text(m) \in Seq(SentBytes \ {ESC, NL}) /\ Len(Text(m)) = Lengths[m]
  BY <1>1, <1>5
<1> QED
  BY <1>1, <1>3, <1>4, <1>6

LEMMA TerminatorBytes == ESC # NL /\ ESC \in SentBytes /\ NL \in SentBytes
<1>1. ESC # NL /\ ESC # Junk /\ NL # Junk
  BY DEF ESC, NL, Junk
<1>2. ESC \in Bytes /\ NL \in Bytes
  BY DEF Bytes
<1> QED
  BY <1>1, <1>2 DEF SentBytes

LEMMA EncodingBytes ==
    ASSUME NEW m \in 1 .. Amount
    PROVE  Text(m) \in Seq(SentBytes) /\ Encoding(m) \in Seq(SentBytes)
<1>1. Text(m) \in Seq(SentBytes)
  <2>1. Text(m) \in Seq(SentBytes \ {ESC, NL}) /\ SentBytes \ {ESC, NL} \subseteq SentBytes
    BY TextBytes
  <2> QED
    BY <2>1, SeqMonotonic
<1>2. <<ESC, NL>> \in Seq(SentBytes)
  BY TerminatorBytes
<1> QED
  BY <1>1, <1>2, ConcatProperties DEF Encoding

\* The bytes of the messages m .. n.
Run(m, n) == FlattenSeq([k \in 1 .. n + 1 - m |-> Encoding(m + k - 1)])

LEMMA RunIsSequence ==
    ASSUME NEW n \in 0 .. Amount, NEW m \in 1 .. n + 1
    PROVE  /\ [k \in 1 .. n + 1 - m |-> Encoding(m + k - 1)] \in Seq(Seq(SentBytes))
           /\ Run(m, n) \in Seq(SentBytes)
<1> DEFINE s == [k \in 1 .. n + 1 - m |-> Encoding(m + k - 1)]
<1>1. Amount \in Nat
  BY LengthsAssumption DEF Amount
<1>2. n + 1 - m \in Nat
  BY <1>1
<1>3. \A k \in 1 .. n + 1 - m : Encoding(m + k - 1) \in Seq(SentBytes)
  <2> TAKE k \in 1 .. n + 1 - m
  <2>1. m + k - 1 \in 1 .. Amount
    BY <1>1
  <2> QED
    BY <2>1, EncodingBytes
<1>4. s \in Seq(Seq(SentBytes))
  BY <1>2, <1>3
<1> HIDE DEF s
<1>5. FlattenSeq(s) \in Seq(SentBytes)
  BY <1>4, FlattenAppend, EmptySeq
<1> QED
  BY <1>4, <1>5 DEF s, Run

\* Another message is put at the end.
LEMMA RunGrows ==
    ASSUME NEW n \in 0 .. Amount, n < Amount, NEW m \in 1 .. n + 1
    PROVE  Run(m, n + 1) = Run(m, n) \o Encoding(n + 1)
<1> DEFINE s == [k \in 1 .. n + 1 - m |-> Encoding(m + k - 1)]
           s2 == [k \in 1 .. (n + 1) + 1 - m |-> Encoding(m + k - 1)]
           x == Encoding(n + 1)
<1>1. Amount \in Nat
  BY LengthsAssumption DEF Amount
<1>2. n + 1 \in 0 .. Amount /\ n + 1 \in 1 .. Amount /\ m \in 1 .. (n + 1) + 1
  BY <1>1
<1>3. s \in Seq(Seq(SentBytes)) /\ s2 \in Seq(Seq(SentBytes)) /\ x \in Seq(SentBytes)
  <2>1. s \in Seq(Seq(SentBytes)) /\ x \in Seq(SentBytes)
    BY <1>2, RunIsSequence, EncodingBytes
  <2>2. s2 \in Seq(Seq(SentBytes))
    BY <1>2, RunIsSequence
  <2> QED
    BY <2>1, <2>2
<1>4. Len(s) = n + 1 - m /\ Len(s2) = (n + 1) + 1 - m
  BY <1>1
<1>5. s2[Len(s) + 1] = x
  <2>1. (n + 1) + 1 - m \in 1 .. (n + 1) + 1 - m /\ m + ((n + 1) + 1 - m) - 1 = n + 1
    BY <1>1
  <2>2. s2[(n + 1) + 1 - m] = x
    BY <2>1
  <2> QED
    BY <1>4, <2>2
<1>6. \A k \in 1 .. Len(s) : s2[k] = s[k]
  BY <1>1, <1>4
<1> HIDE DEF s, s2, x
<1>7. s2 = Append(s, x)
  <2> DEFINE s3 == Append(s, x)
  <2>1. /\ s3 \in Seq(Seq(SentBytes)) /\ Len(s3) = Len(s) + 1 /\ s3[Len(s) + 1] = x
        /\ \A k \in 1 .. Len(s) : s3[k] = s[k]
    BY <1>3, AppendProperties
  <2> HIDE DEF s3
  <2>2. Len(s2) = Len(s3) /\ \A k \in 1 .. Len(s2) : k \in 1 .. Len(s) \/ k = Len(s) + 1
    BY <1>4, <2>1
  <2>3. \A k \in 1 .. Len(s2) : s2[k] = s3[k]
    BY <1>5, <1>6, <2>1, <2>2
  <2>4. s2 = s3
    BY <1>3, <2>1, <2>2, <2>3, SeqEqual
  <2> QED
    BY <2>4 DEF s3
<1>8. FlattenSeq(s2) = FlattenSeq(s) \o x
  BY <1>3, <1>7, FlattenAppend
<1> QED
  BY <1>8 DEF s, s2, x, Run

\* The first message is taken off.
LEMMA RunSplits ==
    ASSUME NEW n \in 0 .. Amount, NEW m \in 1 .. n
    PROVE  Run(m, n) = Encoding(m) \o Run(m + 1, n)
<1> DEFINE s == [k \in 1 .. n + 1 - m |-> Encoding(m + k - 1)]
           t == [k \in 1 .. n + 1 - (m + 1) |-> Encoding((m + 1) + k - 1)]
           x == Encoding(m)
<1>1. Amount \in Nat
  BY LengthsAssumption DEF Amount
<1>2. m \in 1 .. n + 1 /\ m + 1 \in 1 .. n + 1 /\ m \in 1 .. Amount
  BY <1>1
<1>3. s \in Seq(Seq(SentBytes)) /\ t \in Seq(Seq(SentBytes)) /\ x \in Seq(SentBytes)
  <2>1. s \in Seq(Seq(SentBytes)) /\ x \in Seq(SentBytes)
    BY <1>2, RunIsSequence, EncodingBytes
  <2>2. t \in Seq(Seq(SentBytes))
    BY <1>2, RunIsSequence
  <2> QED
    BY <2>1, <2>2
<1>4. Len(s) = Len(t) + 1
  BY <1>1
<1>5. s[1] = x
  <2>1. 1 \in 1 .. n + 1 - m /\ m + 1 - 1 = m
    BY <1>1
  <2> QED
    BY <2>1
<1>6. \A k \in 1 .. Len(t) : s[k + 1] = t[k]
  <2> TAKE k \in 1 .. Len(t)
  <2>1. /\ k \in 1 .. n + 1 - (m + 1) /\ k + 1 \in 1 .. n + 1 - m
        /\ m + (k + 1) - 1 = (m + 1) + k - 1
    BY <1>1
  <2> QED
    BY <2>1
<1> HIDE DEF s, t, x
<1>7. FlattenSeq(s) = x \o FlattenSeq(t)
  BY <1>3, <1>4, <1>5, <1>6, FlattenHead
<1> QED
  BY <1>7 DEF s, t, x, Run

LEMMA EmptyRun == ASSUME NEW n \in Nat PROVE Run(n + 1, n) = <<>>
<1> DEFINE s == [k \in 1 .. n + 1 - (n + 1) |-> Encoding((n + 1) + k - 1)]
<1>1. s = <<>>
  OBVIOUS
<1> QED
  BY <1>1 DEF Run, FlattenSeq

-----------------------------------------------------------------------------
(* The inductive invariant.                                                *)

\* The types, as sequences: nothing that was not sent is ever received.
BytesInv ==
    /\ sent \in 0 .. Amount
    /\ senderOpen \in BOOLEAN
    /\ open \in BOOLEAN
    /\ wire \in Seq(SentBytes)
    /\ buffer \in Seq(SentBytes)
    /\ partial \in Seq(SentBytes)
    /\ handled \in Seq(Seq(SentBytes))

\* What was handled are the first messages, one in each call.
HandledInv ==
    /\ Len(handled) <= sent
    /\ \A k \in 1 .. Len(handled) : IsMessage(handled[k], k)
    /\ returned = Len(handled)

\* What is kept is the beginning of a text; the rest of its line is read whole, and
\* never without the newline that its escape character announces.
KeptInv ==
    /\ \A i \in 1 .. Len(partial) : partial[i] # ESC /\ partial[i] # NL
    /\ buffer # <<>> => buffer[Len(buffer)] # ESC
    /\ partial # <<>> /\ buffer # <<>> => Contains(buffer, NL)

ConservedInv == partial \o buffer \o wire = Run(Len(handled) + 1, sent)

FramingInv == BytesInv /\ HandledInv /\ KeptInv /\ ConservedInv

-----------------------------------------------------------------------------
(* The line that receive takes from the buffer.                            *)

LEMMA LineOfBuffer ==
    ASSUME BytesInv
    PROVE  /\ Line \in Seq(SentBytes) /\ AfterLine \in Seq(SentBytes)
           /\ \A i \in 1 .. Len(Line) : Line[i] # NL
           /\ Contains(buffer, NL) =>
                 /\ buffer = (Line \o <<NL>>) \o AfterLine
                 /\ AfterLine # <<>> =>
                       AfterLine[Len(AfterLine)] = buffer[Len(buffer)]
           /\ ~Contains(buffer, NL) => Line = buffer /\ AfterLine = <<>>
<1>1. buffer \in Seq(SentBytes) /\ Len(buffer) \in Nat
  BY DEF BytesInv
<1>2. \A i \in 1 .. Len(buffer) : buffer[i] \in SentBytes
  BY <1>1
<1>3. CASE Contains(buffer, NL)
  <2> DEFINE I == {i \in 1 .. Len(buffer) : buffer[i] = NL}
  <2>1. I # {} /\ I \in SUBSET Nat
    BY <1>3 DEF Contains
  <2>2. Min(I) \in I /\ \A n \in I : Min(I) <= n
    BY <2>1, MinOfNaturals
  <2>3. LineLen = Min(I) - 1
    BY <1>3, <2>1 DEF LineLen, SelectInSeq, IsNewline
  <2> DEFINE p == LineLen
  <2>4. p \in Nat /\ p + 1 \in 1 .. Len(buffer) /\ buffer[p + 1] = NL
    <3>1. Min(I) \in 1 .. Len(buffer) /\ buffer[Min(I)] = NL
      BY <2>2
    <3>2. Min(I) - 1 \in Nat /\ (Min(I) - 1) + 1 = Min(I)
      BY <1>1, <3>1
    <3> QED
      BY <2>3, <3>1, <3>2
  <2>5. \A i \in 1 .. p : i \in 1 .. Len(buffer) /\ buffer[i] # NL
    <3> TAKE i \in 1 .. p
    <3>1. i \in 1 .. Len(buffer) /\ ~ (Min(I) <= i)
      BY <1>1, <2>2, <2>3
    <3> QED
      BY <2>2, <3>1
  <2> HIDE DEF I, p
  <2>6. p \in Nat /\ p + 1 <= Len(buffer)
    BY <1>1, <2>4
  <2>7. /\ Line \in Seq(SentBytes) /\ Len(Line) = p
        /\ \A i \in 1 .. p : Line[i] = buffer[i]
    BY <1>1, <1>2, <2>6 DEF Line, p
  <2>8. /\ AfterLine \in Seq(SentBytes) /\ Len(AfterLine) = Len(buffer) - (p + 1)
        /\ \A i \in 1 .. Len(buffer) - (p + 1) : AfterLine[i] = buffer[p + 1 + i]
    BY <1>1, <1>2, <2>6 DEF AfterLine, p
  <2>9. buffer = (Line \o <<NL>>) \o AfterLine
    <3> DEFINE b == (Line \o <<NL>>) \o AfterLine
    <3>1. /\ b \in Seq(SentBytes) /\ Len(b) = Len(Line) + 1 + Len(AfterLine)
          /\ b[Len(Line) + 1] = NL
          /\ \A i \in 1 .. Len(Line) : b[i] = Line[i]
          /\ \A i \in 1 .. Len(AfterLine) : b[Len(Line) + 1 + i] = AfterLine[i]
      <4>1. Line \in Seq(SentBytes) /\ AfterLine \in Seq(SentBytes) /\ NL \in SentBytes
        BY <2>7, <2>8, TerminatorBytes
      <4> QED
        BY ONLY <4>1, CutAtElement
    <3> HIDE DEF b
    <3>2. Len(b) = Len(buffer)
      BY <1>1, <2>6, <2>7, <2>8, <3>1
    <3>3. ASSUME NEW i \in 1 .. Len(buffer) PROVE buffer[i] = b[i]
      <4>1. CASE i \in 1 .. p
        BY <2>7, <3>1, <4>1
      <4>2. CASE i = p + 1
        BY <2>4, <2>7, <3>1, <4>2
      <4>3. CASE i > p + 1
        <5>1. i - (p + 1) \in 1 .. Len(buffer) - (p + 1) /\ p + 1 + (i - (p + 1)) = i
          BY <1>1, <2>6, <4>3
        <5>2. AfterLine[i - (p + 1)] = buffer[i]
          BY <2>8, <5>1
        <5>3. b[i] = AfterLine[i - (p + 1)]
          BY <2>7, <2>8, <3>1, <5>1
        <5> QED
          BY <5>2, <5>3
      <4> QED
        BY <2>6, <4>1, <4>2, <4>3
    <3>4. buffer = b
      BY <1>1, <3>1, <3>2, <3>3, SeqEqual
    <3> QED
      BY <3>4 DEF b
  <2>10. AfterLine # <<>> => AfterLine[Len(AfterLine)] = buffer[Len(buffer)]
    <3> SUFFICES ASSUME AfterLine # <<>>
                 PROVE  AfterLine[Len(AfterLine)] = buffer[Len(buffer)]
      OBVIOUS
    <3>1. Len(AfterLine) \in Nat \ {0}
      BY <2>8, EmptySeq
    <3>2. /\ Len(AfterLine) \in 1 .. Len(buffer) - (p + 1)
          /\ p + 1 + Len(AfterLine) = Len(buffer)
      BY <1>1, <2>6, <2>8, <3>1
    <3> QED
      BY <2>8, <3>2
  <2> QED
    BY <1>3, <2>5, <2>7, <2>8, <2>9, <2>10
<1>4. CASE ~Contains(buffer, NL)
  <2>1. LineLen = Len(buffer)
    BY <1>4 DEF LineLen
  <2>2. Line = buffer
    BY <1>1, <2>1, SubSeqFull DEF Line
  <2>3. AfterLine = <<>>
    BY <1>1, <2>1, SubSeqEmpty DEF AfterLine
  <2>4. \A i \in 1 .. Len(buffer) : buffer[i] # NL
    BY <1>4 DEF Contains
  <2> QED
    BY <1>1, <1>4, <2>2, <2>3, <2>4, EmptySeq
<1> QED
  BY <1>3, <1>4
\* A newline in the buffer ends the next message; without one, nothing there ends it.
LEMMA BufferedLine ==
    ASSUME FramingInv, buffer # <<>>
    PROVE  /\ Contains(buffer, NL) =>
                 /\ Len(handled) < sent
                 /\ WholeMessage = Append(Text(Len(handled) + 1), ESC)
                 /\ EndsMessage
                 /\ AfterLine \o wire = Run(Len(handled) + 2, sent)
           /\ ~Contains(buffer, NL) =>
                 /\ partial = <<>>
                 /\ Line = buffer /\ AfterLine = <<>>
                 /\ \A i \in 1 .. Len(buffer) : buffer[i] # ESC /\ buffer[i] # NL
                 /\ ~EndsMessage
<1> DEFINE h == Len(handled)
<1>1. /\ BytesInv /\ HandledInv /\ KeptInv /\ ConservedInv
      /\ sent \in 0 .. Amount /\ h \in Nat /\ h <= sent /\ Amount \in Nat
      /\ sent \in Nat
      /\ wire \in Seq(SentBytes) /\ buffer \in Seq(SentBytes) /\ partial \in Seq(SentBytes)
  BY LengthsAssumption DEF FramingInv, BytesInv, HandledInv, Amount
<1>2. partial \o buffer \o wire = Run(h + 1, sent)
  BY <1>1 DEF ConservedInv
<1> HIDE DEF h
<1>3. h < sent
  <2> SUFFICES ASSUME h = sent PROVE FALSE
    BY <1>1
  <2>1. Run(h + 1, sent) = <<>>
    BY <1>1, EmptyRun
  <2>2. Len(partial \o buffer \o wire) = Len(partial) + Len(buffer) + Len(wire)
    BY <1>1
  <2>3. Len(buffer) \in Nat \ {0} /\ Len(partial) \in Nat /\ Len(wire) \in Nat
    BY <1>1, EmptySeq
  <2> QED
    BY <1>2, <2>1, <2>2, <2>3, EmptySeq
<1> DEFINE m == h + 1
           r == Run(m + 1, sent)
<1>4. m \in 1 .. Amount /\ m \in 1 .. sent /\ m + 1 \in 1 .. sent + 1
      /\ sent \in 0 .. Amount /\ m + 1 = h + 2
  BY <1>1, <1>3
<1>5. Run(m, sent) = (Text(m) \o <<ESC, NL>>) \o r /\ r \in Seq(SentBytes)
  BY <1>4, RunSplits, RunIsSequence DEF Encoding
<1>6. /\ Text(m) \in Seq(SentBytes)
      /\ \A i \in 1 .. Len(Text(m)) : Text(m)[i] # ESC /\ Text(m)[i] # NL
  BY <1>4, TextBytes, EncodingBytes
<1>7. partial \o buffer \o wire = (Text(m) \o <<ESC, NL>>) \o r
  BY <1>2, <1>5
<1>8. ESC # NL /\ ESC \in SentBytes /\ NL \in SentBytes
  BY TerminatorBytes
<1>9. /\ Line \in Seq(SentBytes) /\ AfterLine \in Seq(SentBytes)
      /\ \A i \in 1 .. Len(Line) : Line[i] # NL
      /\ Contains(buffer, NL) => buffer = (Line \o <<NL>>) \o AfterLine
      /\ ~Contains(buffer, NL) => Line = buffer /\ AfterLine = <<>>
  BY <1>1, LineOfBuffer
<1>10. \A i \in 1 .. Len(partial) : partial[i] # ESC /\ partial[i] # NL
  BY <1>1 DEF KeptInv
<1> HIDE DEF m, r
<1>11. CASE Contains(buffer, NL)
  <2> DEFINE q == partial \o Line
             u == AfterLine \o wire
  <2>1. q \in Seq(SentBytes) /\ u \in Seq(SentBytes)
    BY <1>1, <1>9
  <2>2. (q \o <<NL>>) \o u = (Text(m) \o <<ESC, NL>>) \o r
    <3>1. buffer = (Line \o <<NL>>) \o AfterLine
      BY <1>9, <1>11
    <3>2. /\ partial \in Seq(SentBytes) /\ Line \in Seq(SentBytes)
          /\ <<NL>> \in Seq(SentBytes)
          /\ AfterLine \in Seq(SentBytes) /\ wire \in Seq(SentBytes)
      BY <1>1, <1>8, <1>9
    <3>3. PICK p \in Seq(SentBytes), s \in Seq(SentBytes), y \in Seq(SentBytes),
               t \in Seq(SentBytes), w \in Seq(SentBytes) :
                  p = partial /\ s = Line /\ y = <<NL>> /\ t = AfterLine /\ w = wire
      BY <3>2
    <3>4. p \o ((s \o y) \o t) = ((p \o s) \o y) \o t
      BY ONLY p \in Seq(SentBytes), s \in Seq(SentBytes), y \in Seq(SentBytes),
              t \in Seq(SentBytes)
    <3>5. (((p \o s) \o y) \o t) \o w = ((p \o s) \o y) \o (t \o w)
      BY ONLY SMTT(30), p \in Seq(SentBytes), s \in Seq(SentBytes), y \in Seq(SentBytes),
              t \in Seq(SentBytes), w \in Seq(SentBytes)
    <3>6. partial \o buffer \o wire = (q \o <<NL>>) \o u
      BY ONLY <3>1, <3>3, <3>4, <3>5
    <3> QED
      BY <1>7, <3>6
  <2>3. \A i \in 1 .. Len(q) : q[i] # NL
    <3> TAKE i \in 1 .. Len(q)
    <3>1. \/ i \in 1 .. Len(partial) /\ q[i] = partial[i]
          \/ \E j \in 1 .. Len(Line) : q[i] = Line[j]
      <4>1. Len(partial) \in Nat /\ Len(Line) \in Nat /\ Len(q) = Len(partial) + Len(Line)
        BY <1>1, <1>9
      <4>2. i \in 1 .. Len(partial) \/ i - Len(partial) \in 1 .. Len(Line)
        BY <4>1
      <4> QED
        BY <1>1, <1>9, <4>1, <4>2
    <3> QED
      BY <1>9, <1>10, <3>1
  <2> HIDE DEF q, u
  <2>4. q = Append(Text(m), ESC) /\ u = r
    BY ONLY <1>5, <1>6, <1>8, <2>1, <2>2, <2>3, FirstLineEnds
  <2>5. EndsMessage
    <3>1. Len(q) \in Nat /\ Len(q) # 0 /\ q[Len(q)] = ESC
      BY <1>6, <1>8, <2>4, AppendProperties
    <3>2. Line # <<>>
      <4> SUFFICES ASSUME Line = <<>> PROVE FALSE
        OBVIOUS
      <4>1. q = partial
        BY <1>1 DEF q
      <4> QED
        BY <1>10, <3>1, <4>1
    <3>3. Len(Line) \in Nat \ {0} /\ Len(partial) \in Nat
      BY <1>1, <1>9, <3>2, EmptySeq
    <3>4. Len(q) = Len(partial) + Len(Line) /\ q[Len(partial) + Len(Line)] = Line[Len(Line)]
      BY <1>1, <1>9, <3>3 DEF q
    <3> QED
      BY <3>1, <3>2, <3>4 DEF EndsMessage, Last
  <2> QED
    BY <1>3, <1>4, <1>11, <2>4, <2>5 DEF q, u, m, r, h, WholeMessage
<1>12. CASE ~Contains(buffer, NL)
  <2>1. partial = <<>> /\ buffer[Len(buffer)] # ESC
    BY <1>1, <1>12 DEF KeptInv
  <2>2. partial \o buffer \o wire = buffer \o wire
    BY <1>1, <2>1
  <2>3. \A i \in 1 .. Len(buffer) : buffer[i] # NL
    BY <1>12 DEF Contains
  <2>4. buffer \o wire = (Text(m) \o <<ESC, NL>>) \o r
    BY <1>7, <2>2
  <2>5. \A i \in 1 .. Len(buffer) : buffer[i] # ESC
    BY ONLY <1>1, <1>5, <1>6, <1>8, <2>1, <2>3, <2>4, PartialLine
  <2>6. ~EndsMessage
    BY <1>9, <1>12, <2>1 DEF EndsMessage, Last
  <2> QED
    BY <1>9, <1>12, <2>1, <2>3, <2>5, <2>6
<1> QED
  BY <1>11, <1>12
-----------------------------------------------------------------------------
(* Every step keeps the invariant.                                         *)

LEMMA InitFraming == Init => FramingInv
<1> SUFFICES ASSUME Init PROVE FramingInv
  OBVIOUS
<1>1. Amount \in Nat
  BY LengthsAssumption DEF Amount
<1>2. BytesInv
  BY <1>1, EmptySeq DEF Init, BytesInv
<1>3. HandledInv /\ KeptInv
  BY DEF Init, HandledInv, KeptInv
<1>4. ConservedInv
  <2>1. Run(0 + 1, 0) = <<>>
    BY EmptyRun
  <2>2. <<>> \o <<>> \o <<>> = <<>> /\ Len(<<>>) = 0
    OBVIOUS
  <2> QED
    BY <2>1, <2>2 DEF Init, ConservedInv
<1> QED
  BY <1>2, <1>3, <1>4 DEF FramingInv

LEMMA SendKeeps == FramingInv /\ Send => FramingInv'
<1> SUFFICES ASSUME FramingInv, Send PROVE FramingInv'
  OBVIOUS
<1> DEFINE h == Len(handled)
           x == Encoding(sent + 1)
<1>1. /\ BytesInv /\ HandledInv /\ KeptInv /\ ConservedInv
      /\ sent \in 0 .. Amount /\ sent < Amount /\ h \in Nat /\ h <= sent /\ Amount \in Nat
      /\ wire \in Seq(SentBytes) /\ buffer \in Seq(SentBytes) /\ partial \in Seq(SentBytes)
  BY LengthsAssumption DEF FramingInv, BytesInv, HandledInv, Amount, Send
<1>2. /\ sent' = sent + 1 /\ wire' = wire \o x
      /\ UNCHANGED <<senderOpen, buffer, partial, handled, returned, open>>
  BY DEF Send
<1>3. x \in Seq(SentBytes) /\ sent + 1 \in 0 .. Amount /\ h + 1 \in 1 .. sent + 1
  <2>1. sent + 1 \in 1 .. Amount
    BY <1>1
  <2>2. x \in Seq(SentBytes)
    BY <2>1, EncodingBytes
  <2> QED
    BY <1>1, <2>2
<1> HIDE DEF x
<1>4. BytesInv'
  <2>1. wire \o x \in Seq(SentBytes)
    BY <1>1, <1>3
  <2> QED
    BY <1>1, <1>2, <1>3, <2>1 DEF BytesInv
<1>5. HandledInv' /\ KeptInv'
  BY <1>1, <1>2 DEF HandledInv, KeptInv, Contains
<1>6. ConservedInv'
  <2>1. Run(h + 1, sent + 1) = Run(h + 1, sent) \o x
    BY <1>1, <1>3, RunGrows DEF x
  <2>2. PICK w \in Seq(SentBytes), y \in Seq(SentBytes), b \in Seq(SentBytes),
             p \in Seq(SentBytes) : w = wire /\ y = x /\ b = buffer /\ p = partial
    BY <1>1, <1>3
  <2>3. (p \o b) \o (w \o y) = ((p \o b) \o w) \o y
    BY ONLY w \in Seq(SentBytes), y \in Seq(SentBytes), b \in Seq(SentBytes),
            p \in Seq(SentBytes)
  <2>4. partial \o buffer \o wire = Run(h + 1, sent)
    BY <1>1 DEF ConservedInv
  <2>5. partial \o buffer \o (wire \o x) = Run(h + 1, sent + 1)
    BY ONLY <2>1, <2>2, <2>3, <2>4
  <2> QED
    BY <1>2, <2>5 DEF ConservedInv
<1> QED
  BY <1>4, <1>5, <1>6 DEF FramingInv

LEMMA RecvKeeps == ~AnySegmentation /\ FramingInv /\ Recv => FramingInv'
<1> SUFFICES ASSUME ~AnySegmentation, FramingInv, Recv PROVE FramingInv'
  OBVIOUS
<1>1. /\ BytesInv /\ HandledInv /\ KeptInv /\ ConservedInv
      /\ wire \in Seq(SentBytes) /\ buffer = <<>> /\ partial \in Seq(SentBytes)
      /\ UNCHANGED <<sent, senderOpen, partial, handled, returned, open>>
  BY DEF FramingInv, BytesInv, Recv
<1>2. PICK n \in Pieces :
        /\ \E more \in Overrun(n) : buffer' = SubSeq(wire, 1, n) \o more
        /\ wire' = SubSeq(wire, n + 1, Len(wire))
  BY DEF Recv
<1>3. /\ n \in 1 .. Len(wire) /\ n < BufferSize /\ wire[n] # ESC
      /\ partial # <<>> => Contains(SubSeq(wire, 1, n), NL)
  BY DEF Pieces
<1>4. Len(wire) \in Nat /\ \A i \in 1 .. Len(wire) : wire[i] \in SentBytes
  BY <1>1
<1>5. /\ SubSeq(wire, 1, n) \in Seq(SentBytes) /\ Len(SubSeq(wire, 1, n)) = n
      /\ SubSeq(wire, 1, n)[n] = wire[n]
      /\ SubSeq(wire, n + 1, Len(wire)) \in Seq(SentBytes)
  BY <1>3, <1>4
<1>6. buffer' = SubSeq(wire, 1, n)
  <2>1. Overrun(n) = {<<>>}
    BY <1>3, BufferAssumption DEF Overrun
  <2>2. buffer' = SubSeq(wire, 1, n) \o <<>>
    BY <1>2, <2>1
  <2> QED
    BY <1>5, <2>2, ConcatEmptySeq
<1>7. BytesInv'
  BY <1>1, <1>2, <1>5, <1>6 DEF BytesInv
<1>8. HandledInv'
  BY <1>1 DEF HandledInv
<1>9. KeptInv'
  BY <1>1, <1>3, <1>5, <1>6 DEF KeptInv, Contains
<1>10. ConservedInv'
  <2>1. SubSeq(wire, 1, n) \o SubSeq(wire, n + 1, Len(wire)) = wire
    <3>1. 1 \in 1 .. Len(wire) + 1 /\ n \in 1 - 1 .. Len(wire) /\ Len(wire) \in n .. Len(wire)
      BY <1>3, <1>4
    <3>2. /\ SubSeq(wire, 1, n) \o SubSeq(wire, n + 1, Len(wire)) = SubSeq(wire, 1, Len(wire))
          /\ SubSeq(wire, 1, Len(wire)) = wire
      BY <1>1, <3>1, ConcatAdjacentSubSeq, SubSeqFull
    <3> QED
      BY <3>2
  <2>2. PICK a \in Seq(SentBytes), b \in Seq(SentBytes), p \in Seq(SentBytes) :
          a = SubSeq(wire, 1, n) /\ b = SubSeq(wire, n + 1, Len(wire)) /\ p = partial
    BY <1>1, <1>5
  <2>3. p \o a \o b = p \o (a \o b)
    BY ONLY a \in Seq(SentBytes), b \in Seq(SentBytes), p \in Seq(SentBytes)
  <2>4. partial \o <<>> \o wire = partial \o wire
    BY <1>1
  <2>5. partial \o buffer' \o wire' = partial \o buffer \o wire
    BY ONLY <1>1, <1>2, <1>6, <2>1, <2>2, <2>3, <2>4
  <2> QED
    BY <1>1, <2>5 DEF ConservedInv
<1> QED
  BY <1>7, <1>8, <1>9, <1>10 DEF FramingInv
\* Only the beginning of a text is kept, in a place that is empty.
LEMMA KeepLineKeeps ==
    FramingInv /\ KeepLine => FramingInv' /\ UNCHANGED <<handled, returned, sent>>
<1> SUFFICES ASSUME FramingInv, KeepLine
             PROVE  FramingInv' /\ UNCHANGED <<handled, returned, sent>>
  OBVIOUS
<1>1. /\ BytesInv /\ HandledInv /\ KeptInv /\ ConservedInv
      /\ buffer \in Seq(SentBytes) /\ wire \in Seq(SentBytes)
  BY DEF FramingInv, BytesInv
<1>2. /\ buffer # <<>> /\ ~EndsMessage /\ partial' = Line /\ buffer' = AfterLine
      /\ returned' = IF Line = <<>> THEN returned + 1 ELSE returned
      /\ UNCHANGED <<sent, senderOpen, wire, handled, open>>
  BY DEF KeepLine
<1>3. /\ partial = <<>> /\ Line = buffer /\ AfterLine = <<>>
      /\ \A i \in 1 .. Len(buffer) : buffer[i] # ESC /\ buffer[i] # NL
  BY <1>2, BufferedLine
<1>4. partial' = buffer /\ buffer' = <<>> /\ returned' = returned
  BY <1>2, <1>3
<1>5. BytesInv'
  BY <1>1, <1>2, <1>4, EmptySeq DEF BytesInv
<1>6. HandledInv'
  BY <1>1, <1>2, <1>4 DEF HandledInv
<1>7. KeptInv'
  BY <1>3, <1>4 DEF KeptInv
<1>8. ConservedInv'
  <2>1. <<>> \o buffer \o wire = buffer \o <<>> \o wire
    BY <1>1
  <2> QED
    BY <1>1, <1>2, <1>3, <1>4, <2>1 DEF ConservedInv
<1> QED
  BY <1>2, <1>4, <1>5, <1>6, <1>7, <1>8 DEF FramingInv

\* What is kept and the line are the next message.
LEMMA HandleMessageKeeps ==
    FramingInv /\ HandleMessage =>
        /\ FramingInv'
        /\ Len(handled) < sent
        /\ Len(handled') = Len(handled) + 1
        /\ returned' = returned + 1
        /\ UNCHANGED <<open, sent, senderOpen>>
<1> SUFFICES ASSUME FramingInv, HandleMessage
             PROVE  /\ FramingInv'
                    /\ Len(handled) < sent
                    /\ Len(handled') = Len(handled) + 1
                    /\ returned' = returned + 1
                    /\ UNCHANGED <<open, sent, senderOpen>>
  OBVIOUS
<1> DEFINE h == Len(handled)
<1>1. /\ BytesInv /\ HandledInv /\ KeptInv /\ ConservedInv
      /\ buffer \in Seq(SentBytes) /\ wire \in Seq(SentBytes) /\ partial \in Seq(SentBytes)
      /\ handled \in Seq(Seq(SentBytes))
      /\ h \in Nat /\ sent \in 0 .. Amount /\ Amount \in Nat
  BY LengthsAssumption DEF FramingInv, BytesInv, Amount
<1>2. /\ open /\ buffer # <<>> /\ EndsMessage /\ partial' = <<>> /\ buffer' = AfterLine
      /\ open' \in {TRUE, IsAnyMessage(WholeMessage)}
      /\ handled' = Append(handled, WholeMessage)
      /\ returned' = IF open' THEN returned + 1 ELSE returned
      /\ UNCHANGED <<sent, senderOpen, wire>>
  BY DEF HandleMessage
<1>3. /\ Contains(buffer, NL) /\ h < sent
      /\ WholeMessage = Append(Text(h + 1), ESC)
      /\ AfterLine \o wire = Run(h + 2, sent)
  BY <1>2, BufferedLine
<1>4. /\ Line \in Seq(SentBytes) /\ AfterLine \in Seq(SentBytes)
      /\ AfterLine # <<>> => AfterLine[Len(AfterLine)] = buffer[Len(buffer)]
  BY <1>1, <1>3, LineOfBuffer
<1>5. h + 1 \in 1 .. Amount
  BY <1>1, <1>3
<1>6. IsMessage(WholeMessage, h + 1) /\ IsAnyMessage(WholeMessage)
  BY <1>3, <1>5 DEF IsMessage, IsAnyMessage
<1>7. open' = TRUE /\ returned' = returned + 1 /\ open = TRUE
  BY <1>1, <1>2, <1>6 DEF BytesInv
<1>8. WholeMessage \in Seq(SentBytes)
  BY <1>1, <1>4 DEF WholeMessage
<1>9. /\ handled' \in Seq(Seq(SentBytes)) /\ Len(handled') = h + 1
      /\ handled'[h + 1] = WholeMessage
      /\ \A k \in 1 .. h : handled'[k] = handled[k]
  BY <1>1, <1>2, <1>8, AppendProperties
<1>10. BytesInv'
  BY <1>1, <1>2, <1>4, <1>7, <1>9, EmptySeq DEF BytesInv
<1>11. HandledInv'
  <2>1. \A k \in 1 .. h + 1 : IsMessage(handled'[k], k)
    <3> TAKE k \in 1 .. h + 1
    <3>1. k \in 1 .. h \/ k = h + 1
      BY <1>1
    <3> QED
      BY <1>1, <1>6, <1>9, <3>1 DEF HandledInv, IsMessage, Text
  <2>2. h + 1 <= sent /\ returned = h
    BY <1>1, <1>3 DEF HandledInv
  <2>3. returned' = Len(handled') /\ Len(handled') <= sent'
    BY <1>2, <1>7, <1>9, <2>2
  <2>4. \A k \in 1 .. Len(handled') : IsMessage(handled'[k], k)
    BY <1>9, <2>1
  <2> QED
    BY <2>3, <2>4 DEF HandledInv, IsMessage, Text
<1>12. KeptInv'
  BY <1>1, <1>2, <1>4 DEF KeptInv
<1>13. ConservedInv'
  <2>1. <<>> \o AfterLine \o wire = AfterLine \o wire
    BY <1>1, <1>4
  <2>2. Len(handled') + 1 = h + 2
    BY <1>1, <1>9
  <2> HIDE DEF h
  <2>3. partial' \o buffer' \o wire' = Run(Len(handled') + 1, sent')
    BY <1>2, <1>3, <2>1, <2>2
  <2> QED
    BY <2>3 DEF ConservedInv, Run, Encoding, Text
<1> QED
  BY <1>2, <1>3, <1>7, <1>9, <1>10, <1>11, <1>12, <1>13 DEF FramingInv

\* The stream ends between two messages, all of them handled.
LEMMA StreamEnd ==
    ASSUME FramingInv, buffer = <<>>, wire = <<>>
    PROVE  Len(handled) = sent
<1> DEFINE h == Len(handled)
<1>1. /\ sent \in 0 .. Amount /\ sent \in Nat /\ h \in Nat /\ h <= sent /\ Amount \in Nat
      /\ partial \in Seq(SentBytes)
      /\ \A i \in 1 .. Len(partial) : partial[i] # NL
      /\ partial \o buffer \o wire = Run(h + 1, sent)
  BY LengthsAssumption
     DEF FramingInv, BytesInv, HandledInv, KeptInv, ConservedInv, Amount
<1> SUFFICES ASSUME h < sent PROVE FALSE
  BY <1>1
<1>2. partial = Run(h + 1, sent)
  <2>1. partial \o <<>> \o <<>> = partial
    BY <1>1
  <2> QED
    BY <1>1, <2>1
<1> HIDE DEF h
<1> DEFINE m == h + 1
           r == Run(m + 1, sent)
<1>3. m \in 1 .. Amount /\ m \in 1 .. sent /\ m + 1 \in 1 .. sent + 1
  BY <1>1
<1>4. partial = (Text(m) \o <<ESC, NL>>) \o r /\ r \in Seq(SentBytes)
  BY <1>1, <1>2, <1>3, RunSplits, RunIsSequence DEF Encoding
<1>5. Text(m) \in Seq(SentBytes) /\ ESC \in SentBytes /\ NL \in SentBytes
  BY <1>3, EncodingBytes, TerminatorBytes
<1> HIDE DEF m, r
<1>6. ((Text(m) \o <<ESC, NL>>) \o r)[Len(Text(m)) + 2] = NL
  BY <1>4, <1>5
<1>7. Len(Text(m)) + 2 \in 1 .. Len((Text(m) \o <<ESC, NL>>) \o r)
  BY <1>4, <1>5
<1> QED
  BY <1>1, <1>4, <1>6, <1>7
LEMMA RecvEndKeeps ==
    FramingInv /\ RecvEnd => FramingInv'
BY DEF FramingInv, BytesInv, HandledInv, KeptInv, ConservedInv, RecvEnd, Contains,
       Run, Encoding, Text, IsMessage

LEMMA FramingStep == ~AnySegmentation /\ FramingInv /\ [Next]_vars => FramingInv'
<1> SUFFICES ASSUME ~AnySegmentation, FramingInv, [Next]_vars PROVE FramingInv'
  OBVIOUS
<1>1. CASE Send
  BY <1>1, SendKeeps
<1>2. CASE SenderCloses
  BY <1>2 DEF FramingInv, BytesInv, HandledInv, KeptInv, ConservedInv, SenderCloses,
              Contains, Run, Encoding, Text, IsMessage
<1>3. CASE Recv
  BY <1>3, RecvKeeps
<1>4. CASE RecvEnd
  BY <1>4, RecvEndKeeps
<1>5. CASE KeepLine
  BY <1>5, KeepLineKeeps
<1>6. CASE HandleMessage
  BY <1>6, HandleMessageKeeps
<1>7. CASE UNCHANGED vars
  BY <1>7 DEF FramingInv, BytesInv, HandledInv, KeptInv, ConservedInv, vars,
              Contains, Run, Encoding, Text, IsMessage
<1> QED
  BY <1>1, <1>2, <1>3, <1>4, <1>5, <1>6, <1>7 DEF Next, ReceiveStep, Terminated

LEMMA FramingInvHolds == ASSUME ~AnySegmentation PROVE Spec => []FramingInv
<1>1. FramingInv /\ [Next]_vars => FramingInv'
  BY FramingStep
<1> QED
  BY <1>1, InitFraming, PTL DEF Spec

-----------------------------------------------------------------------------
(* Theorems.                                                               *)

\* Type correctness: memory behind the buffer of recv is never taken for what was
\* received, and neither half of a terminator is ever kept in partialMsg.
THEOREM TypeCorrect == ASSUME ~AnySegmentation PROVE Spec => []TypeOK
<1>1. FramingInv => TypeOK
  <2> SUFFICES ASSUME FramingInv PROVE TypeOK
    OBVIOUS
  <2>1. /\ BytesInv /\ HandledInv /\ KeptInv
        /\ wire \in Seq(SentBytes) /\ buffer \in Seq(SentBytes) /\ partial \in Seq(SentBytes)
        /\ handled \in Seq(Seq(SentBytes)) /\ Amount \in Nat
        /\ sent \in 0 .. Amount /\ Len(handled) <= sent /\ returned = Len(handled)
    BY LengthsAssumption DEF FramingInv, BytesInv, HandledInv, Amount
  <2>2. ToSet(wire) \subseteq Bytes \ {Junk}
    BY <2>1 DEF ToSet, SentBytes
  <2>3. ToSet(buffer) \subseteq Bytes
    BY <2>1 DEF ToSet, SentBytes
  <2>4. ToSet(partial) \subseteq Bytes \ {NL, ESC}
    <3>1. \A i \in 1 .. Len(partial) : partial[i] \in Bytes \ {NL, ESC}
      BY <2>1 DEF KeptInv, SentBytes
    <3>2. DOMAIN partial = 1 .. Len(partial)
      BY <2>1
    <3> QED
      BY <3>1, <3>2 DEF ToSet
  <2>5. \A k \in 1 .. Len(handled) : ToSet(handled[k]) \subseteq Bytes \ {NL}
    <3> TAKE k \in 1 .. Len(handled)
    <3>1. k \in 1 .. Amount
      BY <2>1
    <3>2. handled[k] = Append(Text(k), ESC)
      BY <2>1 DEF HandledInv, IsMessage
    <3> DEFINE s == Append(Text(k), ESC)
    <3>3. /\ s \in Seq(SentBytes) /\ Len(s) = Len(Text(k)) + 1
          /\ s[Len(Text(k)) + 1] = ESC
          /\ \A i \in 1 .. Len(Text(k)) : s[i] = Text(k)[i]
      BY <3>1, EncodingBytes, TerminatorBytes, AppendProperties
    <3>4. Len(Text(k)) \in Nat
      BY <3>1, TextBytes
    <3>5. /\ \A i \in 1 .. Len(Text(k)) : Text(k)[i] # NL
          /\ ESC # NL
      BY <3>1, TextBytes, TerminatorBytes
    <3> HIDE DEF s
    <3>6. ASSUME NEW i \in 1 .. Len(s) PROVE s[i] \in Bytes \ {NL}
      <4>1. s[i] \in SentBytes
        BY <3>3
      <4>2. i \in 1 .. Len(Text(k)) \/ i = Len(Text(k)) + 1
        BY <3>3, <3>4
      <4> QED
        BY <3>3, <3>5, <4>1, <4>2 DEF SentBytes
    <3>7. DOMAIN s = 1 .. Len(s)
      BY <3>3
    <3>8. ToSet(s) \subseteq Bytes \ {NL}
      BY <3>6, <3>7 DEF ToSet
    <3> QED
      BY <3>2, <3>8 DEF s
  <2> QED
    BY <2>1, <2>2, <2>3, <2>4, <2>5 DEF TypeOK, BytesInv
<1> QED
  BY <1>1, FramingInvHolds, PTL

\* Every byte sent and not handled is in exactly one place, in order.
THEOREM NoByteIsLost == ASSUME ~AnySegmentation PROVE Spec => []BytesConserved
<1>1. FramingInv => BytesConserved
  BY DEF FramingInv, ConservedInv, BytesConserved, BytesFrom, Run
<1> QED
  BY <1>1, FramingInvHolds, PTL

\* As long as TCP cuts nothing badly, receive returns once for each message: what the
\* run with any segmentation refutes is a matter of segmentation alone.
THEOREM OneMessageEach == ASSUME ~AnySegmentation PROVE Spec => []OneMessagePerReceive
<1>1. FramingInv => OneMessagePerReceive
  <2> SUFFICES ASSUME FramingInv PROVE OneMessagePerReceive
    OBVIOUS
  <2>1. returned = Len(handled) /\ Len(handled) \in Nat
    BY DEF FramingInv, HandledInv, BytesInv
  <2> QED
    BY <2>1 DEF OneMessagePerReceive
<1> QED
  BY <1>1, FramingInvHolds, PTL

LEMMA HandledNumber == FramingInv => HandledInOrder = Len(handled)
<1> SUFFICES ASSUME FramingInv PROVE HandledInOrder = Len(handled)
  OBVIOUS
<1>1. /\ Len(handled) <= sent /\ sent \in 0 .. Amount /\ Amount \in Nat
      /\ Len(handled) \in Nat
      /\ \A k \in 1 .. Len(handled) : IsMessage(handled[k], k)
  BY LengthsAssumption DEF FramingInv, HandledInv, BytesInv, Amount
<1>2. \A k \in 1 .. Len(handled) : k <= Amount
  BY <1>1
<1> QED
  BY <1>1, <1>2 DEF HandledInOrder

\* receive implements a stream of messages: it handles the next one sent, returns,
\* and closes the connection only when the other end has and all are handled.  This
\* is ReliableStream without its fairness.
THEOREM StreamRefines ==
    ASSUME ~AnySegmentation
    PROVE  Spec => Stream!Init /\ [][Stream!Next]_(Stream!vars)
<1>1. Init => Stream!Init
  <2> SUFFICES ASSUME Init PROVE Stream!Init
    OBVIOUS
  <2>1. HandledInOrder = 0
    BY InitFraming, HandledNumber DEF Init
  <2> QED
    BY <2>1 DEF Init, Stream!Init
<1> DEFINE Numbered == HandledInOrder = Len(handled)
<1>2. FramingInv /\ Numbered /\ Numbered' /\ [Next]_vars
      => [Stream!Next]_(Stream!vars)
  <2> SUFFICES ASSUME FramingInv, Numbered, Numbered', [Next]_vars
               PROVE  [Stream!Next]_(Stream!vars)
    OBVIOUS
  <2>1. HandledInOrder = Len(handled) /\ HandledInOrder' = Len(handled')
    OBVIOUS
  <2>2. CASE Send
    BY <2>1, <2>2 DEF Send, Stream!Next, Stream!Send
  <2>3. CASE SenderCloses
    BY <2>1, <2>3 DEF SenderCloses, Stream!Next, Stream!SenderCloses
  <2>4. CASE Recv
    BY <2>1, <2>4 DEF Recv, Stream!vars
  <2>5. CASE RecvEnd
    <3>1. Len(handled) = sent
      BY <2>5, StreamEnd DEF RecvEnd
    <3> QED
      BY <2>1, <2>5, <3>1 DEF RecvEnd, Stream!Next, Stream!ReceiverCloses
  <2>6. CASE KeepLine
    <3>1. UNCHANGED <<handled, returned, sent>>
      BY <2>6, KeepLineKeeps
    <3> QED
      BY <2>1, <2>6, <3>1 DEF KeepLine, Stream!vars
  <2>7. CASE HandleMessage
    <3>1. /\ Len(handled) < sent
          /\ Len(handled') = Len(handled) + 1
          /\ returned' = returned + 1
          /\ UNCHANGED <<open, sent, senderOpen>>
      BY <2>7, HandleMessageKeeps
    <3> QED
      BY <2>1, <2>7, <3>1 DEF HandleMessage, Stream!Next, Stream!Receive
  <2>8. CASE UNCHANGED vars
    BY <2>1, <2>8 DEF vars, Stream!vars
  <2> QED
    BY <2>2, <2>3, <2>4, <2>5, <2>6, <2>7, <2>8 DEF Next, ReceiveStep, Terminated
<1>3. FramingInv => Numbered
  BY HandledNumber
<1> HIDE DEF Numbered
<1> QED
  BY <1>1, <1>2, <1>3, FramingInvHolds, PTL DEF Spec
=============================================================================
