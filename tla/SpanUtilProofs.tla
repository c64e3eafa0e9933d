--------------------------- MODULE SpanUtilProofs ---------------------------
(***************************************************************************)
(* The five properties the comment on PartitionEvenly declares, for every  *)
(* vector and every number of spans.  The start of a span is defined by    *)
(* recursion; that it has the closed form StartAt is proved by the         *)
(* least-number principle, and the rest is arithmetic on the closed form.  *)
(***************************************************************************)
EXTENDS SpanUtil, TLAPS, WellFoundedInduction

\* The least-number principle, which is how a fact about every number is proved here
\* without naming a predicate.
LEMMA LeastNumber ==
  ASSUME NEW T \in SUBSET Nat, T # {}
  PROVE  \E x \in T : \A y \in T : x <= y
<1> DEFINE R == OpToRel(<, Nat)
<1>1. IsWellFoundedOn(R, Nat)
  BY NatLessThanWellFounded
<1>2. PICK x \in T : \A y \in T : ~ (<<y, x>> \in R)
  <2> HIDE DEF R
  <2> QED BY <1>1, WFMin
<1>3. ASSUME NEW y \in T PROVE x <= y
  <2>1. x \in Nat /\ y \in Nat
    OBVIOUS
  <2>2. <<y, x>> \in Nat \X Nat /\ <<y, x>>[1] = y /\ <<y, x>>[2] = x
    BY <2>1
  <2>3. ~ (y < x)
    BY <1>2, <2>2 DEF OpToRel
  <2> QED
    BY <2>1, <2>3
<1> QED
  BY <1>3

\* What the loop has advanced by when it reaches span i.
StartAt(len, n, i) == i * (len \div n) + (IF i < len % n THEN i ELSE len % n)

\* A span starts where the one before it ends.
LEMMA SpanSizes ==
  ASSUME NEW len \in Nat, NEW n \in Nat \ {0}, NEW i \in Nat
  PROVE  /\ SpanSize(len, n, i) \in Nat
         /\ StartAt(len, n, i) \in Nat
         /\ StartAt(len, n, i + 1) = StartAt(len, n, i) + SpanSize(len, n, i)
<1> DEFINE q == len \div n
           m == len % n
<1>1. q \in Nat /\ m \in Nat
  OBVIOUS
<1> HIDE DEF q, m
<1>2. (i + 1) * q = i * q + q /\ i * q \in Nat
  BY <1>1
<1> DEFINE a == i * q
           b == (i + 1) * q
<1> HIDE DEF a, b
<1>3. b = a + q /\ a \in Nat
  BY <1>2 DEF a, b
<1>4. /\ SpanSize(len, n, i) = q + (IF i < m THEN 1 ELSE 0)
      /\ StartAt(len, n, i) = a + (IF i < m THEN i ELSE m)
      /\ StartAt(len, n, i + 1) = b + (IF i + 1 < m THEN i + 1 ELSE m)
  BY DEF SpanSize, StartAt, q, m, a, b
<1> QED
  BY <1>1, <1>3, <1>4

\* The recursive definition has the closed form: it has a solution, and no least number
\* at which that solution and the closed form differ.
LEMMA SpanStartIs ==
  ASSUME NEW len \in Nat, NEW n \in Nat \ {0}, NEW i \in Nat
  PROVE  SpanStart(len, n, i) = StartAt(len, n, i)
<1> DEFINE Recurs(f) == f = [k \in 0..i |-> IF k = 0 THEN 0
                              ELSE f[k - 1] + SpanSize(len, n, k - 1)]
           g == CHOOSE f : Recurs(f)
           h == [k \in 0..i |-> StartAt(len, n, k)]
<1>1. SpanStart(len, n, i) = g[i]
  BY DEF SpanStart
<1>2. Recurs(h)
  <2> SUFFICES ASSUME NEW k \in 0..i
               PROVE  StartAt(len, n, k) = IF k = 0 THEN 0
                        ELSE h[k - 1] + SpanSize(len, n, k - 1)
    OBVIOUS
  <2>1. CASE k = 0
    BY <2>1 DEF StartAt
  <2>2. CASE k # 0
    <3>1. k - 1 \in Nat /\ k - 1 \in 0..i /\ (k - 1) + 1 = k
      BY <2>2
    <3> QED
      BY <2>2, <3>1, SpanSizes
  <2> QED
    BY <2>1, <2>2
<1>3. Recurs(g)
  BY <1>2
<1> HIDE DEF g
<1> DEFINE T == {k \in 0..i : g[k] # h[k]}
<1>4. T = {}
  <2> SUFFICES ASSUME T # {} PROVE FALSE
    OBVIOUS
  <2>1. PICK k \in T : \A j \in T : k <= j
    <3>1. T \in SUBSET Nat
      OBVIOUS
    <3> HIDE DEF T
    <3> QED
      BY <3>1, LeastNumber
  <2>2. k # 0
    BY <1>2, <1>3
  <2>3. k - 1 \in 0..i /\ k - 1 \notin T
    BY <2>1, <2>2
  <2>4. g[k - 1] = h[k - 1]
    BY <2>3
  <2>5. /\ g[k] = g[k - 1] + SpanSize(len, n, k - 1)
        /\ h[k] = h[k - 1] + SpanSize(len, n, k - 1)
    <3> HIDE DEF h
    <3> QED
      BY <1>2, <1>3, <2>2
  <2> QED
    BY <2>4, <2>5
<1>5. i \in 0..i
  OBVIOUS
<1> QED
  BY <1>1, <1>4, <1>5

\* A span ends where the next begins or before: a later span starts behind it.
LEMMA SpansApart ==
  ASSUME NEW len \in Nat, NEW n \in Nat \ {0}, NEW i \in Nat, NEW j \in Nat, i < j
  PROVE  StartAt(len, n, i) + SpanSize(len, n, i) <= StartAt(len, n, j)
<1> DEFINE q == len \div n
           m == len % n
           a == (i + 1) * q
           d == j - (i + 1)
<1>1. q \in Nat /\ m \in Nat /\ d \in Nat /\ j = (i + 1) + d
  OBVIOUS
<1> HIDE DEF q, m, d
<1>2. j * q = a + d * q /\ d * q \in Nat /\ a \in Nat
  BY <1>1
<1>3. j * q >= a
  BY <1>1, <1>2
<1>4. /\ StartAt(len, n, i + 1) = a + (IF i + 1 < m THEN i + 1 ELSE m)
      /\ StartAt(len, n, j) = j * q + (IF j < m THEN j ELSE m)
  BY DEF StartAt, q, m
<1> DEFINE e == j * q
<1> HIDE DEF a, e
<1>5. StartAt(len, n, i + 1) <= StartAt(len, n, j)
  <2>1. /\ StartAt(len, n, j) = e + (IF j < m THEN j ELSE m)
        /\ e >= a /\ e \in Nat /\ a \in Nat
    BY <1>1, <1>2, <1>3, <1>4 DEF e
  <2> QED
    BY <1>1, <1>4, <2>1
<1> QED
  BY <1>5, SpanSizes

\* The first span starts at the beginning and the last ends at the end.
LEMMA SpansMeetEnds ==
  ASSUME NEW len \in Nat, NEW n \in Nat \ {0}
  PROVE  StartAt(len, n, 0) = 0 /\ StartAt(len, n, n) = len
<1>1. len % n \in 0..(n - 1) /\ len \div n \in Nat
  OBVIOUS
<1>2. len = n * (len \div n) + (len % n)
  OBVIOUS
<1> QED
  BY <1>1, <1>2 DEF StartAt

\* The span a position of the vector falls into.
LEMMA SpanOfPosition ==
  ASSUME NEW len \in Nat, NEW n \in Nat \ {0}, NEW k \in 1..len
  PROVE  \E i \in 1..n : /\ StartAt(len, n, i - 1) < k
                         /\ k <= StartAt(len, n, i - 1) + SpanSize(len, n, i - 1)
<1> DEFINE T == {i \in Nat : k <= StartAt(len, n, i)}
<1>1. n \in T
  BY SpansMeetEnds
<1>2. PICK i \in T : \A j \in T : i <= j
  <2>1. T \in SUBSET Nat /\ T # {}
    BY <1>1
  <2> HIDE DEF T
  <2> QED
    BY <2>1, LeastNumber
<1>3. i # 0
  BY <1>2, SpansMeetEnds
<1>4. i - 1 \in Nat /\ i - 1 \notin T /\ (i - 1) + 1 = i /\ i \in 1..n
  BY <1>1, <1>2, <1>3
<1>5. k <= StartAt(len, n, i)
  BY <1>2
<1>6. /\ StartAt(len, n, i) = StartAt(len, n, i - 1) + SpanSize(len, n, i - 1)
      /\ StartAt(len, n, i - 1) \in Nat
  BY <1>4, SpanSizes
<1>7. ~ (k <= StartAt(len, n, i - 1))
  BY <1>4
<1> QED
  BY <1>4, <1>5, <1>6, <1>7

\* A span lies within the vector.
LEMMA SpanFits ==
  ASSUME NEW len \in Nat, NEW n \in Nat \ {0}, NEW b \in Nat, b < n
  PROVE  /\ StartAt(len, n, b) \in Nat /\ SpanSize(len, n, b) \in Nat
         /\ StartAt(len, n, b) + SpanSize(len, n, b) <= len
<1>1. /\ StartAt(len, n, b) \in Nat /\ SpanSize(len, n, b) \in Nat
      /\ StartAt(len, n, b + 1) = StartAt(len, n, b) + SpanSize(len, n, b)
  BY SpanSizes
<1>2. CASE b + 1 = n
  BY <1>1, <1>2, SpansMeetEnds
<1>3. CASE b + 1 # n
  <2>1. b + 1 < n /\ b + 1 \in Nat /\ n \in Nat
    BY <1>3
  <2>2. /\ StartAt(len, n, b + 1) + SpanSize(len, n, b + 1) <= StartAt(len, n, n)
        /\ SpanSize(len, n, b + 1) \in Nat /\ StartAt(len, n, b + 1) \in Nat
    BY <2>1, SpansApart, SpanSizes
  <2> QED
    BY <1>1, <2>2, SpansMeetEnds
<1> QED
  BY <1>2, <1>3

\* The span as a part of the vector.
LEMMA SpanIs ==
  ASSUME NEW v, NEW len \in Nat, len = Len(v), NEW n \in Nat \ {0}, NEW i \in 1..n
  PROVE  PartitionEvenly(v, n)[i]
           = SubSeq(v, StartAt(len, n, i - 1) + 1,
                    StartAt(len, n, i - 1) + SpanSize(len, n, i - 1))
<1>1. SpanStart(len, n, i - 1) = StartAt(len, n, i - 1)
  <2>1. i - 1 \in Nat
    OBVIOUS
  <2> DEFINE b == i - 1
  <2> HIDE DEF b
  <2>2. SpanStart(len, n, b) = StartAt(len, n, b)
    BY <2>1, SpanStartIs DEF b
  <2> QED
    BY <2>2 DEF b
<1> QED
  BY <1>1 DEF PartitionEvenly

\* The spans of the numbers 1 to len are intervals of them.
LEMMA SpanOfNumbers ==
  ASSUME NEW len \in Nat, NEW n \in Nat \ {0}, NEW i \in 1..n,
         NEW span, span = PartitionEvenly([c \in 1..len |-> c], n)[i]
  PROVE  /\ Len(span) = SpanSize(len, n, i - 1)
         /\ \A k \in 1..SpanSize(len, n, i - 1) : span[k] = StartAt(len, n, i - 1) + k
<1> DEFINE v == [c \in 1..len |-> c]
           first == StartAt(len, n, i - 1)
           size == SpanSize(len, n, i - 1)
<1>1. v \in Seq(Nat) /\ len = Len(v) /\ \A c \in 1..len : v[c] = c
  OBVIOUS
<1>2. i - 1 \in Nat /\ i - 1 < n
  OBVIOUS
<1>3. first \in Nat /\ size \in Nat /\ first + size <= len
  BY <1>2, SpanFits
<1>4. span = PartitionEvenly(v, n)[i]
  OBVIOUS
<1> HIDE DEF v
<1>5. span = SubSeq(v, first + 1, first + size)
  BY <1>1, <1>4, SpanIs
<1> HIDE DEF first, size
<1>6. Len(span) = size /\ \A k \in 1..size : span[k] = v[first + k]
  <2>1. Len(span) = size
    BY <1>1, <1>3, <1>5
  <2>2. \A k \in 1..size : span[k] = v[first + k]
    BY <1>1, <1>3, <1>5
  <2> QED
    BY <2>1, <2>2
<1>7. \A k \in 1..size : first + k \in 1..len
  BY <1>3
<1> QED
  BY <1>1, <1>6, <1>7 DEF first, size

\* A span of a vector: where it lies and what it holds.
LEMMA SpanHolds ==
  ASSUME NEW S, NEW v \in Seq(S), NEW n \in Nat \ {0}, NEW i \in 1..n
  PROVE  /\ StartAt(Len(v), n, i - 1) \in Nat /\ SpanSize(Len(v), n, i - 1) \in Nat
         /\ PartitionEvenly(v, n)[i] \in Seq(S)
         /\ Len(PartitionEvenly(v, n)[i]) = SpanSize(Len(v), n, i - 1)
         /\ \A k \in 1..SpanSize(Len(v), n, i - 1) :
              PartitionEvenly(v, n)[i][k] = v[StartAt(Len(v), n, i - 1) + k]
<1> DEFINE span == PartitionEvenly(v, n)[i]
           first == StartAt(Len(v), n, i - 1)
           size == SpanSize(Len(v), n, i - 1)
<1>1. Len(v) \in Nat /\ i - 1 \in Nat /\ i - 1 < n
  OBVIOUS
<1>2. first \in Nat /\ size \in Nat /\ first + size <= Len(v)
  BY <1>1, SpanFits
<1>3. span = SubSeq(v, first + 1, first + size)
  BY <1>1, SpanIs
<1> HIDE DEF first, size, span
<1>4. span \in Seq(S) /\ Len(span) = size
  BY <1>1, <1>2, <1>3
<1>5. \A k \in 1..size : span[k] = v[first + k]
  BY <1>1, <1>2, <1>3
<1> QED
  BY <1>2, <1>4, <1>5 DEF span, first, size

\* Two spans: the earlier one is as long as the later or longer by one, and ends before
\* the later one starts.
LEMMA SpansDiffer ==
  ASSUME NEW S, NEW v \in Seq(S), NEW n \in Nat \ {0}, NEW i \in 1..n, NEW j \in 1..n, i < j
  PROVE  /\ Len(PartitionEvenly(v, n)[i]) - Len(PartitionEvenly(v, n)[j]) \in {0, 1}
         /\ Len(v) < j => PartitionEvenly(v, n)[j] = <<>>
         /\ StartAt(Len(v), n, i - 1) + Len(PartitionEvenly(v, n)[i]) <= StartAt(Len(v), n, j - 1)
<1> DEFINE span(k) == PartitionEvenly(v, n)[k]
           first(k) == StartAt(Len(v), n, k - 1)
           size(k) == SpanSize(Len(v), n, k - 1)
           q == Len(v) \div n
           m == Len(v) % n
<1>1. ASSUME NEW k \in 1..n
      PROVE  Len(span(k)) = size(k) /\ size(k) \in Nat /\ span(k) \in Seq(S)
  BY SpanHolds, ZenonT(30)
<1>2. Len(v) \in Nat /\ q \in Nat /\ m \in Nat /\ i - 1 \in Nat /\ j - 1 \in Nat
  OBVIOUS
<1>3. first(i) + size(i) <= first(j)
  BY <1>2, SpansApart
<1>4. /\ size(i) = q + (IF i - 1 < m THEN 1 ELSE 0)
      /\ size(j) = q + (IF j - 1 < m THEN 1 ELSE 0)
  BY DEF SpanSize
<1>5. ASSUME Len(v) < j PROVE span(j) = <<>>
  <2>1. Len(v) < n
    BY <1>2, <1>5
  <2>2. q = 0 /\ m = Len(v)
    BY <1>2, <2>1
  <2> HIDE DEF q, m, span, size
  <2>3. size(j) = 0
    BY <1>2, <1>4, <1>5, <2>2
  <2> QED
    BY <1>1, <2>3
<1> HIDE DEF q, m, span, first, size
<1>6. size(i) - size(j) \in {0, 1}
  BY <1>2, <1>4
<1> QED
  BY <1>1, <1>3, <1>5, <1>6 DEF span, first

\* The five properties the comment on PartitionEvenly declares, for every vector and
\* every number of spans: the sizes differ by one at most and the larger spans come
\* first; with fewer elements than spans the last ones are empty; every position of
\* the vector lies in exactly one span, and earlier positions in earlier spans.
THEOREM SpansArePartition ==
  ASSUME NEW S, NEW v \in Seq(S), NEW n \in Nat \ {0}
  PROVE  LET spans == PartitionEvenly(v, n)
             first(i) == StartAt(Len(v), n, i - 1)
         IN  /\ DOMAIN spans = 1..n
             /\ \A i, j \in 1..n : i < j =>
                  /\ Len(spans[i]) - Len(spans[j]) \in {0, 1}
                  /\ Len(v) < j => spans[j] = <<>>
                  /\ first(i) + Len(spans[i]) <= first(j)
             /\ \A i \in 1..n, k \in 1..Len(v) :
                  first(i) < k /\ k <= first(i) + Len(spans[i])
                    => spans[i][k - first(i)] = v[k]
             /\ \A k \in 1..Len(v) :
                  \E i \in 1..n : first(i) < k /\ k <= first(i) + Len(spans[i])
<1> DEFINE spans == PartitionEvenly(v, n)
           first(i) == StartAt(Len(v), n, i - 1)
           size(i) == SpanSize(Len(v), n, i - 1)
<1>1. Len(v) \in Nat
  OBVIOUS
<1>2. DOMAIN spans = 1..n
  BY DEF PartitionEvenly
<1>3. ASSUME NEW i \in 1..n
      PROVE  /\ first(i) \in Nat /\ Len(spans[i]) = size(i) /\ size(i) \in Nat
             /\ \A k \in 1..size(i) : spans[i][k] = v[first(i) + k]
  <2>1. first(i) \in Nat /\ size(i) \in Nat /\ Len(PartitionEvenly(v, n)[i]) = size(i)
    BY SpanHolds, ZenonT(30)
  <2>2. \A k \in 1..size(i) : PartitionEvenly(v, n)[i][k] = v[first(i) + k]
    BY SpanHolds, ZenonT(30)
  <2> QED
    BY <2>1, <2>2
<1>4. ASSUME NEW i \in 1..n, NEW j \in 1..n, i < j
      PROVE  /\ Len(spans[i]) - Len(spans[j]) \in {0, 1}
             /\ Len(v) < j => spans[j] = <<>>
             /\ first(i) + Len(spans[i]) <= first(j)
  BY <1>4, SpansDiffer
<1>5. ASSUME NEW i \in 1..n, NEW k \in 1..Len(v),
             first(i) < k, k <= first(i) + Len(spans[i])
      PROVE  spans[i][k - first(i)] = v[k]
  <2> HIDE DEF spans, size, first
  <2>1. k - first(i) \in 1..size(i) /\ first(i) + (k - first(i)) = k
    BY <1>1, <1>3, <1>5
  <2> QED
    BY <1>3, <2>1
<1>6. ASSUME NEW k \in 1..Len(v)
      PROVE  \E i \in 1..n : first(i) < k /\ k <= first(i) + Len(spans[i])
  <2>1. PICK i \in 1..n : first(i) < k /\ k <= first(i) + size(i)
    BY <1>1, SpanOfPosition
  <2> QED
    BY <1>3, <2>1
<1> HIDE DEF spans
<1> QED
  BY <1>2, <1>4, <1>5, <1>6 DEF spans
=============================================================================
