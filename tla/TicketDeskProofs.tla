-------------------------- MODULE TicketDeskProofs --------------------------
(* The ticket desk, for any staff, prices, offers and number of sales.     *)
(* The sums over sets are those of PostingProofs.                          *)
EXTENDS TicketDesk, PostingProofs, SequenceTheorems

-----------------------------------------------------------------------------
(* Sums and counts.                                                        *)

LEMMA SumOverIsOver == ASSUME NEW f PROVE SumOver(f) = Over(f, DOMAIN f)
BY DEF SumOver, Over

(* Two sums over one set are the sum of the pairs.                         *)
LEMMA SumPlus ==
  ASSUME NEW S, NEW f, Summable(f, S), NEW g, Summable(g, S),
         NEW h, \A x \in S : h[x] = f[x] + g[x]
  PROVE  /\ Summable(h, S)
         /\ Over(h, S) = Over(f, S) + Over(g, S)
<1>0. Summable(h, S)
  BY DEF Summable
<1> DEFINE T == {s \in SUBSET S : Over(h, s) # Over(f, s) + Over(g, s)}
<1>1. T \in SUBSET SUBSET S
  OBVIOUS
<1> HIDE DEF T
<1>2. ASSUME T # {} PROVE FALSE
  <2>1. PICK s \in T : \A t \in T : ~(t \subseteq s /\ t # s)
    BY <1>1, <1>2, SmallestSet DEF Summable
  <2> USE DEF T
  <2>2. s # {}
    BY SumEmpty
  <2>3. PICK x \in s : TRUE
    BY <2>2
  <2>4. Over(h, s \ {x}) = Over(f, s \ {x}) + Over(g, s \ {x})
    BY <2>1, <2>3
  <2>5. Summable(f, s) /\ Summable(g, s) /\ Summable(h, s)
    BY <1>0, PartSummable
  <2>6. /\ Over(f, s) = f[x] + Over(f, s \ {x})
        /\ Over(g, s) = g[x] + Over(g, s \ {x})
        /\ Over(h, s) = h[x] + Over(h, s \ {x})
    BY <2>3, <2>5, SumRemove
  <2>7. /\ Over(f, s \ {x}) \in Int /\ Over(g, s \ {x}) \in Int
    BY PartSummable, SumType
  <2>8. f[x] \in Int /\ g[x] \in Int /\ h[x] = f[x] + g[x]
    BY <2>3 DEF Summable
  <2>9. Over(h, s) = Over(f, s) + Over(g, s)
    BY <2>4, <2>6, <2>7, <2>8
  <2> QED
    BY <2>1, <2>9
<1> QED
  BY <1>0, <1>2 DEF T

(* Of a table with a row for each of S and a column for each of U, b has   *)
(* the sums of the rows and c those of the columns; t is the table turned. *)
Table(S, U, a, t, b, c) ==
  /\ IsFiniteSet(S) /\ IsFiniteSet(U)
  /\ \A x \in S : \A y \in U : a[x][y] \in Int /\ t[y][x] = a[x][y]
  /\ \A x \in S : b[x] = Over(a[x], U)
  /\ \A y \in U : c[y] = Over(t[y], S)

(* Sums over two sets can be taken in either order.                        *)
LEMMA SumSwap ==
  ASSUME NEW S, NEW U, NEW a, NEW t, NEW b, NEW c, Table(S, U, a, t, b, c)
  PROVE  Over(b, S) = Over(c, U)
<1> USE DEF Table
<1> DEFINE C(s) == [y \in U |-> Over(t[y], s)]
           T == {s \in SUBSET S : Over(b, s) # Over(C(s), U)}
<1>1. T \in SUBSET SUBSET S
  OBVIOUS
<1>2. \A y \in U : Summable(t[y], S)
  BY DEF Summable
<1>3. \A x \in S : Summable(a[x], U) /\ Over(a[x], U) \in Int
  BY SumType DEF Summable
<1>4. \A s \in SUBSET S : Summable(C(s), U) /\ \A y \in U : C(s)[y] \in Int
  BY <1>2, PartSummable, SumType DEF Summable
<1>5. Summable(b, S)
  BY <1>3 DEF Summable
<1> HIDE DEF T
<1>6. ASSUME T # {} PROVE FALSE
  <2>1. PICK s \in T : \A q \in T : ~(q \subseteq s /\ q # s)
    BY <1>1, <1>6, SmallestSet
  <2>2. s \in SUBSET S /\ Over(b, s) # Over(C(s), U)
    BY DEF T
  <2>3. s # {}
    <3> SUFFICES ASSUME s = {} PROVE FALSE
      OBVIOUS
    <3>1. \A y \in U : C(s)[y] = 0
      BY SumEmpty
    <3>2. Summable(C(s), U)
      BY <1>4, <2>2
    <3> HIDE DEF C
    <3>3. Over(C(s), U) = Over(C(s), {})
      BY <3>1, <3>2, SumZeros
    <3> QED
      BY <2>2, <3>3, SumEmpty
  <2>4. PICK x \in s : TRUE
    BY <2>3
  <2> DEFINE r == s \ {x}
  <2>5. r \in SUBSET S /\ r \notin T
    BY <2>1, <2>2, <2>4
  <2>6. Over(b, r) = Over(C(r), U)
    BY <2>5 DEF T
  <2>7. \A y \in U : C(s)[y] = a[x][y] + C(r)[y]
    <3> TAKE y \in U
    <3>1. Summable(t[y], s)
      BY <1>2, <2>2, PartSummable
    <3>2. Over(t[y], s) = t[y][x] + Over(t[y], r)
      BY <3>1, <2>4, SumRemove
    <3> QED
      BY <3>2, <2>2, <2>4
  <2>8. Over(b, s) = b[x] + Over(b, r)
    BY <1>5, <2>2, <2>4, PartSummable, SumRemove
  <2>9. Summable(a[x], U) /\ Summable(C(r), U) /\ b[x] = Over(a[x], U)
    BY <1>3, <1>4, <2>2, <2>4, <2>5
  <2> HIDE DEF C, r
  <2>10. Over(C(s), U) = Over(a[x], U) + Over(C(r), U)
    BY <2>7, <2>9, SumPlus
  <2> QED
    BY <2>2, <2>6, <2>8, <2>9, <2>10
<1>7. Over(b, S) = Over(C(S), U)
  BY <1>6 DEF T
<1>8. Over(C(S), U) = Over(c, U)
  <2>1. \A y \in U : C(S)[y] = c[y]
    OBVIOUS
  <2> HIDE DEF C
  <2> QED
    BY <2>1, SumSame
<1> QED
  BY <1>7, <1>8

(* A sum is the sum of its sums by class.                                  *)
LEMMA SumByClass ==
  ASSUME NEW S, NEW f, Summable(f, S), NEW U, IsFiniteSet(U),
         NEW g, \A x \in S : g[x] \in U,
         NEW c, \A y \in U : c[y] = Over(f, {x \in S : g[x] = y})
  PROVE  Over(c, U) = Over(f, S)
<1> DEFINE a == [x \in S |-> [y \in U |-> IF g[x] = y THEN f[x] ELSE 0]]
<1>1. \A x \in S : f[x] \in Int /\ f[x] = Over(a[x], U)
  <2> TAKE x \in S
  <2>1. f[x] \in Int /\ g[x] \in U /\ a[x][g[x]] = f[x]
    BY DEF Summable
  <2>2. \A y \in U : a[x][y] \in Int
    BY <2>1
  <2>3. \A y \in U \ {g[x]} : a[x][y] = 0
    BY <2>1
  <2> DEFINE w == a[x]
  <2>4. Summable(w, U) /\ Summable(w, {g[x]}) /\ w[g[x]] = f[x] /\ \A y \in U \ {g[x]} : w[y] = 0
    BY <2>1, <2>2, <2>3, FS_Singleton DEF Summable
  <2> HIDE DEF w
  <2>5. Over(w, U) = Over(w, {g[x]})
    BY <2>1, <2>4, SumZeros
  <2>6. Over(w, {g[x]}) = w[g[x]] + Over(w, {g[x]} \ {g[x]})
    BY <2>4, SumRemove
  <2>7. {g[x]} \ {g[x]} = {}
    OBVIOUS
  <2>8. Over(w, {g[x]} \ {g[x]}) = 0
    BY <2>7, SumEmpty
  <2>9. Over(w, U) = f[x]
    <3> DEFINE p == Over(w, {g[x]})
               q == Over(w, {g[x]} \ {g[x]})
    <3>1. p = f[x] + q /\ q = 0 /\ Over(w, U) = p /\ f[x] \in Int
      BY <2>1, <2>4, <2>5, <2>6, <2>8
    <3> HIDE DEF p, q
    <3>2. p = f[x]
      BY <3>1
    <3> QED
      BY <3>1, <3>2
  <2> QED
    BY <2>1, <2>9 DEF w
<1>2. \A x \in S : \A y \in U : a[x][y] \in Int
  BY DEF Summable
<1> DEFINE t == [y \in U |-> [x \in S |-> a[x][y]]]
<1>3. \A y \in U : c[y] = Over(t[y], S)
  <2> TAKE y \in U
  <2> DEFINE P == {x \in S : g[x] = y}
             v == t[y]
  <2>1. Summable(v, S) /\ P \in SUBSET S /\ \A x \in S \ P : v[x] = 0
    BY <1>2 DEF Summable
  <2>2. \A x \in P : v[x] = f[x]
    OBVIOUS
  <2> HIDE DEF v, P
  <2>3. Over(v, S) = Over(v, P) /\ Over(v, P) = Over(f, P)
    BY <2>1, <2>2, SumZeros, SumSame
  <2> QED
    BY <2>3 DEF v, P
<1>4. IsFiniteSet(S)
  BY DEF Summable
<1>5. \A y \in U : \A x \in S : t[y][x] = a[x][y]
  OBVIOUS
<1> HIDE DEF a, t
<1>6. \A x \in S : f[x] = Over(a[x], U)
  BY <1>1
<1>7. Table(S, U, a, t, f, c)
  BY <1>2, <1>3, <1>4, <1>5, <1>6 DEF Table
<1> QED
  BY <1>7, SumSwap

(* How many items of a sequence are in P.                                  *)
CountIn(s, P) == Cardinality({i \in DOMAIN s : s[i] \in P})

LEMMA CountConcat ==
  ASSUME NEW X, NEW s \in Seq(X), NEW t \in Seq(X), NEW P
  PROVE  CountIn(s \o t, P) = CountIn(s, P) + CountIn(t, P)
<1> DEFINE A == {i \in DOMAIN s : s[i] \in P}
           B == {i \in DOMAIN t : t[i] \in P}
           C == {i \in DOMAIN (s \o t) : (s \o t)[i] \in P}
           m == Len(s)
           n == Len(t)
           D == {i \in C : i > m}
           g == [i \in B |-> m + i]
<1>1. m \in Nat /\ n \in Nat /\ DOMAIN s = 1 .. m /\ DOMAIN t = 1 .. n
  BY LenProperties
<1>2. DOMAIN (s \o t) = 1 .. (m + n)
  BY ConcatProperties, LenProperties
<1>3. \A i \in 1 .. m + n : (s \o t)[i] = IF i <= m THEN s[i] ELSE t[i - m]
  BY ConcatProperties, <1>1
<1> HIDE DEF m, n
<1>4. C = A \union D /\ A \cap D = {}
  <2>1. ASSUME NEW i \in C PROVE i \in A \union D
    BY <1>1, <1>2, <1>3
  <2>2. ASSUME NEW i \in A PROVE i \in C /\ i \notin D
    BY <1>1, <1>2, <1>3
  <2> QED
    BY <2>1, <2>2
<1>5. IsFiniteSet(A) /\ IsFiniteSet(B) /\ IsFiniteSet(D)
  <2>1. IsFiniteSet(1 .. m) /\ IsFiniteSet(1 .. n) /\ IsFiniteSet(1 .. (m + n))
    BY <1>1, FS_Interval
  <2>2. A \in SUBSET (1 .. m) /\ B \in SUBSET (1 .. n) /\ D \in SUBSET (1 .. (m + n))
    BY <1>1, <1>2
  <2> QED
    BY <2>1, <2>2, FS_Subset
<1>6. g \in Bijection(B, D)
  <2>1. ASSUME NEW i \in B PROVE g[i] \in D
    BY <1>1, <1>2, <1>3
  <2>2. ASSUME NEW d \in D PROVE \E i \in B : g[i] = d
    <3>1. d - m \in B /\ g[d - m] = d
      BY <1>1, <1>2, <1>3
    <3> QED
      BY <3>1
  <2>3. ASSUME NEW i \in B, NEW j \in B, g[i] = g[j] PROVE i = j
    BY <1>1, <2>3
  <2> QED
    BY <2>1, <2>2, <2>3 DEF Bijection, Injection, Surjection, IsInjective
<1>7. Cardinality(B) = Cardinality(D)
  BY <1>5, <1>6, FS_Bijection DEF ExistsBijection
<1>8. Cardinality(C) = Cardinality(A) + Cardinality(D) - Cardinality(A \cap D)
  BY <1>4, <1>5, FS_Union
<1>9. Cardinality(A \cap D) = 0
  BY <1>4, FS_EmptySet
<1>10. Cardinality(A) \in Nat /\ Cardinality(D) \in Nat
  BY <1>5, FS_CardinalityType
<1>11. CountIn(s \o t, P) = Cardinality(C) /\ CountIn(s, P) = Cardinality(A)
       /\ CountIn(t, P) = Cardinality(B)
  BY DEF CountIn
<1> HIDE DEF A, B, C, D
<1> QED
  BY <1>7, <1>8, <1>9, <1>10, <1>11

(* The sequence of flattened beginnings.                                   *)
IsFlat(seqs, n, h) == h = [i \in 1 .. n |-> IF i = 1 THEN seqs[i] ELSE h[i - 1] \o seqs[i]]

LEMMA FlatExists ==
  ASSUME NEW seqs, NEW n \in Nat
  PROVE  \E h : IsFlat(seqs, n, h)
<1> DEFINE P == {k \in Nat : ~\E h : IsFlat(seqs, k, h)}
<1>1. ASSUME P # {} PROVE FALSE
  <2>1. PICK k \in P : \A m \in P : k <= m
    BY <1>1, LeastNatural
  <2>2. IsFlat(seqs, 0, <<>>)
    BY DEF IsFlat
  <2>3. k \in Nat \ {0} /\ k - 1 \in Nat
    BY <2>2
  <2>4. PICK g : IsFlat(seqs, k - 1, g)
    BY <2>1, <2>3
  <2> DEFINE h == [i \in 1 .. k |-> IF i < k THEN g[i]
                                    ELSE IF i = 1 THEN seqs[i] ELSE g[i - 1] \o seqs[i]]
  <2>5. g = [i \in 1 .. (k - 1) |-> IF i = 1 THEN seqs[i] ELSE g[i - 1] \o seqs[i]]
    BY <2>4 DEF IsFlat
  <2>6. \A i \in 1 .. k : h[i] = IF i = 1 THEN seqs[i] ELSE h[i - 1] \o seqs[i]
    <3> TAKE i \in 1 .. k
    <3>1. CASE i < k
      <4>1. i \in 1 .. (k - 1) /\ h[i] = g[i]
        BY <2>3, <3>1
      <4>2. i # 1 => i - 1 \in 1 .. (k - 1) /\ h[i - 1] = g[i - 1]
        BY <2>3, <3>1
      <4> HIDE DEF h
      <4> QED
        BY <2>5, <4>1, <4>2
    <3>2. CASE i = k
      <4>1. i # 1 => i - 1 \in 1 .. k /\ i - 1 < k
        BY <2>3, <3>2
      <4> QED
        BY <3>2, <4>1
    <3> QED
      BY <2>3, <3>1, <3>2
  <2>7. h = [i \in 1 .. k |-> IF i = 1 THEN seqs[i] ELSE h[i - 1] \o seqs[i]]
    BY <2>6
  <2> HIDE DEF h
  <2> QED
    BY <2>1, <2>7 DEF IsFlat
<1> QED
  BY <1>1

(* Flattening keeps what is in the sequences, and how often.               *)
LEMMA FlattenCounts ==
  ASSUME NEW X, NEW seqs \in Seq(Seq(X)), NEW P
  PROVE  /\ FlattenSeq(seqs) \in Seq(X)
         /\ CountIn(FlattenSeq(seqs), P) = SumOver([l \in DOMAIN seqs |-> CountIn(seqs[l], P)])
<1> DEFINE w == [l \in DOMAIN seqs |-> CountIn(seqs[l], P)]
           n == Len(seqs)
<1>1. n \in Nat /\ DOMAIN seqs = 1 .. n /\ \A l \in 1 .. n : seqs[l] \in Seq(X)
  BY LenProperties, ElementOfSeq
<1>2. SumOver(w) = Over(w, 1 .. n)
  BY <1>1, SumOverIsOver
<1>3. \A s \in Seq(X) : CountIn(s, P) \in Nat
  <2> TAKE s \in Seq(X)
  <2>1. IsFiniteSet(DOMAIN s)
    BY LenProperties, FS_Interval
  <2> QED
    BY <2>1, FS_Subset, FS_CardinalityType DEF CountIn
<1>4. CASE n = 0
  <2>1. seqs = <<>> /\ 1 .. n = {}
    BY <1>4, <1>1, EmptySeq
  <2>2. FlattenSeq(seqs) = <<>>
    BY <1>4, <2>1 DEF FlattenSeq
  <2>3. CountIn(<<>>, P) = 0
    BY FS_EmptySet DEF CountIn
  <2> QED
    BY <1>2, <2>1, <2>2, <2>3, SumEmpty, EmptySeq
<1>5. CASE n # 0
  <2> DEFINE f == CHOOSE h : IsFlat(seqs, n, h)
  <2>1. FlattenSeq(seqs) = f[n]
    BY <1>5 DEF FlattenSeq, IsFlat
  <2>2. IsFlat(seqs, n, f)
    BY <1>1, FlatExists
  <2> HIDE DEF f
  <2>3. f = [i \in 1 .. n |-> IF i = 1 THEN seqs[i] ELSE f[i - 1] \o seqs[i]]
    BY <2>2 DEF IsFlat
  <2> DEFINE Q == {k \in 1 .. n : ~(f[k] \in Seq(X) /\ CountIn(f[k], P) = Over(w, 1 .. k))}
  <2>4. ASSUME Q # {} PROVE FALSE
    <3>1. Q \in SUBSET Nat
      BY <1>1
    <3>2. PICK k \in Q : \A m \in Q : k <= m
      BY <2>4, <3>1, LeastNatural
    <3>3. k \in 1 .. n /\ k \in DOMAIN seqs /\ seqs[k] \in Seq(X) /\ w[k] = CountIn(seqs[k], P)
      BY <1>1
    <3>4. CASE k = 1
      <4>1. f[k] = seqs[k]
        BY <2>3, <3>3, <3>4
      <4>2. 1 .. k = {k} /\ {k} \ {k} = {}
        BY <3>4
      <4>3. w[k] \in Int
        BY <1>3, <3>3
      <4>4. Summable(w, {k})
        BY <4>3, FS_Singleton DEF Summable
      <4>5. Over(w, {k}) = w[k] + Over(w, {k} \ {k})
        BY <4>4, SumRemove
      <4>6. Over(w, {k} \ {k}) = 0
        BY <4>2, SumEmpty
      <4> HIDE DEF w
      <4>7. Over(w, 1 .. k) = Over(w, {k})
        BY <4>2
      <4>8. Over(w, 1 .. k) = w[k]
        <5> DEFINE a == Over(w, {k})
                   b == w[k]
                   c == Over(w, {k} \ {k})
        <5>1. b \in Int /\ a = b + c /\ c = 0 /\ Over(w, 1 .. k) = a
          BY <4>3, <4>5, <4>6, <4>7
        <5> HIDE DEF a, b, c
        <5>2. a = b
          BY <5>1
        <5> QED
          BY <5>1, <5>2 DEF b
      <4> QED
        BY <3>3, <4>1, <4>8
    <3>5. CASE k # 1
      <4>1. k - 1 \in 1 .. n /\ k - 1 < k
        BY <1>1, <3>3, <3>5
      <4>2. f[k - 1] \in Seq(X) /\ CountIn(f[k - 1], P) = Over(w, 1 .. (k - 1))
        <5>1. k \in Nat /\ k - 1 \in Nat
          BY <3>3, <4>1, <1>1
        <5>2. k - 1 \notin Q
          <6> HIDE DEF Q
          <6> SUFFICES ASSUME k - 1 \in Q PROVE FALSE
            OBVIOUS
          <6>1. k <= k - 1
            BY <3>2
          <6> QED
            BY <5>1, <6>1
        <5> QED
          BY <4>1, <5>2
      <4>3. f[k] = f[k - 1] \o seqs[k]
        BY <2>3, <3>3, <3>5
      <4>4. f[k] \in Seq(X) /\ CountIn(f[k], P) = CountIn(f[k - 1], P) + w[k]
        BY <3>3, <4>2, <4>3, ConcatProperties, CountConcat
      <4>9. \A l \in 1 .. n : w[l] \in Int
        BY <1>1, <1>3
      <4>10. IsFiniteSet(1 .. (k - 1)) /\ 1 .. (k - 1) \subseteq 1 .. n
        <5>1. k \in Int /\ k - 1 \in Int /\ k - 1 <= n
          BY <1>1, <3>3, <4>1
        <5> QED
          <6>1. \A i \in 1 .. (k - 1) : i \in 1 .. n
            BY <1>1, <5>1
          <6>2. IsFiniteSet(1 .. (k - 1))
            BY <5>1, FS_Interval
          <6> QED
            BY <6>1, <6>2
      <4>5. Summable(w, 1 .. (k - 1)) /\ w[k] \in Int
        BY <3>3, <4>9, <4>10 DEF Summable
      <4>6. 1 .. k = (1 .. (k - 1)) \union {k} /\ k \notin 1 .. (k - 1)
        BY <3>3, <4>1
      <4>7. Over(w, 1 .. k) = w[k] + Over(w, 1 .. (k - 1))
        BY <4>5, <4>6, SumAdd
      <4>8. Over(w, 1 .. (k - 1)) \in Int
        BY <4>5, SumType
      <4> QED
        BY <4>2, <4>4, <4>5, <4>7, <4>8
    <3> QED
      BY <3>4, <3>5
  <2>5. n \in 1 .. n
    BY <1>1, <1>5
  <2>6. f[n] \in Seq(X) /\ CountIn(f[n], P) = Over(w, 1 .. n)
    BY <2>4, <2>5
  <2> QED
    BY <1>2, <2>1, <2>6
<1> QED
  BY <1>4, <1>5

(* An interval counts its members.                                         *)
LEMMA UpTo ==
  ASSUME NEW n \in Nat
  PROVE  IsFiniteSet(1 .. n) /\ Cardinality(1 .. n) = n
<1>1. IsFiniteSet(1 .. n) /\ Cardinality(1 .. n) = IF 1 > n THEN 0 ELSE n - 1 + 1
  BY FS_Interval
<1> QED
  BY <1>1

(* f is g with zeros around it.                                            *)
Padded(f, g) ==
  /\ IsFiniteSet(DOMAIN f) /\ \A x \in DOMAIN f : f[x] \in Int
  /\ DOMAIN g \subseteq DOMAIN f
  /\ \A x \in DOMAIN g : g[x] = f[x]
  /\ \A x \in DOMAIN f \ DOMAIN g : f[x] = 0

(* A sum may leave out what adds nothing.                                  *)
LEMMA SumWhere ==
  ASSUME NEW f, NEW g, Padded(f, g)
  PROVE  SumOver(g) = SumOver(f)
<1> DEFINE S == DOMAIN f
           P == DOMAIN g
<1> USE DEF Padded
<1>1. SumOver(g) = Over(g, P) /\ SumOver(f) = Over(f, S)
  BY SumOverIsOver
<1>2. Over(g, P) = Over(f, P)
  BY SumSame
<1>3. Over(f, S) = Over(f, P)
  BY SumZeros DEF Summable
<1> QED
  BY <1>1, <1>2, <1>3

-----------------------------------------------------------------------------
(* Prices.                                                                 *)

(* Tickets no offer has touched.                                           *)
Fresh == {h \in Ticket(Types) : h.discount = 0 /\ h.member = FALSE /\ h.rule = NoRule}

Prices == [id : Types, class : Classes, price : Nat, capacity : Capacity]
Lines  == Seq([type : Types, quantity : Nat])

(* The expanded basket has as many tickets of each type as were asked for, *)
(* and no others.                                                          *)
LEMMA ExpandSound ==
  ASSUME NEW types \in SUBSET Prices, NEW lines \in Lines,
         \A l \in DOMAIN lines : \E t \in types : t.id = lines[l].type
  PROVE  /\ Expand(types, lines) \in Seq(Fresh)
         /\ Len(Expand(types, lines)) = WantedInAll(lines)
         /\ \A t : Cardinality(HeadsOf(Expand(types, lines), t)) = Wanted(lines, t)
<1> DEFINE price(l) == CHOOSE t \in types : t.id = lines[l].type
           head(l)  == [type |-> lines[l].type, class |-> price(l).class,
                        gross |-> price(l).price, discount |-> 0, rule |-> NoRule,
                        line |-> l, member |-> FALSE]
           heads(l) == [k \in 1 .. lines[l].quantity |-> head(l)]
           seqs     == [l \in DOMAIN lines |-> heads(l)]
<1>1. Expand(types, lines) = FlattenSeq(seqs)
  BY DEF Expand
<1>2. DOMAIN lines = 1 .. Len(lines) /\ Len(lines) \in Nat
      /\ \A l \in DOMAIN lines : lines[l].type \in Types /\ lines[l].quantity \in Nat
  <2>1. lines \in Seq([type : Types, quantity : Nat])
    BY DEF Lines
  <2>2. DOMAIN lines = 1 .. Len(lines) /\ Len(lines) \in Nat
    BY <2>1, LenProperties
  <2>3. \A l \in DOMAIN lines : lines[l] \in [type : Types, quantity : Nat]
    BY <2>1, <2>2, ElementOfSeq
  <2> QED
    BY <2>2, <2>3
<1>3. \A l \in DOMAIN lines : price(l) \in Prices
  <2> TAKE l \in DOMAIN lines
  <2>1. PICK t \in types : t.id = lines[l].type
    OBVIOUS
  <2>2. price(l) \in types
    BY <2>1
  <2> QED
    BY <2>2
<1>4. \A l \in DOMAIN lines : head(l) \in Fresh /\ head(l).type = lines[l].type
  <2> TAKE l \in DOMAIN lines
  <2>1. price(l).class \in Classes /\ price(l).price \in Nat
    BY <1>3 DEF Prices
  <2>2. l \in Nat
    BY <1>2
  <2> HIDE DEF price
  <2> QED
    BY <1>2, <2>1, <2>2 DEF Fresh, Ticket, NoRule
<1> HIDE DEF head
<1>5. \A l \in DOMAIN lines : heads(l) \in Seq(Fresh)
  <2> TAKE l \in DOMAIN lines
  <2>1. heads(l) \in [1 .. lines[l].quantity -> Fresh]
    BY <1>4
  <2> QED
    BY <1>2, <2>1, SeqDef
<1>6. seqs \in Seq(Seq(Fresh))
  <2> HIDE DEF heads
  <2>1. seqs \in [1 .. Len(lines) -> Seq(Fresh)]
    BY <1>2, <1>5
  <2> QED
    BY <1>2, <2>1, SeqDef
<1>7. \A P : \A l \in DOMAIN lines :
        CountIn(heads(l), P) = IF head(l) \in P THEN lines[l].quantity ELSE 0
  <2> TAKE P
  <2> TAKE l \in DOMAIN lines
  <2>1. DOMAIN heads(l) = 1 .. lines[l].quantity
        /\ \A k \in 1 .. lines[l].quantity : heads(l)[k] = head(l)
    OBVIOUS
  <2> HIDE DEF heads
  <2>2. CASE head(l) \in P
    <3>1. {k \in DOMAIN heads(l) : heads(l)[k] \in P} = 1 .. lines[l].quantity
      BY <2>1, <2>2
    <3> QED
      BY <3>1, <1>2, <2>2, UpTo DEF CountIn
  <2>3. CASE head(l) \notin P
    <3>1. {k \in DOMAIN heads(l) : heads(l)[k] \in P} = {}
      BY <2>1, <2>3
    <3> QED
      BY <3>1, <2>3, FS_EmptySet DEF CountIn
  <2> QED
    BY <2>2, <2>3
<1> DEFINE all == Expand(types, lines)
<1>8. all \in Seq(Fresh)
      /\ \A P : CountIn(all, P) = SumOver([l \in DOMAIN seqs |-> CountIn(seqs[l], P)])
  <2> HIDE DEF seqs
  <2> QED
    BY <1>1, <1>6, FlattenCounts
<1>9. \A P : CountIn(all, P)
             = SumOver([l \in DOMAIN lines |-> IF head(l) \in P THEN lines[l].quantity ELSE 0])
  <2> TAKE P
  <2>1. [l \in DOMAIN seqs |-> CountIn(seqs[l], P)]
        = [l \in DOMAIN lines |-> IF head(l) \in P THEN lines[l].quantity ELSE 0]
    <3> HIDE DEF heads
    <3> QED
      BY <1>7
  <2> QED
    BY <1>8, <2>1
<1> HIDE DEF seqs, heads, all
<1>10. DOMAIN all = 1 .. Len(all) /\ Len(all) \in Nat
       /\ \A i \in DOMAIN all : all[i] \in Fresh
  BY <1>8, LenProperties, ElementOfSeq
<1>11. Len(all) = WantedInAll(lines)
  <2>1. {i \in DOMAIN all : all[i] \in Fresh} = 1 .. Len(all)
    BY <1>10
  <2>2. CountIn(all, Fresh) = Len(all)
    BY <1>10, <2>1, UpTo DEF CountIn
  <2>3. [l \in DOMAIN lines |-> IF head(l) \in Fresh THEN lines[l].quantity ELSE 0]
        = [l \in DOMAIN lines |-> lines[l].quantity]
    BY <1>4
  <2> QED
    BY <1>9, <2>2, <2>3 DEF WantedInAll
<1>12. ASSUME NEW t PROVE Cardinality(HeadsOf(all, t)) = Wanted(lines, t)
  <2> DEFINE P == {h \in Fresh : h.type = t}
             f == [l \in DOMAIN lines |-> IF head(l) \in P THEN lines[l].quantity ELSE 0]
             S == {l \in DOMAIN lines : lines[l].type = t}
             g == [l \in S |-> lines[l].quantity]
  <2>1. HeadsOf(all, t) = {i \in DOMAIN all : all[i] \in P}
    BY <1>10 DEF HeadsOf
  <2>2. Cardinality(HeadsOf(all, t)) = SumOver(f)
    BY <1>9, <2>1 DEF CountIn
  <2>3. \A l \in DOMAIN lines : head(l) \in P <=> l \in S
    BY <1>4
  <2>4. DOMAIN f = DOMAIN lines /\ (\A l \in DOMAIN lines : f[l] \in Int)
        /\ (\A l \in DOMAIN lines \ S : f[l] = 0)
        /\ DOMAIN g = S /\ (\A l \in S : g[l] = f[l]) /\ S \in SUBSET DOMAIN lines
    BY <1>2, <2>3
  <2>5. IsFiniteSet(DOMAIN lines)
    BY <1>2, FS_Interval
  <2>6. Wanted(lines, t) = SumOver(g)
    BY DEF Wanted
  <2> HIDE DEF f, g, S, P
  <2>7. Padded(f, g)
    BY <2>4, <2>5 DEF Padded
  <2> QED
    BY <2>2, <2>6, <2>7, SumWhere
<1> QED
  BY <1>8, <1>11, <1>12 DEF all

(* Of any number of tickets, the n dearest are at most n: no two of them   *)
(* have the same number of dearer ones before them.                        *)
LEMMA FewDearest ==
  ASSUME NEW heads, NEW S \in SUBSET Nat, IsFiniteSet(S), \A i \in S : heads[i].gross \in Nat,
         NEW n \in Int
  PROVE  /\ IsFiniteSet(Dearest(heads, S, n))
         /\ Cardinality(Dearest(heads, S, n)) <= IF n > 0 THEN n ELSE 0
         /\ Dearest(heads, S, n) \subseteq S
<1> DEFINE D == Dearest(heads, S, n)
           above(i) == {j \in S : Dearer(heads, j, i)}
           rank == [i \in D |-> Cardinality(above(i))]
<1>1. D \subseteq S /\ \A i \in D : Cardinality(above(i)) < n
  BY DEF Dearest
<1>2. \A i \in S : IsFiniteSet(above(i)) /\ Cardinality(above(i)) \in Nat
  BY FS_Subset, FS_CardinalityType
<1>3. \A i, j \in S : Dearer(heads, i, j) => Cardinality(above(i)) < Cardinality(above(j))
  <2> TAKE i, j \in S
  <2> HAVE Dearer(heads, i, j)
  <2>1. \A k \in S : heads[k].gross \in Nat /\ k \in Nat
    OBVIOUS
  <2>2. \A k \in S : Dearer(heads, k, i) => Dearer(heads, k, j)
    BY <2>1 DEF Dearer
  <2>3. above(i) \in SUBSET above(j) /\ i \in above(j)
    BY <2>2
  <2>4. i \notin above(i)
    BY <2>1 DEF Dearer
  <2>5. above(i) # above(j)
    BY <2>3, <2>4
  <2> HIDE DEF above
  <2>6. Cardinality(above(i)) <= Cardinality(above(j))
        /\ Cardinality(above(i)) # Cardinality(above(j))
    BY <1>2, <2>3, <2>5, FS_Subset
  <2> QED
    BY <1>2, <2>6
<1>4. \A i, j \in S : i = j \/ Dearer(heads, i, j) \/ Dearer(heads, j, i)
  BY DEF Dearer
<1> HIDE DEF D, above
<1>5. rank \in Injection(D, 0 .. (n - 1))
  <2>1. \A i \in D : rank[i] \in 0 .. (n - 1)
    BY <1>1, <1>2
  <2>2. \A i, j \in D : rank[i] = rank[j] => i = j
    <3> TAKE i, j \in D
    <3> HAVE rank[i] = rank[j]
    <3>1. i \in S /\ j \in S /\ Cardinality(above(i)) = Cardinality(above(j))
          /\ Cardinality(above(i)) \in Nat
      BY <1>1, <1>2
    <3>2. ~(Cardinality(above(i)) < Cardinality(above(j)))
          /\ ~(Cardinality(above(j)) < Cardinality(above(i)))
      BY <3>1
    <3> QED
      BY <1>3, <1>4, <3>1, <3>2
  <2> QED
    BY <2>1, <2>2 DEF Injection, IsInjective
<1>6. IsFiniteSet(0 .. (n - 1)) /\ Cardinality(0 .. (n - 1)) = IF n > 0 THEN n ELSE 0
  <2>1. IsFiniteSet(0 .. (n - 1))
        /\ Cardinality(0 .. (n - 1)) = IF 0 > n - 1 THEN 0 ELSE (n - 1) - 0 + 1
    BY FS_Interval
  <2> QED
    BY <2>1
<1>7. IsFiniteSet(D) /\ Cardinality(D) <= Cardinality(0 .. (n - 1))
  BY <1>5, <1>6, FS_Injection
<1> QED
  BY <1>1, <1>6, <1>7 DEF D

(* The heads of a priced basket: none is discounted below nothing.         *)
Heads == {heads \in Seq(Ticket(Types)) : \A i \in DOMAIN heads : NetPrice(heads[i]) >= 0}

AnyTier == Tiers \union {NoTier}

(* What resolveMembership returns.                                         *)
CardSnapshot ==
  [id : Cards \union {NoCard}, tier : AnyTier, most : Nat \union {Unlimited}, used : Nat]

MemberHeads(heads) == {i \in DOMAIN heads : heads[i].member}

(* The offers of the tier of a card.                                       *)
TierOffers(rules, c) == {r \in rules : r.type = "MEMBERSHIP" /\ c.id # "none" /\ r.tier = c.tier}

LEMMA SmallerOf ==
  ASSUME NEW a \in Int, NEW b \in Int
  PROVE  Min({a, b}) \in Int /\ Min({a, b}) <= a /\ Min({a, b}) <= b
<1>1. \E x \in {a, b} : \A y \in {a, b} : x <= y
  <2>1. a <= b \/ b <= a
    OBVIOUS
  <2> QED
    BY <2>1
<1> QED
  BY <1>1 DEF Min

LEMMA HeadsDomain ==
  ASSUME NEW heads \in Heads
  PROVE  /\ Len(heads) \in Nat /\ DOMAIN heads = 1 .. Len(heads) /\ IsFiniteSet(DOMAIN heads)
         /\ \A i \in DOMAIN heads : heads[i] \in Ticket(Types) /\ NetPrice(heads[i]) >= 0
<1>1. heads \in Seq(Ticket(Types)) /\ \A i \in DOMAIN heads : NetPrice(heads[i]) >= 0
  BY DEF Heads
<1>2. Len(heads) \in Nat /\ DOMAIN heads = 1 .. Len(heads)
  BY <1>1, LenProperties
<1>3. \A i \in DOMAIN heads : heads[i] \in Ticket(Types)
  BY <1>1, <1>2, ElementOfSeq
<1>4. IsFiniteSet(DOMAIN heads)
  BY <1>2, FS_Interval
<1> QED
  BY <1>1, <1>2, <1>3, <1>4

(* One head discounted further.                                            *)
Discounted(rule, head) ==
  [head EXCEPT !.discount = @ + DiscountFor(rule, head), !.rule = rule.id,
               !.member = @ \/ rule.type = "MEMBERSHIP"]

LEMMA DiscountSound ==
  ASSUME NEW rule \in Rule(Types, AnyTier), NEW head \in Ticket(Types), NetPrice(head) >= 0,
         DiscountFor(rule, head) > 0
  PROVE  /\ Discounted(rule, head) \in Ticket(Types)
         /\ NetPrice(Discounted(rule, head)) >= 0
         /\ Discounted(rule, head).type = head.type
         /\ Discounted(rule, head).member <=> (head.member \/ rule.type = "MEMBERSHIP")
<1>1. rule.id \in Nat /\ rule.value \in Nat
  BY DEF Rule
<1>2. head.gross \in Nat /\ head.discount \in Nat /\ head.discount <= head.gross
  BY DEF Ticket, NetPrice
<1>3. Raw(rule, head.gross) \in Int
  <2>1. 2 * head.gross * rule.value + 100 \in Int
    <3> DEFINE a == 2 * head.gross
    <3>1. a \in Int
      BY <1>2
    <3> HIDE DEF a
    <3>2. a * rule.value \in Int
      BY <1>1, <3>1
    <3> QED
      BY <3>2 DEF a
  <2> DEFINE n == 2 * head.gross * rule.value + 100
  <2>2. n \in Int
    BY <2>1
  <2> HIDE DEF n
  <2>3. n \div 200 \in Int
    BY <2>2
  <2>4. (2 * head.gross * rule.value + 100) \div 200 \in Int
    BY <2>3 DEF n
  <2> QED
    BY <1>1, <2>4 DEF Raw
<1> DEFINE d == DiscountFor(rule, head)
<1>4. d \in Int /\ d <= head.gross - head.discount
  <2> DEFINE a == Raw(rule, head.gross)
             b2 == head.gross - head.discount
  <2>1. a \in Int /\ b2 \in Int /\ d = Min({a, b2})
    BY <1>2, <1>3 DEF DiscountFor
  <2> HIDE DEF a, b2, d
  <2>2. d \in Int /\ d <= b2
    BY <2>1, SmallerOf
  <2> QED
    BY <2>2 DEF b2
<1>5. d > 0
  OBVIOUS
<1> HIDE DEF d
<1>6. head.discount + d \in Nat /\ head.discount + d <= head.gross
  BY <1>2, <1>4, <1>5
<1> DEFINE new == [head EXCEPT !.discount = @ + d, !.rule = rule.id,
                               !.member = @ \/ rule.type = "MEMBERSHIP"]
<1>7. new \in Ticket(Types)
  BY <1>1, <1>6 DEF Ticket
<1>8. new.discount = head.discount + d /\ new.gross = head.gross /\ new.type = head.type
      /\ (new.member <=> (head.member \/ rule.type = "MEMBERSHIP"))
  BY DEF Ticket
<1> HIDE DEF new
<1>9. NetPrice(new) >= 0
  BY <1>2, <1>4, <1>6, <1>8 DEF NetPrice
<1> QED
  BY <1>7, <1>8, <1>9 DEF new, d, Discounted

(* One offer leaves a priced basket, of the same tickets; only an offer of *)
(* the tier marks heads for the card, and only those it may touch.         *)
LEMMA ApplySound ==
  ASSUME NEW rule \in Rule(Types, AnyTier), NEW heads \in Heads, NEW c \in CardSnapshot
  PROVE  LET new == ApplyRule(rule, heads, c)
         IN  /\ new \in Heads /\ Len(new) = Len(heads)
             /\ \A i \in DOMAIN heads : new[i].type = heads[i].type
             /\ TierOffers({rule}, c) = {} => MemberHeads(new) = MemberHeads(heads)
             /\ MemberHeads(new) \subseteq MemberHeads(heads) \union ForMembers(rule, heads, c)
<1> DEFINE E == Eligible(rule, heads, c)
           hit(i) == i \in E /\ DiscountFor(rule, heads[i]) > 0
           touched(i) == Discounted(rule, heads[i])
           new == ApplyRule(rule, heads, c)
<1>1. /\ Len(heads) \in Nat /\ DOMAIN heads = 1 .. Len(heads)
      /\ \A i \in DOMAIN heads : heads[i] \in Ticket(Types) /\ NetPrice(heads[i]) >= 0
  BY HeadsDomain
<1>2. DOMAIN new = DOMAIN heads
      /\ \A i \in DOMAIN heads : new[i] = IF hit(i) THEN touched(i) ELSE heads[i]
  BY DEF ApplyRule, Discounted
<1>3. \A i \in DOMAIN heads : hit(i) =>
        /\ touched(i) \in Ticket(Types) /\ NetPrice(touched(i)) >= 0
        /\ touched(i).type = heads[i].type
        /\ touched(i).member <=> (heads[i].member \/ rule.type = "MEMBERSHIP")
  BY <1>1, DiscountSound
<1> HIDE DEF new, touched
<1>4. \A i \in DOMAIN heads : new[i] \in Ticket(Types) /\ NetPrice(new[i]) >= 0
                              /\ new[i].type = heads[i].type
  BY <1>1, <1>2, <1>3
<1>5. new \in Seq(Ticket(Types)) /\ Len(new) = Len(heads)
  <2>1. new = [i \in 1 .. Len(heads) |-> new[i]]
    <3>1. new = [i \in DOMAIN heads |-> new[i]]
      BY DEF new, ApplyRule
    <3> QED
      BY <1>1, <3>1
  <2>2. new \in [1 .. Len(heads) -> Ticket(Types)]
    BY <1>1, <1>4, <2>1
  <2>3. new \in Seq(Ticket(Types))
    BY <1>1, <2>2, SeqDef
  <2> QED
    BY <1>1, <1>2, <2>3, LenProperties
<1>6. new \in Heads
  BY <1>2, <1>4, <1>5 DEF Heads
<1>7. \A i \in DOMAIN heads :
        \/ new[i].member <=> heads[i].member
        \/ i \in E /\ rule.type = "MEMBERSHIP"
  BY <1>2, <1>3
<1>8. rule.type = "MEMBERSHIP" => E = ForMembers(rule, heads, c)
  BY DEF Eligible
<1>9. TierOffers({rule}, c) = {} /\ rule.type = "MEMBERSHIP" => ForMembers(rule, heads, c) = {}
  BY DEF TierOffers, ForMembers
<1>10. ASSUME TierOffers({rule}, c) = {} PROVE MemberHeads(new) = MemberHeads(heads)
  <2>1. \A i \in DOMAIN heads : new[i].member <=> heads[i].member
    BY <1>7, <1>8, <1>9, <1>10
  <2> QED
    BY <1>2, <2>1 DEF MemberHeads
<1>11. MemberHeads(new) \subseteq MemberHeads(heads) \union ForMembers(rule, heads, c)
  <2>1. \A i \in DOMAIN heads :
          (new[i].member <=> heads[i].member) \/ i \in ForMembers(rule, heads, c)
    BY <1>7, <1>8
  <2> QED
    BY <1>2, <2>1 DEF MemberHeads
<1> QED
  BY <1>4, <1>5, <1>6, <1>10, <1>11 DEF new

(* Offers that can be put in order: their numbers differ.                  *)
Book == {R \in SUBSET Rule(Types, AnyTier) : IsFiniteSet(R) /\ \A r, q \in R : r.id = q.id => r = q}

IsLast(r, R) == r \in R /\ \A q \in R \ {r} : Before(q, r)

LEMMA BookPart == \A R \in Book : \A S \in SUBSET R : S \in Book
BY FS_Subset DEF Book

(* Some offer is the last one.                                             *)
LEMMA LastIsLast ==
  ASSUME NEW R \in Book, R # {}
  PROVE  IsLast(LastOf(R), R)
<1> DEFINE T == {S \in SUBSET R : S # {} /\ ~\E r : IsLast(r, S)}
<1>0. T \in SUBSET SUBSET R /\ IsFiniteSet(R)
  BY DEF Book
<1>1. \A r \in R : r.id \in Nat /\ r.priority \in Nat
  BY DEF Book, Rule
<1>2. \A r, q \in R : r # q => r.id # q.id
  BY DEF Book
<1> HIDE DEF T
<1>3. ASSUME T # {} PROVE FALSE
  <2>1. PICK S \in T : \A t \in T : ~(t \subseteq S /\ t # S)
    BY <1>0, <1>3, SmallestSet
  <2>2. S \in SUBSET R /\ S # {} /\ ~\E r : IsLast(r, S)
    BY DEF T
  <2>3. PICK x \in S : TRUE
    BY <2>2
  <2>4. S \ {x} # {}
    BY <2>2, <2>3 DEF IsLast
  <2>5. S \ {x} \notin T
    BY <2>1, <2>2, <2>3
  <2>6. PICK y : IsLast(y, S \ {x})
    BY <2>2, <2>4, <2>5 DEF T
  <2>7. y \in S /\ y # x /\ \A q \in S \ {x, y} : Before(q, y)
    BY <2>6 DEF IsLast
  <2>8. CASE Before(x, y)
    <3>1. IsLast(y, S)
      BY <2>7, <2>8 DEF IsLast
    <3> QED
      BY <2>2, <3>1
  <2>9. CASE ~Before(x, y)
    <3>1. x \in R /\ y \in R /\ x # y
      BY <2>2, <2>3, <2>7
    <3>2. Before(y, x)
      BY <1>1, <1>2, <2>9, <3>1 DEF Before
    <3>3. \A q \in S \ {x, y} : Before(q, x)
      <4> TAKE q \in S \ {x, y}
      <4>1. Before(q, y) /\ q \in R
        BY <2>2, <2>7
      <4> QED
        BY <1>1, <3>1, <3>2, <4>1 DEF Before
    <3>4. IsLast(x, S)
      BY <2>3, <3>2, <3>3 DEF IsLast
    <3> QED
      BY <2>2, <3>4
  <2> QED
    BY <2>8, <2>9
<1>4. \E r \in R : \A q \in R \ {r} : Before(q, r)
  BY <1>3 DEF T, IsLast
<1> QED
  BY <1>4 DEF LastOf, IsLast

(* There is only one, and it is the last of every part it is in.           *)
LEMMA LastOfPart ==
  ASSUME NEW R \in Book, NEW x, IsLast(x, R), NEW S \in SUBSET R, x \in S
  PROVE  LastOf(S) = x
<1>1. S \in Book /\ S # {}
  BY BookPart
<1> DEFINE y == LastOf(S)
<1>2. IsLast(y, S)
  BY <1>1, LastIsLast
<1> HIDE DEF y
<1>3. y \in R /\ x \in R /\ \A r \in R : r.id \in Nat /\ r.priority \in Nat
  BY <1>2 DEF IsLast, Book, Rule
<1>4. y # x => Before(y, x) /\ Before(x, y)
  BY <1>2 DEF IsLast
<1>5. ~(Before(y, x) /\ Before(x, y))
  BY <1>3 DEF Before
<1> QED
  BY <1>4, <1>5 DEF y

(* q is what the loop over the offers computes for every part of R.        *)
IsQuoted(base, c, R, q) ==
  q = [S \in SUBSET R |->
        IF S = {} THEN base ELSE ApplyRule(LastOf(S), q[S \ {LastOf(S)}], c)]

LEMMA QuoteExists ==
  ASSUME NEW base, NEW c, NEW R \in Book
  PROVE  \E q : IsQuoted(base, c, R, q)
<1> DEFINE T == {S \in SUBSET R : ~\E q : IsQuoted(base, c, S, q)}
<1>0. T \in SUBSET SUBSET R /\ IsFiniteSet(R)
  BY DEF Book
<1> HIDE DEF T
<1>1. ASSUME T # {} PROVE FALSE
  <2>1. PICK S \in T : \A t \in T : ~(t \subseteq S /\ t # S)
    BY <1>0, <1>1, SmallestSet
  <2>2. S \in SUBSET R /\ ~\E q : IsQuoted(base, c, S, q)
    BY DEF T
  <2>3. S \in Book
    BY <2>2, BookPart
  <2>4. CASE S = {}
    <3> DEFINE q == [s \in SUBSET S |-> base]
    <3>1. IsQuoted(base, c, S, q)
      BY <2>4 DEF IsQuoted
    <3> QED
      BY <2>2, <3>1
  <2>5. CASE S # {}
    <3> DEFINE x == LastOf(S)
               U == S \ {x}
    <3>1. IsLast(x, S)
      BY <2>3, <2>5, LastIsLast
    <3>2. x \in S
      BY <3>1 DEF IsLast
    <3>3. \A s \in SUBSET S : x \in s => LastOf(s) = x
      <4> HIDE DEF x
      <4> QED
        BY <2>3, <3>1, LastOfPart
    <3> HIDE DEF x
    <3>4. U \in SUBSET R /\ U \notin T
      BY <2>1, <2>2, <3>2
    <3>5. PICK g : IsQuoted(base, c, U, g)
      BY <3>4 DEF T
    <3> DEFINE q == [s \in SUBSET S |-> IF x \in s THEN ApplyRule(x, g[s \ {x}], c) ELSE g[s]]
    <3>6. \A s \in SUBSET U : g[s] = IF s = {} THEN base
                                     ELSE ApplyRule(LastOf(s), g[s \ {LastOf(s)}], c)
      BY <3>5 DEF IsQuoted
    <3>7. \A s \in SUBSET S :
            q[s] = IF s = {} THEN base ELSE ApplyRule(LastOf(s), q[s \ {LastOf(s)}], c)
      <4> TAKE s \in SUBSET S
      <4>1. CASE x \in s
        <5>1. LastOf(s) = x /\ s # {} /\ s \ {x} \in SUBSET S /\ x \notin s \ {x}
          BY <3>3, <4>1
        <5>2. q[s] = ApplyRule(x, g[s \ {x}], c) /\ q[s \ {x}] = g[s \ {x}]
          BY <4>1, <5>1
        <5> HIDE DEF q
        <5> QED
          BY <5>1, <5>2
      <4>2. CASE x \notin s
        <5>1. s \in SUBSET U /\ s \ {LastOf(s)} \in SUBSET S /\ x \notin s \ {LastOf(s)}
          BY <4>2
        <5>2. q[s] = g[s] /\ q[s \ {LastOf(s)}] = g[s \ {LastOf(s)}]
          BY <4>2, <5>1
        <5> HIDE DEF q
        <5> QED
          BY <3>6, <5>1, <5>2
      <4> QED
        BY <4>1, <4>2
    <3>8. q = [s \in SUBSET S |-> q[s]]
      OBVIOUS
    <3> HIDE DEF q
    <3>9. IsQuoted(base, c, S, q)
      BY <3>7, <3>8 DEF IsQuoted
    <3> QED
      BY <2>2, <3>9
  <2> QED
    BY <2>4, <2>5
<1> QED
  BY <1>1 DEF T

(* What is left of an allowance.                                           *)
Left(c) == IF c.most - c.used > 0 THEN c.most - c.used ELSE 0

OneTierOffer(R, c) == \A r, p \in TierOffers(R, c) : r = p

(* An offer of the tier takes no more heads than are left.                 *)
LEMMA MembersFew ==
  ASSUME NEW rule, NEW heads \in Heads, NEW c \in CardSnapshot, c.most # Unlimited,
         NEW M, M \subseteq ForMembers(rule, heads, c)
  PROVE  IsFiniteSet(M) /\ Cardinality(M) <= Left(c)
<1> DEFINE S == Untouched(rule, heads) \intersect Named(rule, heads)
           D == Dearest(heads, S, c.most - c.used)
<1>1. S \subseteq DOMAIN heads
  BY DEF Untouched
<1>2. DOMAIN heads \subseteq Nat /\ IsFiniteSet(DOMAIN heads)
      /\ \A i \in DOMAIN heads : heads[i].gross \in Nat
  <2>1. Len(heads) \in Nat /\ DOMAIN heads = 1 .. Len(heads) /\ IsFiniteSet(DOMAIN heads)
        /\ \A i \in DOMAIN heads : heads[i] \in Ticket(Types)
    BY HeadsDomain
  <2> QED
    BY <2>1 DEF Ticket
<1>3. c.most \in Int /\ c.used \in Int
  BY DEF CardSnapshot, Unlimited
<1> DEFINE n == c.most - c.used
<1>4. n \in Int
  BY <1>3
<1> HIDE DEF S, n
<1>5. S \in SUBSET Nat /\ IsFiniteSet(S) /\ \A i \in S : heads[i].gross \in Nat
  BY <1>1, <1>2, FS_Subset
<1>6. IsFiniteSet(Dearest(heads, S, n)) /\ Cardinality(Dearest(heads, S, n)) <= IF n > 0 THEN n ELSE 0
  BY <1>4, <1>5, FewDearest
<1>7. M \subseteq Dearest(heads, S, n)
  BY FS_EmptySet DEF ForMembers, S, n
<1>8. IsFiniteSet(M) /\ Cardinality(M) <= Cardinality(Dearest(heads, S, n))
  BY <1>6, <1>7, FS_Subset
<1>9. Cardinality(M) \in Nat /\ Cardinality(Dearest(heads, S, n)) \in Nat
  BY <1>6, <1>8, FS_CardinalityType
<1>10. Cardinality(M) <= IF n > 0 THEN n ELSE 0
  BY <1>4, <1>6, <1>8, <1>9
<1> QED
  BY <1>8, <1>10 DEF Left, n

QuotedWell(base, c, R, S, heads) ==
  /\ heads \in Heads /\ Len(heads) = Len(base)
  /\ \A i \in DOMAIN base : heads[i].type = base[i].type
  /\ TierOffers(S, c) = {} => MemberHeads(heads) = {}
  /\ OneTierOffer(R, c) /\ c.most # Unlimited => Cardinality(MemberHeads(heads)) <= Left(c)

LEMMA QuoteHolds ==
  ASSUME NEW base \in Heads, MemberHeads(base) = {}, NEW c \in CardSnapshot, NEW R \in Book,
         NEW q, IsQuoted(base, c, R, q)
  PROVE  QuotedWell(base, c, R, R, q[R])
<1> DEFINE T == {S \in SUBSET R : ~QuotedWell(base, c, R, S, q[S])}
<1>0. T \in SUBSET SUBSET R /\ IsFiniteSet(R)
  BY DEF Book
<1>1. \A S \in SUBSET R : q[S] = IF S = {} THEN base ELSE ApplyRule(LastOf(S), q[S \ {LastOf(S)}], c)
  BY DEF IsQuoted
<1>2. Left(c) \in Nat
  BY DEF Left, CardSnapshot, Unlimited
<1> HIDE DEF T
<1>3. ASSUME T # {} PROVE FALSE
  <2>1. PICK S \in T : \A t \in T : ~(t \subseteq S /\ t # S)
    BY <1>0, <1>3, SmallestSet
  <2>2. S \in SUBSET R /\ ~QuotedWell(base, c, R, S, q[S])
    BY DEF T
  <2>3. CASE S = {}
    <3>1. q[S] = base
      BY <1>1, <2>2, <2>3
    <3>2. Cardinality({}) = 0
      BY FS_EmptySet
    <3>3. QuotedWell(base, c, R, S, base)
      BY <1>2, <2>3, <3>2 DEF QuotedWell
    <3> QED
      BY <2>2, <3>1, <3>3
  <2>4. CASE S # {}
    <3> DEFINE x == LastOf(S)
               U == S \ {x}
               h == q[U]
               new == ApplyRule(x, h, c)
    <3>1. x \in S
      BY <2>2, <2>4, BookPart, LastIsLast DEF IsLast
    <3>2. U \in SUBSET R /\ U \notin T
      BY <2>1, <2>2, <3>1
    <3>3. QuotedWell(base, c, R, U, h)
      BY <3>2 DEF T
    <3>4. q[S] = new
      BY <1>1, <2>2, <2>4
    <3>5. x \in Rule(Types, AnyTier) /\ x \in R
      BY <2>2, <3>1 DEF Book
    <3> HIDE DEF x, h
    <3>6. h \in Heads
      BY <3>3 DEF QuotedWell
    <3> DEFINE E == ForMembers(x, h, c)
    <3>7. /\ new \in Heads /\ Len(new) = Len(h)
          /\ \A i \in DOMAIN h : new[i].type = h[i].type
          /\ TierOffers({x}, c) = {} => MemberHeads(new) = MemberHeads(h)
          /\ MemberHeads(new) \subseteq MemberHeads(h) \union E
      BY <3>5, <3>6, ApplySound
    <3> HIDE DEF new, E
    <3>8. DOMAIN h = DOMAIN base
      BY <3>3, <3>6, HeadsDomain DEF QuotedWell
    <3>9. /\ Len(new) = Len(base)
          /\ \A i \in DOMAIN base : new[i].type = base[i].type
      BY <3>3, <3>7, <3>8 DEF QuotedWell
    <3>10. CASE TierOffers({x}, c) = {}
      <4>1. TierOffers(S, c) = TierOffers(U, c)
        BY <3>1, <3>10 DEF TierOffers
      <4>2. MemberHeads(new) = MemberHeads(h)
        BY <3>7, <3>10
      <4>3. QuotedWell(base, c, R, S, new)
        BY <3>3, <3>7, <3>9, <4>1, <4>2 DEF QuotedWell
      <4> QED
        BY <2>2, <3>4, <4>3
    <3>11. CASE TierOffers({x}, c) # {}
      <4>1. x \in TierOffers(S, c) /\ x \in TierOffers(R, c)
        BY <3>1, <3>5, <3>11 DEF TierOffers
      <4>2. ASSUME OneTierOffer(R, c), c.most # Unlimited
            PROVE  Cardinality(MemberHeads(new)) <= Left(c)
        <5>1. TierOffers(U, c) = {}
          <6>1. \A r \in TierOffers(U, c) : r \in TierOffers(R, c) /\ r # x
            BY <3>2 DEF TierOffers
          <6> QED
            BY <4>1, <4>2, <6>1 DEF OneTierOffer
        <5>2. MemberHeads(h) = {}
          BY <3>3, <5>1 DEF QuotedWell
        <5>3. MemberHeads(new) \subseteq ForMembers(x, h, c)
          BY <3>7, <5>2 DEF E
        <5> QED
          BY <3>6, <4>2, <5>3, MembersFew
      <4>3. QuotedWell(base, c, R, S, new)
        BY <3>7, <3>9, <4>1, <4>2 DEF QuotedWell
      <4> QED
        BY <2>2, <3>4, <4>3
    <3> QED
      BY <3>10, <3>11
  <2> QED
    BY <2>3, <2>4
<1> QED
  BY <1>3 DEF T

(* What the heads of a basket cost together.                               *)
Total(heads) == SumOver([i \in DOMAIN heads |-> NetPrice(heads[i])])

LEMMA TotalIs ==
  ASSUME NEW heads \in Heads
  PROVE  /\ GrossOf(heads) - DiscountOf(heads) = Total(heads)
         /\ Total(heads) \in Nat
<1> DEFINE g == [i \in DOMAIN heads |-> heads[i].gross]
           d == [i \in DOMAIN heads |-> heads[i].discount]
           n == [i \in DOMAIN heads |-> NetPrice(heads[i])]
           S == DOMAIN heads
<1>1. IsFiniteSet(S) /\ \A i \in S : heads[i].gross \in Nat /\ heads[i].discount \in Nat
                                     /\ NetPrice(heads[i]) >= 0
  <2>1. IsFiniteSet(S) /\ \A i \in S : heads[i] \in Ticket(Types) /\ NetPrice(heads[i]) >= 0
    BY HeadsDomain
  <2> QED
    BY <2>1 DEF Ticket
<1>2. \A i \in S : g[i] = d[i] + n[i] /\ g[i] \in Nat /\ d[i] \in Nat /\ n[i] \in Nat
  BY <1>1 DEF NetPrice
<1>3. GrossOf(heads) = Over(g, S) /\ DiscountOf(heads) = Over(d, S) /\ Total(heads) = Over(n, S)
  BY SumOverIsOver DEF GrossOf, DiscountOf, Total
<1> HIDE DEF g, d, n, S
<1>4. Summable(d, S) /\ Summable(n, S)
  BY <1>1, <1>2 DEF Summable
<1>5. Over(g, S) = Over(d, S) + Over(n, S)
  BY <1>2, <1>4, SumPlus
<1>6. Over(n, S) \in Nat /\ Over(d, S) \in Nat
  BY <1>1, <1>2, SumNat
<1> QED
  BY <1>3, <1>5, <1>6

Quoted(types, lines, rules, c, manual, q) ==
  /\ types \in SUBSET Prices /\ lines \in Lines /\ rules \in Book /\ c \in CardSnapshot
  /\ \A l \in DOMAIN lines : \E t \in types : t.id = lines[l].type
  /\ q = QuoteSale(types, lines, rules, c, manual)

(* A quoted basket: the tickets that were asked for, what they cost, and   *)
(* no more of them for the card than are left of its allowance.            *)
(* What is known of q when it is the quote of a basket.                    *)
LEMMA QuoteSound ==
  ASSUME NEW types, NEW lines, NEW rules, NEW c, NEW manual, NEW q,
         Quoted(types, lines, rules, c, manual, q)
  PROVE  /\ q.heads \in Heads
         /\ Len(q.heads) = WantedInAll(lines)
         /\ \A t : Cardinality(HeadsOf(q.heads, t)) = Wanted(lines, t)
         /\ q.net = Total(q.heads) /\ q.net \in Nat
         /\ q.members \in Nat
         /\ c.id = "none" => q.members = 0
         /\ OneTierOffer(rules, c) /\ c.most # Unlimited => q.members <= Left(c)
<1> USE DEF Quoted
<1> DEFINE base == Expand(types, lines)
           R == Applying(rules, manual)
           h == CHOOSE k : IsQuoted(base, c, R, k)
           heads == QuotedHeads(types, lines, rules, c, manual)
<1>1. /\ base \in Seq(Fresh) /\ Len(base) = WantedInAll(lines)
      /\ \A t : Cardinality(HeadsOf(base, t)) = Wanted(lines, t)
  BY ExpandSound
<1>2. R \in Book /\ R \subseteq rules
  BY BookPart DEF Applying
<1>3. heads = h[R]
  BY DEF QuotedHeads, MapThenFoldSet, IsQuoted
<1>4. IsQuoted(base, c, R, h)
  <2> HIDE DEF base, R
  <2> QED
    BY <1>2, QuoteExists
<1>5. q.heads = heads /\ q.net = GrossOf(heads) - DiscountOf(heads)
      /\ q.members = Cardinality(MemberHeads(heads))
  BY DEF QuoteSale, MemberHeads
<1> HIDE DEF base, R, h, heads
<1>6. base \in Heads /\ MemberHeads(base) = {}
  <2>1. \A i \in DOMAIN base : base[i] \in Fresh
    BY <1>1, LenProperties, ElementOfSeq
  <2>2. \A i \in DOMAIN base : base[i] \in Ticket(Types) /\ NetPrice(base[i]) >= 0 /\ ~base[i].member
    BY <2>1 DEF Fresh, Ticket, NetPrice
  <2>3. base \in Seq(Ticket(Types))
    <3>1. DOMAIN base = 1 .. Len(base) /\ Len(base) \in Nat
      BY <1>1, LenProperties
    <3>2. base \in [1 .. Len(base) -> Fresh]
      BY <1>1, LenProperties
    <3>3. base \in [1 .. Len(base) -> Ticket(Types)]
      BY <2>2, <3>1, <3>2
    <3> QED
      BY <3>1, <3>3, SeqDef
  <2> QED
    BY <2>2, <2>3 DEF Heads, MemberHeads
<1>7. QuotedWell(base, c, R, R, heads)
  BY <1>2, <1>3, <1>4, <1>6, QuoteHolds
<1>8. heads \in Heads /\ Len(heads) = WantedInAll(lines)
  BY <1>1, <1>7 DEF QuotedWell
<1>9. DOMAIN heads = DOMAIN base
  BY <1>6, <1>7, <1>8, HeadsDomain DEF QuotedWell
<1>10. \A t : HeadsOf(heads, t) = HeadsOf(base, t)
  BY <1>7, <1>9 DEF QuotedWell, HeadsOf
<1>11. q.net = Total(heads) /\ q.net \in Nat
  BY <1>5, <1>8, TotalIs
<1>12. Cardinality(MemberHeads(heads)) \in Nat
  <2>1. IsFiniteSet(DOMAIN heads)
    BY <1>8, HeadsDomain
  <2>2. IsFiniteSet(MemberHeads(heads))
    BY <2>1, FS_Subset DEF MemberHeads
  <2> QED
    BY <2>2, FS_CardinalityType
<1>13. c.id = "none" => Cardinality(MemberHeads(heads)) = 0
  BY <1>7, FS_EmptySet DEF QuotedWell, TierOffers
<1>14. ASSUME OneTierOffer(rules, c), c.most # Unlimited
       PROVE  Cardinality(MemberHeads(heads)) <= Left(c)
  <2>1. OneTierOffer(R, c)
    BY <1>2, <1>14 DEF OneTierOffer, TierOffers
  <2> QED
    BY <1>7, <1>14, <2>1 DEF QuotedWell
<1> QED
  BY <1>1, <1>5, <1>8, <1>10, <1>11, <1>12, <1>13, <1>14

-----------------------------------------------------------------------------
(* The invariant.                                                          *)

(* A row of ticket_sales: it says what its tickets cost and its entry      *)
(* carries that until it is edited, a reversed one has neither entry nor   *)
(* redemption, and what closeDay reconciled is an entry of a sale that     *)
(* stands.                                                                 *)
SaleRow ==
  [day : Days, seller : Users, shift : Nat, wallet : Wallets, card : Cards \union {NoCard},
   tickets : Heads, first : Nat, net : Nat, redeemed : Nat,
   status : {"COMPLETED", "VOIDED"}, entry : Entry]

Carries(s, e) ==
  /\ e.version = 1 => e.amount = s.net
  /\ s.status = "VOIDED" => e.status # "POSTED"
  /\ e.reconciled /\ ~e.flipped => s.status = "COMPLETED" /\ e.status # "NONE"

Sound ==
  {s \in SaleRow :
    /\ s.net = Total(s.tickets)
    /\ s.status = "VOIDED" => s.redeemed = 0
    /\ Carries(s, s.entry)}

DayRow == [status : {"OPEN", "CLOSED"}, capacity : Capacity, next : Nat \ {0}]
ShiftRow == [day : Days, who : Users, status : {"OPEN", "CLOSED"}, expected : [Wallets -> Nat]]

(* What the sales of a day hold of its seats, of those of a type, and of   *)
(* the allowance of a card.                                                *)
Stands(s, d) == s.day = d /\ s.status = "COMPLETED"

SeatsIn(s, d)    == IF Stands(s, d) THEN Len(s.tickets) ELSE 0
HeadsIn(s, d, t) == IF Stands(s, d) THEN Cardinality(HeadsOf(s.tickets, t)) ELSE 0
UsesIn(s, d, c)  == IF s.day = d /\ s.card = c THEN s.redeemed ELSE 0

Seats(sales, d)      == SumOver([k \in DOMAIN sales |-> SeatsIn(sales[k], d)])
SeatsOf(sales, d, t) == SumOver([k \in DOMAIN sales |-> HeadsIn(sales[k], d, t)])
Uses(sales, d, c)    == SumOver([k \in DOMAIN sales |-> UsesIn(sales[k], d, c)])

(* The offers a request read are those of the book, with some value.       *)
Snapshots ==
  {R \in Book : \A r \in R : /\ r.id \in RuleIds /\ r.type = RuleBook[r.id].rule.type
                             /\ r.tier = RuleBook[r.id].rule.tier}

(* No two offers to the members of one tier.  A manager can make one       *)
(* besides the one that came with the tier.                                *)
OneOffer ==
  \A r, s \in RuleIds :
    RuleBook[r].rule.type = "MEMBERSHIP" /\ RuleBook[s].rule.type = "MEMBERSHIP"
      /\ RuleBook[r].rule.tier = RuleBook[s].rule.tier => r = s

SaleAsked  == [pc : {"sale"}, day : Days, order : Orders, types : SUBSET Prices, rules : Snapshots]
SaleInHand == [pc : {"selling"}, row : Sound, types : SUBSET Prices,
               allowance : Nat \union {Unlimited}]
VoidAsked  == [pc : {"void"}, sale : Nat]
TierAsked  == [pc : {"tier"}, tier : Tiers, value : Nat, active : BOOLEAN, new : BOOLEAN]
RenewAsked == [pc : {"renew"}, card : Cards, until : Nat]
BookAsked  == {r \in [pc : {"book"}, op : BookOps, sale : Nat, seen : Entry] :
                r.op # "toggle" => ~r.seen.reconciled}

(* The sale r that holds the lock of its day fits in with the sales there  *)
(* are and with the day.                                                   *)
Fits(r, sales, days) ==
  LET d == r.row.day
  IN  /\ d \in DOMAIN days /\ days[d].status = "OPEN" /\ r.row.first = days[d].next
      /\ r.row.status = "COMPLETED" /\ ~r.row.entry.reconciled
      /\ days[d].capacity # NoCap => Seats(sales, d) + Len(r.row.tickets) <= days[d].capacity
      /\ \A t \in r.types :
           LET wanted == Cardinality(HeadsOf(r.row.tickets, t.id))
           IN  t.capacity # NoCap /\ wanted > 0 => SeatsOf(sales, d, t.id) + wanted <= t.capacity
      /\ OneOffer /\ r.row.redeemed > 0 /\ r.allowance # Unlimited =>
           Uses(sales, d, r.row.card) + r.row.redeemed <= r.allowance

Answerable(r, sales, days) ==
  \/ r = Idle
  \/ r \in SaleAsked /\ r.day \in DOMAIN days
  \/ r \in SaleInHand /\ Fits(r, sales, days)
  \/ r \in VoidAsked /\ r.sale \in DOMAIN sales
  \/ r \in TierAsked
  \/ r \in RenewAsked
  \/ r \in BookAsked /\ r.sale \in DOMAIN sales

ConfigOK ==
  /\ today \in Dates /\ asked \in 0 .. MaxRequests
  /\ settings \in [enabled : BOOLEAN, book : BOOLEAN, selfVoid : BOOLEAN]
  /\ session \in [Sessions -> SessionRow] /\ type \in [Types -> TypeRow]
  /\ offer \in [RuleIds -> OfferRow] /\ tier \in [Tiers -> OfferRow]
  /\ card \in [Cards -> CardRow]

DaysOK  == DOMAIN day \subseteq Days /\ day \in [DOMAIN day -> DayRow]
ShiftsOK == /\ shift \in Seq(ShiftRow)
            /\ \A k \in DOMAIN shift : shift[k].day \in DOMAIN day

SalesOK ==
  /\ sale \in Seq(Sound)
  /\ \A k \in DOMAIN sale : /\ sale[k].day \in DOMAIN day
                            /\ sale[k].first + Len(sale[k].tickets) <= day[sale[k].day].next
  /\ \A j, k \in DOMAIN sale : j # k => Serials(sale[j]) \intersect Serials(sale[k]) = {}
  /\ \A d \in DOMAIN day : day[d].capacity # NoCap => Seats(sale, d) <= day[d].capacity

RequestsOK ==
  /\ DOMAIN req = Users
  /\ \A u \in Users : Answerable(req[u], sale, day)
  /\ \A u, v \in Users :
       req[u].pc = "selling" /\ req[v].pc = "selling" /\ req[u].row.day = req[v].row.day => u = v

DeskInv == ConfigOK /\ DaysOK /\ ShiftsOK /\ SalesOK /\ ClosedIsReconciled /\ RequestsOK

-----------------------------------------------------------------------------
(* What the invariant says of the books.                                   *)

LEMMA SaleTypes ==
  ASSUME NEW sales \in Seq(Sound)
  PROVE  /\ Len(sales) \in Nat /\ DOMAIN sales = 1 .. Len(sales) /\ IsFiniteSet(DOMAIN sales)
         /\ \A k \in DOMAIN sales : sales[k] \in Sound
<1>1. Len(sales) \in Nat /\ DOMAIN sales = 1 .. Len(sales)
  BY LenProperties
<1>2. \A k \in DOMAIN sales : sales[k] \in Sound
  BY <1>1, ElementOfSeq
<1> QED
  BY <1>1, <1>2, FS_Interval

LEMMA SoundIs ==
  ASSUME NEW s \in Sound
  PROVE  /\ s \in SaleRow /\ s.day \in Days /\ s.seller \in Users /\ s.wallet \in Wallets
         /\ s.card \in Cards \union {NoCard}
         /\ s.tickets \in Heads /\ s.first \in Nat /\ s.net \in Nat /\ s.redeemed \in Nat
         /\ s.status \in {"COMPLETED", "VOIDED"} /\ s.entry \in Entry
         /\ s.net = Total(s.tickets)
         /\ s.status = "VOIDED" => s.entry.status # "POSTED" /\ s.redeemed = 0
         /\ s.entry.version = 1 => s.entry.amount = s.net
         /\ s.entry.reconciled /\ ~s.entry.flipped => s.status = "COMPLETED" /\ s.entry.status # "NONE"
BY DEF Sound, SaleRow, Carries

(* c has the takings of the sales of ks for each of U, by the classes of g.*)
Breakdown(sales, ks, U, g, c) ==
  /\ IsFiniteSet(U) /\ \A k \in ks : g[k] \in U
  /\ DOMAIN c = U
  /\ \A y \in U : c[y] = SumOver([k \in {j \in ks : g[j] = y} |-> sales[k].net])

(* The money of some sales, by any classes.                                *)
LEMMA NetByClass ==
  ASSUME NEW sales \in Seq(Sound), NEW ks \in SUBSET DOMAIN sales,
         NEW U, NEW g, NEW c, Breakdown(sales, ks, U, g, c)
  PROVE  SumOver(c) = SumOver([k \in ks |-> sales[k].net])
<1> USE DEF Breakdown
<1> DEFINE f == [k \in ks |-> sales[k].net]
<1>1. Summable(f, ks)
  <2>1. \A k \in ks : f[k] \in Int
    BY SaleTypes, SoundIs
  <2> QED
    BY <2>1, SaleTypes, FS_Subset DEF Summable
<1>2. \A y \in U : c[y] = Over(f, {j \in ks : g[j] = y})
  <2> TAKE y \in U
  <2> DEFINE P == {j \in ks : g[j] = y}
             h == [k \in P |-> sales[k].net]
  <2>1. c[y] = Over(h, P)
    BY SumOverIsOver
  <2>2. \A k \in P : h[k] = f[k]
    OBVIOUS
  <2> HIDE DEF h, f
  <2>3. Over(h, P) = Over(f, P)
    BY <2>2, SumSame
  <2> QED
    BY <2>1, <2>3
<1>3. SumOver(f) = Over(f, ks) /\ SumOver(c) = Over(c, U)
  BY SumOverIsOver
<1> HIDE DEF f
<1>4. Over(c, U) = Over(f, ks)
  BY <1>1, <1>2, SumByClass
<1> QED
  BY <1>3, <1>4 DEF f

(* The heads of a sale are charged by type what the sale says.             *)
LEMMA HeadsByType ==
  ASSUME NEW heads \in Heads
  PROVE  /\ Over([t \in Types |-> NetOf(heads, t)], Types) = Total(heads)
         /\ \A t \in Types : NetOf(heads, t) \in Nat
<1> DEFINE f == [i \in DOMAIN heads |-> NetPrice(heads[i])]
           g == [i \in DOMAIN heads |-> heads[i].type]
           c == [t \in Types |-> NetOf(heads, t)]
<1>1. IsFiniteSet(DOMAIN heads)
      /\ \A i \in DOMAIN heads : heads[i] \in Ticket(Types) /\ NetPrice(heads[i]) >= 0
  BY HeadsDomain
<1>2. \A i \in DOMAIN heads : f[i] \in Nat /\ g[i] \in Types
  BY <1>1 DEF NetPrice, Ticket
<1>3. \A t \in Types : c[t] = Over(f, {i \in DOMAIN heads : g[i] = t})
  <2> TAKE t \in Types
  <2> DEFINE P == HeadsOf(heads, t)
             h == [i \in P |-> NetPrice(heads[i])]
  <2>1. P = {i \in DOMAIN heads : g[i] = t}
    BY DEF HeadsOf
  <2>2. c[t] = Over(h, P)
    BY SumOverIsOver DEF NetOf
  <2>3. \A i \in P : h[i] = f[i]
    BY DEF HeadsOf
  <2> HIDE DEF h, f, P, g, c
  <2>4. Over(h, P) = Over(f, P)
    BY <2>3, SumSame
  <2> QED
    BY <2>1, <2>2, <2>4
<1>4. IsFiniteSet(Types)
  BY DeskAssumption
<1>5. Total(heads) = Over(f, DOMAIN heads)
  BY SumOverIsOver DEF Total
<1>6. \A t \in Types : Over(f, {i \in DOMAIN heads : g[i] = t}) \in Nat
  <2> TAKE t \in Types
  <2> DEFINE P == {i \in DOMAIN heads : g[i] = t}
  <2>1. IsFiniteSet(P) /\ \A i \in P : f[i] \in Nat
    BY <1>1, <1>2, FS_Subset
  <2> HIDE DEF P, f
  <2>2. Over(f, P) \in Nat
    BY <2>1, SumNat
  <2> QED
    BY <2>2 DEF P
<1>7. \A t \in Types : NetOf(heads, t) \in Nat
  BY <1>3, <1>6
<1> HIDE DEF f, g, c
<1>8. Summable(f, DOMAIN heads)
  BY <1>1, <1>2 DEF Summable
<1>9. Over(c, Types) = Over(f, DOMAIN heads)
  BY <1>2, <1>3, <1>4, <1>8, SumByClass
<1> QED
  BY <1>5, <1>7, <1>9 DEF c

(* The breakdowns of a day agree with its total and with its entries.      *)
LEMMA DeskAgrees ==
  ASSUME SalesOK
  PROVE  TakingsAgree
<1>1. sale \in Seq(Sound)
  BY DEF SalesOK
<1>2. IsFiniteSet(DOMAIN sale) /\ \A k \in DOMAIN sale : sale[k] \in Sound
  BY <1>1, SaleTypes
<1>3. ASSUME NEW d \in DOMAIN day
      PROVE  /\ SumOver(ByWallet(d)) = DayNet(d) /\ SumOver(ByAttendant(d)) = DayNet(d)
             /\ SumOver(ByType(d)) = DayNet(d) /\ EntrySum(d) = TakenIn(Unedited(Completed(d)))
  <2> DEFINE C == Completed(d)
             net == [k \in C |-> sale[k].net]
  <2>1. C \in SUBSET DOMAIN sale
    BY DEF Completed, SalesOf
  <2>2. \A k \in C : sale[k] \in Sound
    BY <1>2, <2>1
  <2>3. DayNet(d) = SumOver(net)
    BY DEF DayNet, TakenIn
  <2>4. SumOver(ByWallet(d)) = DayNet(d)
    <3> DEFINE g == [k \in C |-> sale[k].wallet]
               c == ByWallet(d)
    <3>1. \A k \in C : g[k] \in Wallets
      BY <2>2, SoundIs
    <3>2. \A w \in Wallets : {j \in C : g[j] = w} = {k \in C : sale[k].wallet = w}
      OBVIOUS
    <3>3. DOMAIN c = Wallets
          /\ \A w \in Wallets : c[w] = SumOver([k \in {j \in C : g[j] = w} |-> sale[k].net])
      <4>1. \A w \in Wallets : c[w] = SumOver([k \in {j \in C : sale[j].wallet = w} |-> sale[k].net])
        BY DEF ByWallet, Taken, TakenIn
      <4>2. DOMAIN c = Wallets
        BY DEF ByWallet
      <4> HIDE DEF C, c, g
      <4> QED
        BY <3>2, <4>1, <4>2
    <3>4. IsFiniteSet(Wallets)
      BY DeskAssumption
    <3> HIDE DEF C, c, g
    <3>5. \E U : Breakdown(sale, C, U, g, c)
      BY <3>1, <3>3, <3>4 DEF Breakdown
    <3>6. SumOver(c) = SumOver([k \in C |-> sale[k].net])
      BY <1>1, <2>1, <3>5, NetByClass
    <3> QED
      BY <2>3, <3>6 DEF c
  <2>5. SumOver(ByAttendant(d)) = DayNet(d)
    <3> DEFINE g == [k \in C |-> sale[k].seller]
               c == ByAttendant(d)
    <3>1. \A k \in C : g[k] \in Users
      BY <2>2, SoundIs
    <3>2. \A w \in Users : {j \in C : g[j] = w} = {k \in C : sale[k].seller = w}
      OBVIOUS
    <3>3. DOMAIN c = Users
          /\ \A w \in Users : c[w] = SumOver([k \in {j \in C : g[j] = w} |-> sale[k].net])
      <4>1. \A w \in Users : c[w] = SumOver([k \in {j \in C : sale[j].seller = w} |-> sale[k].net])
        BY DEF ByAttendant, TakenIn
      <4>2. DOMAIN c = Users
        BY DEF ByAttendant
      <4> HIDE DEF C, c, g
      <4> QED
        BY <3>2, <4>1, <4>2
    <3>4. IsFiniteSet(Users)
      BY DeskAssumption
    <3> HIDE DEF C, c, g
    <3>5. \E U : Breakdown(sale, C, U, g, c)
      BY <3>1, <3>3, <3>4 DEF Breakdown
    <3>6. SumOver(c) = SumOver([k \in C |-> sale[k].net])
      BY <1>1, <2>1, <3>5, NetByClass
    <3> QED
      BY <2>3, <3>6 DEF c
  <2>6. SumOver(ByType(d)) = DayNet(d)
    <3> DEFINE a == [k \in C |-> [t \in Types |-> NetOf(sale[k].tickets, t)]]
               u == [t \in Types |-> [k \in C |-> NetOf(sale[k].tickets, t)]]
               c == ByType(d)
    <3>1. \A k \in C : /\ sale[k].net = Over([t \in Types |-> NetOf(sale[k].tickets, t)], Types)
                       /\ \A t \in Types : NetOf(sale[k].tickets, t) \in Nat
      <4> TAKE k \in C
      <4>1. sale[k].tickets \in Heads /\ sale[k].net = Total(sale[k].tickets)
        BY <2>2, SoundIs
      <4> QED
        BY <4>1, HeadsByType
    <3>2. DOMAIN c = Types /\ \A t \in Types : c[t] = Over(u[t], C)
      <4>1. \A t \in Types : c[t] = SumOver(u[t]) /\ DOMAIN u[t] = C
        BY DEF ByType
      <4>2. DOMAIN c = Types
        BY DEF ByType
      <4> HIDE DEF c, u, C
      <4> QED
        BY <4>1, <4>2, SumOverIsOver
    <3>3. \A k \in C : net[k] = Over(a[k], Types)
      BY <3>1
    <3>4. \A k \in C : \A t \in Types : a[k][t] \in Int /\ u[t][k] = a[k][t]
      <4> TAKE k \in C
      <4> TAKE t \in Types
      <4>1. a[k][t] = NetOf(sale[k].tickets, t) /\ u[t][k] = NetOf(sale[k].tickets, t)
        OBVIOUS
      <4>2. NetOf(sale[k].tickets, t) \in Nat
        BY <3>1
      <4> HIDE DEF a, u
      <4> QED
        BY <4>1, <4>2
    <3>5. IsFiniteSet(C) /\ IsFiniteSet(Types)
      BY <1>2, <2>1, FS_Subset, DeskAssumption
    <3>6. SumOver(net) = Over(net, C) /\ SumOver(c) = Over(c, Types)
      BY <3>2, SumOverIsOver
    <3> HIDE DEF a, u, c, C, net
    <3>7. Table(C, Types, a, u, net, c)
      BY <3>2, <3>3, <3>4, <3>5 DEF Table
    <3>8. Over(net, C) = Over(c, Types)
      BY <3>7, SumSwap
    <3> QED
      BY <2>3, <3>6, <3>8 DEF c
  <2>7. EntrySum(d) = TakenIn(Unedited(Completed(d)))
    <3> DEFINE E == Unedited(Entered(d))
               amounts == [k \in E |-> sale[k].entry.amount]
               nets == [k \in E |-> sale[k].net]
    <3>1. Entered(d) = C
      <4>1. \A k \in SalesOf(d) : sale[k] \in Sound
        BY <1>2 DEF SalesOf
      <4>2. \A k \in SalesOf(d) : sale[k].entry.status = "POSTED" => sale[k].status = "COMPLETED"
        BY <4>1, SoundIs
      <4> QED
        BY <4>2 DEF Entered, Completed
    <3>2. \A k \in E : sale[k].entry.amount = sale[k].net
      BY <2>2, <3>1, SoundIs DEF Unedited
    <3>3. amounts = nets
      BY <3>2
    <3>4. TakenIn(Unedited(Completed(d))) = SumOver(nets)
      BY <3>1 DEF TakenIn
    <3> QED
      BY <3>3, <3>4 DEF EntrySum
  <2> QED
    BY <2>4, <2>5, <2>6, <2>7
<1>4. ASSUME NEW k \in DOMAIN sale
      PROVE  /\ \A i \in DOMAIN sale[k].tickets : NetPrice(sale[k].tickets[i]) >= 0
             /\ sale[k].status = "VOIDED" => sale[k].entry.status # "POSTED" /\ sale[k].redeemed = 0
  <2>1. sale[k].tickets \in Heads
        /\ (sale[k].status = "VOIDED" => sale[k].entry.status # "POSTED" /\ sale[k].redeemed = 0)
    BY <1>2, SoundIs
  <2> QED
    BY <2>1, HeadsDomain
<1> QED
  BY <1>3, <1>4 DEF TakingsAgree

-----------------------------------------------------------------------------
(* Seats and allowances, counted over all the sales.                       *)

LEMMA HeadsOfType ==
  ASSUME NEW heads \in Heads, NEW t
  PROVE  Cardinality(HeadsOf(heads, t)) \in Nat
<1>1. IsFiniteSet(DOMAIN heads)
  BY HeadsDomain
<1>2. IsFiniteSet(HeadsOf(heads, t))
  BY <1>1, FS_Subset DEF HeadsOf
<1> QED
  BY <1>2, FS_CardinalityType

LEMMA WeightsAre ==
  ASSUME NEW s \in Sound, NEW d
  PROVE  /\ SeatsIn(s, d) \in Nat
         /\ \A t : HeadsIn(s, d, t) \in Nat
         /\ \A c : UsesIn(s, d, c) \in Nat
<1>1. s.tickets \in Heads /\ s.redeemed \in Nat
  BY SoundIs
<1>2. Len(s.tickets) \in Nat
  BY <1>1, HeadsDomain
<1> QED
  BY <1>1, <1>2, HeadsOfType DEF SeatsIn, HeadsIn, UsesIn

LEMMA CountsAre ==
  ASSUME NEW sales \in Seq(Sound), NEW d
  PROVE  /\ Seats(sales, d) \in Nat
         /\ \A t : SeatsOf(sales, d, t) \in Nat
         /\ \A c : Uses(sales, d, c) \in Nat
<1>1. IsFiniteSet(DOMAIN sales) /\ \A k \in DOMAIN sales : sales[k] \in Sound
  BY SaleTypes
<1> DEFINE f == [k \in DOMAIN sales |-> SeatsIn(sales[k], d)]
           g(t) == [k \in DOMAIN sales |-> HeadsIn(sales[k], d, t)]
           h(c) == [k \in DOMAIN sales |-> UsesIn(sales[k], d, c)]
<1>2. /\ \A k \in DOMAIN sales : f[k] \in Nat
      /\ \A t : \A k \in DOMAIN sales : g(t)[k] \in Nat
      /\ \A c : \A k \in DOMAIN sales : h(c)[k] \in Nat
  BY <1>1, WeightsAre
<1>3. /\ Seats(sales, d) = Over(f, DOMAIN sales)
      /\ \A t : SeatsOf(sales, d, t) = Over(g(t), DOMAIN sales)
      /\ \A c : Uses(sales, d, c) = Over(h(c), DOMAIN sales)
  BY SumOverIsOver DEF Seats, SeatsOf, Uses
<1> HIDE DEF f, g, h
<1> QED
  BY <1>1, <1>2, <1>3, SumNat

(* The model counts them over the sales of the day.                        *)
LEMMA SeatsAre ==
  ASSUME sale \in Seq(Sound), NEW d
  PROVE  /\ Issued(d) = Seats(sale, d)
         /\ \A t : IssuedOf(d, t) = SeatsOf(sale, d, t)
         /\ \A c : Redeemed(OfCard(d, c)) = Uses(sale, d, c)
<1>1. IsFiniteSet(DOMAIN sale) /\ \A k \in DOMAIN sale : sale[k] \in Sound
  BY SaleTypes
<1> DEFINE S == DOMAIN sale
           C == Completed(d)
<1>2. C \in SUBSET S /\ \A k \in S : k \in C <=> Stands(sale[k], d)
  BY DEF Completed, SalesOf, Stands
<1>3. Issued(d) = Seats(sale, d)
  <2> DEFINE f == [k \in S |-> SeatsIn(sale[k], d)]
             g == [k \in C |-> Len(sale[k].tickets)]
  <2>1. DOMAIN f = S /\ \A k \in S : f[k] \in Int
    BY <1>1, WeightsAre
  <2>2. (\A k \in S \ C : f[k] = 0) /\ DOMAIN g = C /\ (\A k \in C : g[k] = f[k])
    BY <1>2 DEF SeatsIn
  <2>3. Issued(d) = SumOver(g) /\ Seats(sale, d) = SumOver(f)
    BY DEF Issued, Seats
  <2> HIDE DEF f, g, S, C
  <2>4. Padded(f, g)
    BY <1>1, <1>2, <2>1, <2>2 DEF Padded, S
  <2> QED
    BY <2>3, <2>4, SumWhere
<1>4. ASSUME NEW t PROVE IssuedOf(d, t) = SeatsOf(sale, d, t)
  <2> DEFINE f == [k \in S |-> HeadsIn(sale[k], d, t)]
             g == [k \in C |-> Cardinality(HeadsOf(sale[k].tickets, t))]
  <2>1. DOMAIN f = S /\ \A k \in S : f[k] \in Int
    <3>1. \A k \in S : HeadsIn(sale[k], d, t) \in Nat
      BY <1>1, WeightsAre
    <3> QED
      BY <3>1
  <2>2. (\A k \in S \ C : f[k] = 0) /\ DOMAIN g = C /\ (\A k \in C : g[k] = f[k])
    BY <1>2 DEF HeadsIn
  <2>3. IssuedOf(d, t) = SumOver(g) /\ SeatsOf(sale, d, t) = SumOver(f)
    BY DEF IssuedOf, SeatsOf
  <2> HIDE DEF f, g, S, C
  <2>4. Padded(f, g)
    BY <1>1, <1>2, <2>1, <2>2 DEF Padded, S
  <2> QED
    BY <2>3, <2>4, SumWhere
<1>5. ASSUME NEW c PROVE Redeemed(OfCard(d, c)) = Uses(sale, d, c)
  <2> DEFINE f == [k \in S |-> UsesIn(sale[k], d, c)]
             P == OfCard(d, c)
             g == [k \in P |-> sale[k].redeemed]
  <2>1. DOMAIN f = S /\ \A k \in S : f[k] \in Int
    <3>1. \A k \in S : UsesIn(sale[k], d, c) \in Nat
      BY <1>1, WeightsAre
    <3> QED
      BY <3>1
  <2>2. P \in SUBSET S /\ \A k \in S : k \in P <=> sale[k].day = d /\ sale[k].card = c
    BY DEF OfCard, SalesOf
  <2>3. (\A k \in S \ P : f[k] = 0) /\ DOMAIN g = P /\ (\A k \in P : g[k] = f[k])
    BY <2>2 DEF UsesIn
  <2>4. Redeemed(OfCard(d, c)) = SumOver(g) /\ Uses(sale, d, c) = SumOver(f)
    BY DEF Redeemed, Uses
  <2> HIDE DEF f, g, S, P
  <2>5. Padded(f, g)
    BY <1>1, <2>1, <2>2, <2>3 DEF Padded, S
  <2> QED
    BY <2>4, <2>5, SumWhere
<1> QED
  BY <1>3, <1>4, <1>5

(* A sum of smaller values is smaller.                                     *)
LEMMA SumAtMost ==
  ASSUME NEW S, NEW f, Summable(f, S), NEW g, Summable(g, S), \A x \in S : g[x] <= f[x]
  PROVE  Over(g, S) <= Over(f, S)
<1> DEFINE h == [x \in S |-> f[x] - g[x]]
<1>1. \A x \in S : h[x] \in Nat /\ f[x] = g[x] + h[x]
  BY DEF Summable
<1> HIDE DEF h
<1>2. Summable(h, S)
  BY <1>1 DEF Summable
<1>3. Over(f, S) = Over(g, S) + Over(h, S)
  BY <1>1, <1>2, SumPlus
<1>4. Over(h, S) \in Nat /\ Over(g, S) \in Int
  BY <1>1, SumNat, SumType DEF Summable
<1> QED
  BY <1>3, <1>4

(* Two states of one sale: only its reversal and marks differ, not what it *)
(* is a sale of.                                                           *)
Kin(s, n) ==
  /\ s \in Sound /\ n \in Sound
  /\ n.day = s.day /\ n.first = s.first /\ n.card = s.card
  /\ Len(n.tickets) = Len(s.tickets)
  /\ \A t : HeadsOf(n.tickets, t) = HeadsOf(s.tickets, t)
  /\ s.status = "VOIDED" => n.status = "VOIDED"

(* ... and not even those.                                                 *)
Same(s, n) == n.status = s.status /\ n.redeemed = s.redeemed

AllKin(sales, new) == DOMAIN new = DOMAIN sales /\ \A k \in DOMAIN sales : Kin(sales[k], new[k])

LEMMA KinKeep ==
  ASSUME NEW sales \in Seq(Sound), NEW new \in Seq(Sound), AllKin(sales, new), NEW d
  PROVE  /\ Seats(new, d) <= Seats(sales, d)
         /\ (\A k \in DOMAIN sales : sales[k].day = d => Same(sales[k], new[k])) =>
              /\ Seats(new, d) = Seats(sales, d)
              /\ \A t : SeatsOf(new, d, t) = SeatsOf(sales, d, t)
              /\ \A c : Uses(new, d, c) = Uses(sales, d, c)
<1> DEFINE S == DOMAIN sales
           f == [k \in S |-> SeatsIn(sales[k], d)]
           g == [k \in S |-> SeatsIn(new[k], d)]
<1>1. IsFiniteSet(S) /\ \A k \in S : Kin(sales[k], new[k])
  BY SaleTypes DEF AllKin
<1>2. \A k \in S : f[k] \in Nat /\ g[k] \in Nat
  BY <1>1, WeightsAre DEF Kin
<1>3. Seats(sales, d) = Over(f, S) /\ Seats(new, d) = Over(g, S)
  BY SumOverIsOver DEF Seats, AllKin
<1>4. \A k \in S : g[k] <= f[k]
  <2> TAKE k \in S
  <2>1. Stands(new[k], d) => Stands(sales[k], d)
    BY <1>1, SoundIs DEF Stands, Kin
  <2>2. Len(new[k].tickets) = Len(sales[k].tickets)
    BY <1>1 DEF Kin
  <2>3. SeatsIn(new[k], d) <= SeatsIn(sales[k], d)
    <3>1. SeatsIn(new[k], d) \in Nat /\ SeatsIn(sales[k], d) \in Nat
      BY <1>2
    <3> QED
      BY <2>1, <2>2, <3>1 DEF SeatsIn
  <2> QED
    BY <2>3
<1>5. Over(g, S) <= Over(f, S)
  <2> HIDE DEF f, g
  <2>1. Summable(f, S) /\ Summable(g, S)
    BY <1>1, <1>2 DEF Summable
  <2> QED
    BY <1>4, <2>1, SumAtMost
<1>6. ASSUME \A k \in DOMAIN sales : sales[k].day = d => Same(sales[k], new[k])
      PROVE  /\ Seats(new, d) = Seats(sales, d)
             /\ \A t : SeatsOf(new, d, t) = SeatsOf(sales, d, t)
             /\ \A c : Uses(new, d, c) = Uses(sales, d, c)
  <2>1. \A k \in S : /\ SeatsIn(new[k], d) = SeatsIn(sales[k], d)
                     /\ \A t : HeadsIn(new[k], d, t) = HeadsIn(sales[k], d, t)
                     /\ \A c : UsesIn(new[k], d, c) = UsesIn(sales[k], d, c)
    BY <1>1, <1>6 DEF Kin, Same, SeatsIn, HeadsIn, UsesIn, Stands
  <2>2. DOMAIN new = DOMAIN sales
    BY DEF AllKin
  <2>3. [k \in DOMAIN new |-> SeatsIn(new[k], d)] = [k \in DOMAIN sales |-> SeatsIn(sales[k], d)]
    BY <2>1, <2>2
  <2>4. \A t : [k \in DOMAIN new |-> HeadsIn(new[k], d, t)]
               = [k \in DOMAIN sales |-> HeadsIn(sales[k], d, t)]
    BY <2>1, <2>2
  <2>5. \A c : [k \in DOMAIN new |-> UsesIn(new[k], d, c)]
               = [k \in DOMAIN sales |-> UsesIn(sales[k], d, c)]
    BY <2>1, <2>2
  <2> QED
    BY <2>3, <2>4, <2>5 DEF Seats, SeatsOf, Uses
<1> QED
  BY <1>3, <1>5, <1>6

(* One sale more.                                                          *)
LEMMA AppendIs ==
  ASSUME NEW sales \in Seq(Sound), NEW row \in Sound
  PROVE  LET new == Append(sales, row)
             n   == Len(sales) + 1
         IN  /\ new \in Seq(Sound) /\ n \notin DOMAIN sales
             /\ DOMAIN new = DOMAIN sales \union {n}
             /\ \A k \in DOMAIN sales : new[k] = sales[k]
             /\ new[n] = row
<1>1. Len(sales) \in Nat /\ DOMAIN sales = 1 .. Len(sales)
  BY LenProperties
<1>2. /\ Append(sales, row) \in Seq(Sound)
      /\ Len(Append(sales, row)) = Len(sales) + 1
      /\ \A i \in 1 .. Len(sales) : Append(sales, row)[i] = sales[i]
      /\ Append(sales, row)[Len(sales) + 1] = row
  BY AppendProperties
<1>3. DOMAIN Append(sales, row) = 1 .. (Len(sales) + 1)
  BY <1>2, LenProperties
<1> QED
  BY <1>1, <1>2, <1>3

LEMMA CountsAfter ==
  ASSUME NEW sales \in Seq(Sound), NEW row \in Sound, NEW d
  PROVE  LET new == Append(sales, row)
         IN  /\ Seats(new, d) = Seats(sales, d) + SeatsIn(row, d)
             /\ \A t : SeatsOf(new, d, t) = SeatsOf(sales, d, t) + HeadsIn(row, d, t)
             /\ \A c : Uses(new, d, c) = Uses(sales, d, c) + UsesIn(row, d, c)
<1> DEFINE new == Append(sales, row)
           n == Len(sales) + 1
           S == DOMAIN sales
<1>1. /\ n \notin S /\ DOMAIN new = S \union {n} /\ new[n] = row
      /\ \A k \in S : new[k] = sales[k] /\ sales[k] \in Sound
      /\ IsFiniteSet(S)
  BY AppendIs, SaleTypes
<1> HIDE DEF new, n, S
<1>2. Seats(new, d) = Seats(sales, d) + SeatsIn(row, d)
  <2> DEFINE f == [k \in S |-> SeatsIn(sales[k], d)]
             g == [k \in S \union {n} |-> SeatsIn(new[k], d)]
  <2>1. (\A k \in S : f[k] \in Int /\ g[k] = f[k]) /\ g[n] = SeatsIn(row, d) /\ g[n] \in Int
    BY <1>1, WeightsAre
  <2>2. Seats(sales, d) = Over(f, S) /\ Seats(new, d) = Over(g, S \union {n})
    BY <1>1, SumOverIsOver DEF Seats, S
  <2> HIDE DEF f, g
  <2>3. Summable(f, S)
    BY <1>1, <2>1 DEF Summable
  <2>4. n \notin S /\ g[n] \in Int /\ \A k \in S : g[k] = f[k]
    BY <1>1, <2>1
  <2>5. Over(g, S \union {n}) = Over(f, S) + g[n]
    BY <2>3, <2>4, SumOneMore
  <2> QED
    BY <2>1, <2>2, <2>5
<1>3. ASSUME NEW t PROVE SeatsOf(new, d, t) = SeatsOf(sales, d, t) + HeadsIn(row, d, t)
  <2> DEFINE f == [k \in S |-> HeadsIn(sales[k], d, t)]
             g == [k \in S \union {n} |-> HeadsIn(new[k], d, t)]
  <2>1. (\A k \in S : f[k] \in Int /\ g[k] = f[k]) /\ g[n] = HeadsIn(row, d, t) /\ g[n] \in Int
    <3>1. \A r \in Sound : HeadsIn(r, d, t) \in Nat
      BY WeightsAre
    <3> QED
      BY <1>1, <3>1
  <2>2. SeatsOf(sales, d, t) = Over(f, S) /\ SeatsOf(new, d, t) = Over(g, S \union {n})
    BY <1>1, SumOverIsOver DEF SeatsOf, S
  <2> HIDE DEF f, g
  <2>3. Summable(f, S)
    BY <1>1, <2>1 DEF Summable
  <2>4. n \notin S /\ g[n] \in Int /\ \A k \in S : g[k] = f[k]
    BY <1>1, <2>1
  <2>5. Over(g, S \union {n}) = Over(f, S) + g[n]
    BY <2>3, <2>4, SumOneMore
  <2> QED
    BY <2>1, <2>2, <2>5
<1>4. ASSUME NEW c PROVE Uses(new, d, c) = Uses(sales, d, c) + UsesIn(row, d, c)
  <2> DEFINE f == [k \in S |-> UsesIn(sales[k], d, c)]
             g == [k \in S \union {n} |-> UsesIn(new[k], d, c)]
  <2>1. (\A k \in S : f[k] \in Int /\ g[k] = f[k]) /\ g[n] = UsesIn(row, d, c) /\ g[n] \in Int
    <3>1. \A r \in Sound : UsesIn(r, d, c) \in Nat
      BY WeightsAre
    <3> QED
      BY <1>1, <3>1
  <2>2. Uses(sales, d, c) = Over(f, S) /\ Uses(new, d, c) = Over(g, S \union {n})
    BY <1>1, SumOverIsOver DEF Uses, S
  <2> HIDE DEF f, g
  <2>3. Summable(f, S)
    BY <1>1, <2>1 DEF Summable
  <2>4. n \notin S /\ g[n] \in Int /\ \A k \in S : g[k] = f[k]
    BY <1>1, <2>1
  <2>5. Over(g, S \union {n}) = Over(f, S) + g[n]
    BY <2>3, <2>4, SumOneMore
  <2> QED
    BY <2>1, <2>2, <2>5
<1> QED
  BY <1>2, <1>3, <1>4 DEF new

(* A day without sales.                                                    *)
LEMMA NoSeats ==
  ASSUME NEW sales \in Seq(Sound), NEW d, \A k \in DOMAIN sales : sales[k].day # d
  PROVE  Seats(sales, d) = 0
<1> DEFINE f == [k \in DOMAIN sales |-> SeatsIn(sales[k], d)]
<1>1. \A k \in DOMAIN sales : f[k] = 0
  BY DEF SeatsIn, Stands
<1>2. Seats(sales, d) = Over(f, DOMAIN sales)
  BY SumOverIsOver DEF Seats
<1>3. IsFiniteSet(DOMAIN sales)
  BY SaleTypes
<1> HIDE DEF f
<1>4. Over(f, DOMAIN sales) = Over(f, {})
  BY <1>1, <1>3, SumZeros DEF Summable
<1> QED
  BY <1>2, <1>4, SumEmpty

-----------------------------------------------------------------------------
(* Steps that leave the books alone.                                       *)

BooksOK == DaysOK /\ ShiftsOK /\ SalesOK /\ ClosedIsReconciled /\ RequestsOK

LEMMA IdleIs == Idle.pc = "idle"
BY DEF Idle

(* A request that is not a sale under the lock.                            *)
LEMMA AskedIs ==
  ASSUME NEW r
  PROVE  /\ r \in SaleAsked => r.pc = "sale"
         /\ r \in SaleInHand => r.pc = "selling"
         /\ r \in VoidAsked => r.pc = "void"
         /\ r \in TierAsked => r.pc = "tier"
         /\ r \in RenewAsked => r.pc = "renew"
         /\ r \in BookAsked => r.pc = "book"
BY DEF SaleAsked, SaleInHand, VoidAsked, TierAsked, RenewAsked, BookAsked

(* The request of a user with that state.                                  *)
LEMMA AnsweredBy ==
  ASSUME RequestsOK, NEW u \in Users
  PROVE  /\ req[u].pc = "sale" => req[u] \in SaleAsked /\ req[u].day \in DOMAIN day
         /\ req[u].pc = "selling" => req[u] \in SaleInHand /\ Fits(req[u], sale, day)
         /\ req[u].pc = "void" => req[u] \in VoidAsked /\ req[u].sale \in DOMAIN sale
         /\ req[u].pc = "tier" => req[u] \in TierAsked
         /\ req[u].pc = "renew" => req[u] \in RenewAsked
         /\ req[u].pc = "book" => req[u] \in BookAsked /\ req[u].sale \in DOMAIN sale
<1>1. Answerable(req[u], sale, day)
  BY DEF RequestsOK
<1> QED
  BY <1>1, IdleIs, AskedIs DEF Answerable

LEMMA BooksStay ==
  ASSUME BooksOK, UNCHANGED <<day, shift, sale, req>>
  PROVE  BooksOK'
BY DEF BooksOK, DaysOK, ShiftsOK, SalesOK, ClosedIsReconciled, RequestsOK

(* One user asks, or is done.                                              *)
LEMMA BooksAsked ==
  ASSUME BooksOK, UNCHANGED <<day, shift, sale>>, NEW u \in Users, NEW r,
         req' = [req EXCEPT ![u] = r], r.pc # "selling", Answerable(r, sale, day)
  PROVE  BooksOK'
<1>1. DaysOK' /\ ShiftsOK' /\ SalesOK' /\ ClosedIsReconciled'
  BY DEF BooksOK, DaysOK, ShiftsOK, SalesOK, ClosedIsReconciled
<1>2. DOMAIN req' = Users /\ \A v \in Users : req'[v] = IF v = u THEN r ELSE req[v]
  BY DEF BooksOK, RequestsOK
<1>3. RequestsOK'
  BY <1>2 DEF BooksOK, RequestsOK
<1> QED
  BY <1>1, <1>3 DEF BooksOK

LEMMA BooksDone ==
  ASSUME BooksOK, UNCHANGED <<day, shift, sale>>, NEW u \in Users, Done(u)
  PROVE  BooksOK'
BY IdleIs, BooksAsked DEF Done, Answerable

(* Sales are marked, reversed or rewritten, on days no sale is locked on,  *)
(* or so that those in hand cannot tell.                                   *)
LEMMA BooksKin ==
  ASSUME DaysOK, ShiftsOK, SalesOK, RequestsOK,
         shift' = shift,
         sale' \in Seq(Sound), AllKin(sale, sale'),
         DOMAIN day' = DOMAIN day, day' \in [DOMAIN day -> DayRow],
         \A d \in DOMAIN day : day'[d].capacity = day[d].capacity /\ day'[d].next = day[d].next,
         DOMAIN req' = Users,
         \A v \in Users : req'[v] = req[v] \/ req'[v] = Idle,
         \A v \in Users : req'[v].pc = "selling" =>
            /\ day'[req[v].row.day] = day[req[v].row.day]
            /\ \A k \in DOMAIN sale : sale[k].day = req[v].row.day => Same(sale[k], sale'[k])
  PROVE  DaysOK' /\ ShiftsOK' /\ SalesOK' /\ RequestsOK'
<1>1. DaysOK' /\ ShiftsOK'
  BY DEF DaysOK, ShiftsOK
<1>2. sale \in Seq(Sound) /\ DOMAIN sale' = DOMAIN sale
      /\ \A k \in DOMAIN sale : Kin(sale[k], sale'[k])
  BY DEF SalesOK, AllKin
<1>3. SalesOK'
  <2>1. \A k \in DOMAIN sale : sale'[k].day = sale[k].day /\ sale'[k].first = sale[k].first
                               /\ Len(sale'[k].tickets) = Len(sale[k].tickets)
    BY <1>2 DEF Kin
  <2>2. \A k \in DOMAIN sale : Serials(sale'[k]) = Serials(sale[k])
    BY <2>1 DEF Serials
  <2>3. \A k \in DOMAIN sale : /\ sale'[k].day \in DOMAIN day'
                               /\ sale'[k].first + Len(sale'[k].tickets) <= day'[sale'[k].day].next
    BY <2>1 DEF SalesOK
  <2>4. \A j, k \in DOMAIN sale : j # k => Serials(sale'[j]) \intersect Serials(sale'[k]) = {}
    BY <2>2 DEF SalesOK
  <2>5. \A d \in DOMAIN day : day'[d].capacity # NoCap => Seats(sale', d) <= day'[d].capacity
    <3> TAKE d \in DOMAIN day
    <3> HAVE day'[d].capacity # NoCap
    <3>1. Seats(sale', d) <= Seats(sale, d) /\ Seats(sale', d) \in Nat /\ Seats(sale, d) \in Nat
      BY <1>2, KinKeep, CountsAre
    <3>2. Seats(sale, d) <= day[d].capacity /\ day'[d].capacity = day[d].capacity
      BY DEF SalesOK
    <3>3. day[d].capacity \in Int
      BY DEF DaysOK, DayRow, Capacity, NoCap
    <3> QED
      BY <3>1, <3>2, <3>3
  <2> QED
    BY <1>2, <2>3, <2>4, <2>5 DEF SalesOK
<1>4. ASSUME NEW v \in Users PROVE Answerable(req'[v], sale', day')
  <2>1. CASE req'[v] = Idle
    BY <2>1 DEF Answerable
  <2>2. CASE req'[v] = req[v]
    <3>1. Answerable(req[v], sale, day)
      BY DEF RequestsOK
    <3>2. CASE req[v].pc = "selling"
      <4> DEFINE r == req[v]
                 d == r.row.day
      <4>1. r \in SaleInHand /\ Fits(r, sale, day)
        BY <3>2, AnsweredBy
      <4>2. d \in DOMAIN day /\ day'[d] = day[d]
            /\ \A k \in DOMAIN sale : sale[k].day = d => Same(sale[k], sale'[k])
        BY <2>2, <3>2, <4>1 DEF Fits
      <4>3. /\ Seats(sale', d) = Seats(sale, d)
            /\ \A t : SeatsOf(sale', d, t) = SeatsOf(sale, d, t)
            /\ \A c : Uses(sale', d, c) = Uses(sale, d, c)
        BY <1>2, <4>2, KinKeep
      <4>4. Fits(r, sale', day')
        BY <4>1, <4>2, <4>3 DEF Fits
      <4> QED
        BY <2>2, <4>1, <4>4 DEF Answerable
    <3>3. CASE req[v].pc # "selling"
      BY <1>2, <2>2, <3>1, <3>3, AskedIs DEF Answerable
    <3> QED
      BY <3>2, <3>3
  <2> QED
    BY <2>1, <2>2
<1>5. RequestsOK'
  <2>1. \A v \in Users : req'[v].pc = "selling" => req'[v] = req[v]
    BY IdleIs
  <2> QED
    BY <1>4, <2>1 DEF RequestsOK
<1> QED
  BY <1>1, <1>3, <1>5

LEMMA InitHolds ==
  ASSUME Init
  PROVE  DeskInv
<1>1. ConfigOK
  <2>1. today \in Dates /\ asked \in 0 .. MaxRequests
    BY DeskAssumption DEF Init, Dates
  <2>2. PICK start \in Starts :
          /\ settings = [enabled |-> TRUE, book |-> start.book, selfVoid |-> TRUE]
          /\ session = start.session /\ type = start.type
          /\ offer = start.offer /\ tier = start.tier /\ card = start.card
    BY DEF Init
  <2>3. start \in [book : BOOLEAN, session : [Sessions -> SessionRow], type : [Types -> TypeRow],
                   offer : [RuleIds -> OfferRow], tier : [Tiers -> OfferRow],
                   card : [Cards -> CardRow]]
    BY DeskAssumption
  <2> QED
    BY <2>1, <2>2, <2>3 DEF ConfigOK
<1>2. day = <<>> /\ shift = <<>> /\ sale = <<>> /\ req = [u \in Users |-> Idle]
  BY DEF Init
<1>3. /\ DOMAIN day = {} /\ DOMAIN shift = {} /\ DOMAIN sale = {}
      /\ sale \in Seq(Sound) /\ shift \in Seq(ShiftRow)
  BY <1>2, EmptySeq
<1>4. DaysOK
  BY <1>2, <1>3 DEF DaysOK
<1>5. ShiftsOK /\ SalesOK /\ ClosedIsReconciled
  BY <1>3 DEF ShiftsOK, SalesOK, ClosedIsReconciled
<1>6. RequestsOK
  BY <1>2, IdleIs DEF RequestsOK, Answerable
<1> QED
  BY <1>1, <1>4, <1>5, <1>6 DEF DeskInv

-----------------------------------------------------------------------------
(* The configuration.                                                      *)

LEMMA CountedIs ==
  ASSUME NEW n \in Nat, Counted(n), asked \in 0 .. MaxRequests
  PROVE  asked' \in 0 .. MaxRequests
BY DeskAssumption DEF Counted

LEMMA ShapeIs ==
  ASSUME NEW shape \in Shapes
  PROVE  shape.capacity \in Capacity /\ shape.price \in Nat
BY DeskAssumption

LEMMA ValueIs == Values \subseteq Nat
BY ShapeIs DEF Values

(* Managers change the settings, the sessions, the types and the offers.   *)
LEMMA ConfiguringKeeps ==
  ASSUME ConfigOK, NEW u \in Users, Configuring(u)
  PROVE  /\ ConfigOK'
         /\ UNCHANGED <<today, day, shift, req>>
         /\ \/ UNCHANGED sale
            \/ \E r \in RuleIds : DeleteDiscountRule(u, r)
<1> USE DEF ConfigOK, Configures, Allowed
<1>0. asked \in 0 .. MaxRequests /\ 2 \in Nat
  OBVIOUS
<1>1. ASSUME NEW book \in BOOLEAN, NEW selfVoid \in BOOLEAN, UpdateSettings(u, book, selfVoid)
      PROVE  ConfigOK' /\ UNCHANGED <<today, day, shift, sale, req>>
  BY <1>0, <1>1, CountedIs DEF UpdateSettings
<1>2. ASSUME Provision(u)
      PROVE  ConfigOK' /\ UNCHANGED <<today, day, shift, sale, req>>
  BY <1>0, <1>2, CountedIs DEF Provision
<1>3. ASSUME NEW s \in Sessions, NEW shape \in Shapes, CreateSession(u, s, shape)
      PROVE  ConfigOK' /\ UNCHANGED <<today, day, shift, sale, req>>
  <2>1. [state |-> "active", capacity |-> shape.capacity] \in SessionRow
    BY ShapeIs DEF SessionRow
  <2> QED
    BY <1>0, <1>3, <2>1, CountedIs DEF CreateSession
<1>4. ASSUME NEW s \in Sessions, NEW shape \in Shapes, NEW on \in BOOLEAN,
             UpdateSession(u, s, shape, on)
      PROVE  ConfigOK' /\ UNCHANGED <<today, day, shift, sale, req>>
  <2>1. [state |-> IF on THEN "active" ELSE "archived", capacity |-> shape.capacity] \in SessionRow
    BY ShapeIs DEF SessionRow
  <2> QED
    BY <1>0, <1>4, <2>1, CountedIs DEF UpdateSession
<1>5. ASSUME NEW s \in Sessions, DeleteSession(u, s)
      PROVE  ConfigOK' /\ UNCHANGED <<today, day, shift, sale, req>>
  <2>1. session' \in [Sessions -> SessionRow]
    BY <1>5 DEF DeleteSession, SessionRow
  <2>2. type' \in [Types -> TypeRow]
    BY <1>5 DEF DeleteSession, TypeRow
  <2>3. offer' \in [RuleIds -> OfferRow]
    BY <1>5 DEF DeleteSession, OfferRow
  <2> QED
    BY <1>0, <1>5, <2>1, <2>2, <2>3, CountedIs DEF DeleteSession
<1>6. ASSUME NEW t \in Types, NEW shape \in Shapes, CreateTicketType(u, t, shape)
      PROVE  ConfigOK' /\ UNCHANGED <<today, day, shift, sale, req>>
  <2>1. [state |-> "active", price |-> shape.price, capacity |-> shape.capacity] \in TypeRow
    BY ShapeIs DEF TypeRow
  <2> QED
    BY <1>0, <1>6, <2>1, CountedIs DEF CreateTicketType
<1>7. ASSUME NEW t \in Types, NEW shape \in Shapes, NEW on \in BOOLEAN,
             UpdateTicketType(u, t, shape, on)
      PROVE  ConfigOK' /\ UNCHANGED <<today, day, shift, sale, req>>
  <2>1. [state |-> IF on THEN "active" ELSE "archived", price |-> shape.price,
         capacity |-> shape.capacity] \in TypeRow
    BY ShapeIs DEF TypeRow
  <2> QED
    BY <1>0, <1>7, <2>1, CountedIs DEF UpdateTicketType
<1>8. ASSUME NEW t \in Types, DeleteTicketType(u, t)
      PROVE  ConfigOK' /\ UNCHANGED <<today, day, shift, sale, req>>
  <2>1. type' \in [Types -> TypeRow]
    BY <1>8 DEF DeleteTicketType, TypeRow
  <2> QED
    BY <1>0, <1>8, <2>1, CountedIs DEF DeleteTicketType
<1>9. ASSUME NEW r \in RuleIds, CreateDiscountRule(u, r)
      PROVE  ConfigOK' /\ UNCHANGED <<today, day, shift, sale, req>>
  <2>1. [state |-> "active", value |-> RuleBook[r].rule.value] \in OfferRow
    BY DeskAssumption DEF OfferRow, Rule
  <2> QED
    BY <1>0, <1>9, <2>1, CountedIs DEF CreateDiscountRule
<1>10. ASSUME NEW r \in RuleIds, NEW v \in Values, NEW on \in BOOLEAN,
              UpdateDiscountRule(u, r, v, on)
       PROVE  ConfigOK' /\ UNCHANGED <<today, day, shift, sale, req>>
  <2>1. [state |-> IF on THEN "active" ELSE "inactive", value |-> v] \in OfferRow
    BY ValueIs DEF OfferRow
  <2> QED
    BY <1>0, <1>10, <2>1, CountedIs DEF UpdateDiscountRule
<1>11. ASSUME NEW r \in RuleIds, DeleteDiscountRule(u, r)
       PROVE  ConfigOK' /\ UNCHANGED <<today, day, shift, req>>
  <2>1. offer' \in [RuleIds -> OfferRow]
    BY <1>11 DEF DeleteDiscountRule, OfferRow
  <2> QED
    BY <1>0, <1>11, <2>1, CountedIs DEF DeleteDiscountRule
<1> QED
  BY <1>1, <1>2, <1>3, <1>4, <1>5, <1>6, <1>7, <1>8, <1>9, <1>10, <1>11 DEF Configuring

LEMMA TierIs ==
  ASSUME NEW t \in Tiers
  PROVE  /\ TierBook[t].most \in Nat \union {Unlimited} /\ TierBook[t].months \in Nat
         /\ TierBook[t].rule \in RuleIds
BY DeskAssumption

LEMMA LongerIs ==
  ASSUME NEW from \in Nat, NEW t \in Tiers
  PROVE  Extended(from, t) \in Nat
BY TierIs DEF Extended, Forever

LEMMA LaterOf ==
  ASSUME NEW a \in Nat, NEW b \in Nat
  PROVE  Max({a, b}) \in Nat
<1>1. \E x \in {a, b} : \A y \in {a, b} : x >= y
  <2>1. a >= b \/ b >= a
    OBVIOUS
  <2> QED
    BY <2>1
<1> QED
  BY <1>1 DEF Max

LEMMA TodayIs == ASSUME ConfigOK PROVE today \in Nat
BY DeskAssumption DEF ConfigOK, Dates

(* Tiers and cards; two of these steps are requests.                       *)
LEMMA MembersKeep ==
  ASSUME ConfigOK, BooksOK, NEW u \in Users, Members(u)
  PROVE  ConfigOK' /\ BooksOK' /\ UNCHANGED <<today, day, shift, sale>>
<1> USE DEF Configures, Allowed
<1>0. asked \in 0 .. MaxRequests /\ 2 \in Nat /\ 1 \in Nat /\ RequestsOK
  BY DEF ConfigOK, BooksOK
<1>1. ASSUME NEW t \in Tiers, NEW v \in Values, NEW on \in BOOLEAN, BeginTier(u, t, v, on)
      PROVE  ConfigOK' /\ BooksOK' /\ UNCHANGED <<today, day, shift, sale>>
  <2> DEFINE r == [pc |-> "tier", tier |-> t, value |-> v, active |-> on,
                   new |-> tier[t].state = "none"]
  <2>1. [state |-> IF on THEN "active" ELSE "inactive", value |-> v] \in OfferRow
    BY ValueIs DEF OfferRow
  <2>2. ConfigOK'
    BY <1>0, <1>1, <2>1, CountedIs DEF BeginTier, ConfigOK
  <2>3. r \in TierAsked
    BY ValueIs DEF TierAsked
  <2>4. req' = [req EXCEPT ![u] = r] /\ UNCHANGED <<today, day, shift, sale>>
    BY <1>1 DEF BeginTier, Asks
  <2> HIDE DEF r
  <2>5. BooksOK'
    BY <2>3, <2>4, AskedIs, BooksAsked DEF Answerable
  <2> QED
    BY <2>2, <2>4, <2>5
<1>2. ASSUME FinishTier(u)
      PROVE  ConfigOK' /\ BooksOK' /\ UNCHANGED <<today, day, shift, sale>>
  <2>1. req[u] \in TierAsked
    BY <1>0, <1>2, AnsweredBy DEF FinishTier
  <2>2. req[u].value \in Nat /\ req[u].tier \in Tiers
    BY <2>1 DEF TierAsked
  <2>3. [state |-> IF req[u].active THEN "active" ELSE "inactive", value |-> req[u].value] \in OfferRow
    BY <2>2 DEF OfferRow
  <2>4. offer' \in [RuleIds -> OfferRow]
    BY <1>2, <2>2, <2>3 DEF FinishTier, ConfigOK
  <2>5. ConfigOK'
    BY <1>2, <2>4 DEF FinishTier, ConfigOK
  <2>6. BooksOK'
    BY <1>2, BooksDone DEF FinishTier
  <2> QED
    BY <1>2, <2>5, <2>6 DEF FinishTier
<1>3. ASSUME NEW c \in Cards, NEW t \in Tiers, CreateCard(u, c, t)
      PROVE  ConfigOK' /\ BooksOK' /\ UNCHANGED <<today, day, shift, sale>>
  <2>1. [status |-> "ACTIVE", tier |-> t, until |-> Extended(today, t)] \in CardRow
    BY TodayIs, LongerIs DEF CardRow
  <2>2. ConfigOK'
    BY <1>0, <1>3, <2>1, CountedIs DEF CreateCard, ConfigOK
  <2>3. BooksOK'
    BY <1>3, BooksStay DEF CreateCard
  <2> QED
    BY <1>3, <2>2, <2>3 DEF CreateCard
<1>4. ASSUME NEW c \in Cards, NEW t \in Tiers, NEW st \in {"ACTIVE", "SUSPENDED"},
             UpdateCard(u, c, t, st)
      PROVE  ConfigOK' /\ BooksOK' /\ UNCHANGED <<today, day, shift, sale>>
  <2>1. card' \in [Cards -> CardRow]
    BY <1>4 DEF UpdateCard, ConfigOK, CardRow
  <2>2. ConfigOK'
    BY <1>0, <1>4, <2>1, CountedIs DEF UpdateCard, ConfigOK
  <2>3. BooksOK'
    BY <1>4, BooksStay DEF UpdateCard
  <2> QED
    BY <1>4, <2>2, <2>3 DEF UpdateCard
<1>5. ASSUME NEW c \in Cards, BeginRenew(u, c)
      PROVE  ConfigOK' /\ BooksOK' /\ UNCHANGED <<today, day, shift, sale>>
  <2>1. card[c] \in CardRow
    BY DEF ConfigOK
  <2>2. card[c].tier \in Tiers /\ card[c].until \in Nat
    BY <2>1 DEF CardRow
  <2> DEFINE r == [pc |-> "renew", card |-> c,
                   until |-> Extended(Max({card[c].until, today}), card[c].tier)]
  <2>3. Max({card[c].until, today}) \in Nat
    BY <2>2, TodayIs, LaterOf
  <2>4. Extended(Max({card[c].until, today}), card[c].tier) \in Nat
    BY <2>2, <2>3, LongerIs
  <2>5. r \in RenewAsked
    BY <2>4 DEF RenewAsked
  <2>6. req' = [req EXCEPT ![u] = r] /\ UNCHANGED <<today, day, shift, sale>>
    BY <1>5 DEF BeginRenew, Asks
  <2>7. ConfigOK'
    BY <1>0, <1>5, CountedIs DEF BeginRenew, ConfigOK, May, config
  <2> HIDE DEF r
  <2>8. BooksOK'
    BY <2>5, <2>6, AskedIs, BooksAsked DEF Answerable
  <2> QED
    BY <2>6, <2>7, <2>8
<1>6. ASSUME FinishRenew(u)
      PROVE  ConfigOK' /\ BooksOK' /\ UNCHANGED <<today, day, shift, sale>>
  <2>1. req[u] \in RenewAsked
    BY <1>0, <1>6, AnsweredBy DEF FinishRenew
  <2>2. req[u].card \in Cards /\ req[u].until \in Nat
    BY <2>1 DEF RenewAsked
  <2>3. card' \in [Cards -> CardRow]
    BY <1>6, <2>2 DEF FinishRenew, ConfigOK, CardRow
  <2>4. ConfigOK'
    BY <1>6, <2>3 DEF FinishRenew, ConfigOK
  <2>5. BooksOK'
    BY <1>6, BooksDone DEF FinishRenew
  <2> QED
    BY <1>6, <2>4, <2>5 DEF FinishRenew
<1> QED
  BY <1>1, <1>2, <1>3, <1>4, <1>5, <1>6 DEF Members

LEMMA FeatureKeeps ==
  ASSUME ConfigOK, NEW on \in BOOLEAN, SetFeature(on)
  PROVE  ConfigOK' /\ UNCHANGED <<day, shift, sale, req>>
<1>1. asked' \in 0 .. MaxRequests
  BY CountedIs DEF ConfigOK, SetFeature
<1> QED
  BY <1>1 DEF ConfigOK, SetFeature

LEMMA DateKeeps ==
  ASSUME ConfigOK, NextDate
  PROVE  ConfigOK' /\ UNCHANGED <<day, shift, sale, req>>
<1>1. today' \in Dates
  BY DeskAssumption DEF ConfigOK, NextDate, Dates
<1> QED
  BY <1>1 DEF ConfigOK, NextDate, config

-----------------------------------------------------------------------------
(* Sales that are marked, reversed or rewritten.                           *)

LEMMA RewrittenSeq ==
  ASSUME NEW sales \in Seq(Sound), NEW new, new = [k \in DOMAIN sales |-> new[k]],
         \A k \in DOMAIN sales : new[k] \in Sound
  PROVE  new \in Seq(Sound)
<1>1. Len(sales) \in Nat /\ DOMAIN sales = 1 .. Len(sales)
  BY LenProperties
<1>2. new \in [1 .. Len(sales) -> Sound]
  BY <1>1
<1> QED
  BY <1>1, <1>2, SeqDef

LEMMA KinSelf == ASSUME NEW s \in Sound PROVE Kin(s, s) /\ Same(s, s)
BY DEF Kin, Same

LEMMA VoidedKin ==
  ASSUME NEW s \in Sound, ~s.entry.flipped => ~s.entry.reconciled
  PROVE  /\ Kin(s, Voided(s)) /\ Voided(s).status = "VOIDED"
         /\ ~Voided(s).entry.flipped => ~Voided(s).entry.reconciled
<1>1. s \in SaleRow /\ s.entry \in Entry /\ s.net = Total(s.tickets) /\ Carries(s, s.entry)
  BY DEF Sound, SaleRow
<1> DEFINE e == Reversed(s.entry)
           n == Voided(s)
<1>2. /\ e \in Entry /\ e.status # "POSTED" /\ e.amount = s.entry.amount
      /\ e.version = s.entry.version /\ e.flipped = s.entry.flipped
      /\ e.reconciled = s.entry.reconciled
  BY <1>1 DEF Reversed, Entry
<1>3. n \in SaleRow
  BY <1>1, <1>2 DEF Voided, SaleRow
<1>4. /\ n.day = s.day /\ n.first = s.first /\ n.card = s.card /\ n.tickets = s.tickets
      /\ n.net = s.net /\ n.status = "VOIDED" /\ n.redeemed = 0 /\ n.entry = e
  BY <1>1 DEF Voided, SaleRow
<1> HIDE DEF n, e
<1>5. Carries(n, n.entry)
  BY <1>1, <1>2, <1>4 DEF Carries
<1>6. n \in Sound
  BY <1>1, <1>3, <1>4, <1>5 DEF Sound
<1> QED
  BY <1>2, <1>4, <1>6 DEF Kin, n

(* A sale whose entry is written, by the book or by the closing of its day.*)
LEMMA WrittenKin ==
  ASSUME NEW s \in Sound, NEW e \in Entry, Carries(s, e)
  PROVE  LET n == [s EXCEPT !.entry = e]
         IN  /\ Kin(s, n) /\ Same(s, n)
             /\ n.entry = e /\ n.net = s.net /\ n.status = s.status /\ n.day = s.day
<1>1. s \in SaleRow /\ s.entry \in Entry
  BY DEF Sound, SaleRow
<1> DEFINE n == [s EXCEPT !.entry = e]
<1>2. n \in SaleRow
  BY <1>1 DEF SaleRow
<1>3. /\ n.day = s.day /\ n.first = s.first /\ n.card = s.card /\ n.tickets = s.tickets
      /\ n.net = s.net /\ n.status = s.status /\ n.redeemed = s.redeemed /\ n.entry = e
  BY <1>1 DEF SaleRow
<1> HIDE DEF n
<1>4. Carries(n, n.entry)
  BY <1>3 DEF Carries
<1>5. n \in Sound
  BY <1>2, <1>3, <1>4 DEF Sound
<1> QED
  BY <1>3, <1>5 DEF Kin, Same, n

LEMMA MarkedKin ==
  ASSUME NEW s \in Sound, NEW b \in BOOLEAN,
         b => s.status = "COMPLETED" /\ s.entry.status = "POSTED"
  PROVE  LET n == WithMark(s, b)
         IN  /\ Kin(s, n) /\ Same(s, n)
             /\ n.entry.reconciled <=> b
             /\ ~n.entry.flipped
             /\ n.entry.status = s.entry.status /\ n.net = s.net /\ n.status = s.status
<1> DEFINE e == [s.entry EXCEPT !.reconciled = b, !.flipped = FALSE]
<1>1. s \in SaleRow /\ s.entry \in Entry /\ Carries(s, s.entry)
  BY DEF Sound, SaleRow
<1>2. /\ e \in Entry /\ e.status = s.entry.status /\ e.amount = s.entry.amount
      /\ e.version = s.entry.version /\ ~e.flipped /\ (e.reconciled <=> b)
  BY <1>1 DEF Entry
<1>3. WithMark(s, b) = [s EXCEPT !.entry = e]
  BY <1>1 DEF WithMark, SaleRow, Entry
<1> HIDE DEF e
<1>4. Carries(s, e)
  BY <1>1, <1>2 DEF Carries
<1> QED
  BY <1>2, <1>3, <1>4, WrittenKin

(* What the book may write of an entry: no mark but its own, and no entry  *)
(* that was gone.                                                          *)
Corrected(s, e) ==
  /\ e \in Entry /\ Carries(s, e)
  /\ ~e.flipped => /\ ~s.entry.flipped /\ (e.reconciled <=> s.entry.reconciled)
                   /\ e.status = "POSTED" => s.entry.status = "POSTED"

LEMMA EditedIs ==
  ASSUME NEW s \in Sound, s.entry.status = "POSTED", NEW x \in Nat
  PROVE  Corrected(s, Edited(s.entry, x))
<1> DEFINE e == Edited(s.entry, x)
<1>1. s.entry \in Entry /\ Carries(s, s.entry)
  BY DEF Sound, SaleRow
<1>2. /\ e \in Entry /\ e.version # 1 /\ e.status = s.entry.status
      /\ e.reconciled = s.entry.reconciled /\ e.flipped = s.entry.flipped
  <2> DEFINE old == s.entry
  <2>1. old \in Entry /\ old.version \in Nat \ {0} /\ old.version + 1 \in Nat \ {0, 1}
    BY <1>1 DEF Entry
  <2>2. e = [old EXCEPT !.amount = x, !.version = old.version + 1]
    BY <2>1 DEF Edited, Entry
  <2> HIDE DEF e, old
  <2>3. /\ e \in Entry /\ e.version # 1 /\ e.status = old.status
        /\ e.reconciled = old.reconciled /\ e.flipped = old.flipped
    BY <2>1, <2>2 DEF Entry
  <2> QED
    BY <2>3 DEF old
<1> HIDE DEF e
<1> QED
  BY <1>1, <1>2 DEF Corrected, Carries, e

LEMMA DeletedIs ==
  ASSUME NEW s \in Sound
  PROVE  Corrected(s, Deleted(s.entry))
<1> DEFINE e == Deleted(s.entry)
<1>1. s.entry \in Entry /\ Carries(s, s.entry)
  BY DEF Sound, SaleRow
<1>2. /\ e \in Entry /\ e.status = "REVERSED" /\ e.version = s.entry.version
      /\ e.amount = s.entry.amount
      /\ e.reconciled = s.entry.reconciled /\ e.flipped = s.entry.flipped
  BY <1>1 DEF Deleted, Entry
<1> HIDE DEF e
<1> QED
  BY <1>1, <1>2 DEF Corrected, Carries, e

LEMMA ToggledIs ==
  ASSUME NEW s \in Sound, NEW seen \in Entry
  PROVE  Corrected(s, Toggled(s.entry, seen))
<1> DEFINE e == Toggled(s.entry, seen)
<1>1. s.entry \in Entry /\ Carries(s, s.entry)
  BY DEF Sound, SaleRow
<1>2. /\ e \in Entry /\ e.flipped /\ e.status = s.entry.status
      /\ e.version = s.entry.version /\ e.amount = s.entry.amount
  BY <1>1 DEF Toggled, Entry
<1> HIDE DEF e
<1> QED
  BY <1>1, <1>2 DEF Corrected, Carries, e

(* Tickets that lose the pointer to an offer cost what they did.           *)
LEMMA UnpointedKin ==
  ASSUME NEW s \in Sound, NEW r
  PROVE  /\ Kin(s, Unpointed(s, r)) /\ Same(s, Unpointed(s, r))
         /\ Unpointed(s, r).entry = s.entry /\ Unpointed(s, r).net = s.net
<1> DEFINE without(head) == IF head.rule = r THEN [head EXCEPT !.rule = NoRule] ELSE head
           hs == s.tickets
           ts == [i \in DOMAIN hs |-> without(hs[i])]
           n  == Unpointed(s, r)
<1>1. s \in SaleRow /\ hs \in Heads /\ s.net = Total(hs)
  BY DEF Sound, SaleRow
<1>2. Len(hs) \in Nat /\ DOMAIN hs = 1 .. Len(hs)
      /\ \A i \in DOMAIN hs : hs[i] \in Ticket(Types) /\ NetPrice(hs[i]) >= 0
  BY <1>1, HeadsDomain
<1>3. \A i \in DOMAIN hs : /\ without(hs[i]) \in Ticket(Types)
                           /\ without(hs[i]).type = hs[i].type
                           /\ NetPrice(without(hs[i])) = NetPrice(hs[i])
  <2> TAKE i \in DOMAIN hs
  <2>1. hs[i] \in Ticket(Types)
    BY <1>2
  <2> QED
    BY <2>1 DEF Ticket, NetPrice, NoRule
<1>4. n = [s EXCEPT !.tickets = ts]
  BY DEF Unpointed
<1> HIDE DEF without, hs
<1>5. DOMAIN ts = 1 .. Len(hs) /\ \A i \in DOMAIN hs : ts[i] = without(hs[i])
  BY <1>2
<1>6. ts \in [1 .. Len(hs) -> Ticket(Types)]
  BY <1>2, <1>3
<1> HIDE DEF ts
<1>7. ts \in Seq(Ticket(Types)) /\ Len(ts) = Len(hs)
  <2>1. ts \in Seq(Ticket(Types))
    BY <1>2, <1>6, SeqDef
  <2> QED
    BY <1>2, <1>5, <2>1, LenProperties
<1>8. ts \in Heads
  BY <1>2, <1>3, <1>5, <1>7 DEF Heads
<1>9. Total(ts) = Total(hs)
  <2>1. [i \in DOMAIN ts |-> NetPrice(ts[i])] = [i \in DOMAIN hs |-> NetPrice(hs[i])]
    BY <1>2, <1>3, <1>5
  <2> QED
    BY <2>1 DEF Total
<1>10. \A t : HeadsOf(ts, t) = HeadsOf(hs, t)
  BY <1>2, <1>3, <1>5 DEF HeadsOf
<1>11. n \in SaleRow
  BY <1>1, <1>4, <1>8 DEF SaleRow
<1>12. /\ n.day = s.day /\ n.first = s.first /\ n.card = s.card /\ n.tickets = ts
       /\ n.net = s.net /\ n.status = s.status /\ n.redeemed = s.redeemed /\ n.entry = s.entry
  BY <1>1, <1>4 DEF SaleRow
<1> HIDE DEF n
<1>13. Carries(n, n.entry) /\ (s.status = "VOIDED" => s.redeemed = 0)
  BY <1>12 DEF Sound, Carries
<1>14. n \in Sound
  BY <1>1, <1>9, <1>11, <1>12, <1>13 DEF Sound
<1> QED
  BY <1>7, <1>10, <1>12, <1>14 DEF Kin, Same, hs, n

-----------------------------------------------------------------------------
(* The steps of the desk.                                                  *)

LEMMA GiveUpKeeps ==
  ASSUME ConfigOK, BooksOK, NEW u \in Users, GiveUp(u)
  PROVE  ConfigOK' /\ BooksOK'
<1>1. BooksOK'
  BY BooksDone DEF GiveUp
<1> QED
  BY <1>1 DEF GiveUp, ConfigOK, config

LEMMA BeginVoidKeeps ==
  ASSUME ConfigOK, BooksOK, NEW u \in Users, NEW k \in DOMAIN sale, BeginVoid(u, k)
  PROVE  ConfigOK' /\ BooksOK'
<1> DEFINE r == [pc |-> "void", sale |-> k]
<1>1. k \in Nat
  BY SaleTypes DEF BooksOK, SalesOK
<1>2. r \in VoidAsked /\ r.sale \in DOMAIN sale
  BY <1>1 DEF VoidAsked
<1>3. req' = [req EXCEPT ![u] = r] /\ UNCHANGED <<day, shift, sale>>
  BY DEF BeginVoid, Asks
<1>4. ConfigOK'
  BY CountedIs DEF BeginVoid, May, ConfigOK, config
<1> HIDE DEF r
<1>5. BooksOK'
  BY <1>2, <1>3, AskedIs, BooksAsked DEF Answerable
<1> QED
  BY <1>4, <1>5

(* Those in hand are on another day than one that is not locked.           *)
LEMMA InHandElsewhere ==
  ASSUME RequestsOK, NEW d, Unlocked(d), NEW v \in Users, req[v].pc = "selling"
  PROVE  req[v].row.day # d /\ req[v].row.day \in DOMAIN day
BY AnsweredBy DEF Unlocked, Fits

(* Sales rewritten one by one.                                             *)
LEMMA SalesRewritten ==
  ASSUME sale \in Seq(Sound), sale' = [j \in DOMAIN sale |-> sale'[j]],
         \A j \in DOMAIN sale : Kin(sale[j], sale'[j])
  PROVE  sale' \in Seq(Sound) /\ AllKin(sale, sale')
<1> DEFINE new == sale'
<1>1. new = [j \in DOMAIN sale |-> new[j]] /\ \A j \in DOMAIN sale : Kin(sale[j], new[j])
  OBVIOUS
<1> HIDE DEF new
<1>2. \A j \in DOMAIN sale : new[j] \in Sound
  BY <1>1 DEF Kin
<1>3. new \in Seq(Sound)
  BY <1>1, <1>2, RewrittenSeq
<1>4. AllKin(sale, new)
  BY <1>1 DEF AllKin
<1> QED
  BY <1>3, <1>4 DEF new

LEMMA CommitVoidKeeps ==
  ASSUME ConfigOK, BooksOK, NEW u \in Users, CommitVoid(u)
  PROVE  ConfigOK' /\ BooksOK'
<1>1. DaysOK /\ ShiftsOK /\ SalesOK /\ ClosedIsReconciled /\ RequestsOK
  BY DEF BooksOK
<1> DEFINE k == req[u].sale
           d == sale[k].day
<1>2. k \in DOMAIN sale
  BY <1>1, AnsweredBy DEF CommitVoid
<1>3. /\ Unlocked(d) /\ sale[k].status = "COMPLETED" /\ day[d].status = "OPEN"
      /\ sale' = [sale EXCEPT ![k] = Voided(@)]
      /\ req' = [req EXCEPT ![u] = Idle]
      /\ UNCHANGED <<asked, today, config, card, day, shift>>
  BY DEF CommitVoid, Done
<1> HIDE DEF k, d
<1>4. sale \in Seq(Sound) /\ \A j \in DOMAIN sale : sale[j] \in Sound
  BY <1>1, SaleTypes DEF SalesOK
<1>5. sale[k] \in Sound /\ (~sale[k].entry.flipped => ~sale[k].entry.reconciled)
  BY <1>1, <1>2, <1>3, <1>4 DEF ClosedIsReconciled, d
<1>6. /\ Kin(sale[k], Voided(sale[k])) /\ Voided(sale[k]).status = "VOIDED"
      /\ ~Voided(sale[k]).entry.flipped => ~Voided(sale[k]).entry.reconciled
  BY <1>5, VoidedKin
<1>7. /\ DOMAIN sale' = DOMAIN sale
      /\ \A j \in DOMAIN sale : sale'[j] = IF j = k THEN Voided(sale[k]) ELSE sale[j]
      /\ sale' = [j \in DOMAIN sale |-> sale'[j]]
  BY <1>2, <1>3
<1>8. \A j \in DOMAIN sale : Kin(sale[j], sale'[j])
  BY <1>4, <1>6, <1>7, KinSelf
<1>9. sale' \in Seq(Sound) /\ AllKin(sale, sale')
  BY <1>4, <1>7, <1>8, SalesRewritten
<1>10. DOMAIN req' = Users /\ \A v \in Users : req'[v] = IF v = u THEN Idle ELSE req[v]
  BY <1>1, <1>3 DEF RequestsOK
<1>11. ASSUME NEW v \in Users, req'[v].pc = "selling"
       PROVE  /\ day'[req[v].row.day] = day[req[v].row.day]
              /\ \A j \in DOMAIN sale : sale[j].day = req[v].row.day => Same(sale[j], sale'[j])
  <2>1. req[v].pc = "selling"
    BY <1>10, <1>11, IdleIs
  <2>2. req[v].row.day # d
    BY <1>1, <1>3, <2>1, InHandElsewhere
  <2>3. \A j \in DOMAIN sale : sale[j].day = req[v].row.day => sale'[j] = sale[j]
    BY <1>7, <2>2 DEF d
  <2> QED
    BY <1>3, <2>3 DEF Same
<1>12. DaysOK' /\ ShiftsOK' /\ SalesOK' /\ RequestsOK'
  BY <1>1, <1>3, <1>9, <1>10, <1>11, BooksKin DEF DaysOK
<1>13. ClosedIsReconciled'
  BY <1>1, <1>3, <1>6, <1>7 DEF ClosedIsReconciled
<1> QED
  BY <1>3, <1>12, <1>13 DEF BooksOK, ConfigOK, config

LEMMA CloseDayKeeps ==
  ASSUME ConfigOK, BooksOK, NEW u \in Users, NEW d \in DOMAIN day, CloseDay(u, d)
  PROVE  ConfigOK' /\ BooksOK'
<1>1. DaysOK /\ ShiftsOK /\ SalesOK /\ ClosedIsReconciled /\ RequestsOK
  BY DEF BooksOK
<1>2. /\ Unlocked(d) /\ day[d].status = "OPEN"
      /\ sale' = Marked(ToReconcile(d), TRUE)
      /\ day' = [day EXCEPT ![d].status = "CLOSED"]
      /\ UNCHANGED <<today, config, card, shift, req>>
  BY DEF CloseDay
<1>3. sale \in Seq(Sound) /\ \A j \in DOMAIN sale : sale[j] \in Sound
  BY <1>1, SaleTypes DEF SalesOK
<1>4. \A k \in DOMAIN sale : k \in ToReconcile(d) <=> /\ sale[k].day = d /\ sale[k].status = "COMPLETED"
                                                      /\ sale[k].entry.status = "POSTED"
  BY DEF ToReconcile, Completed, SalesOf
<1>5. /\ DOMAIN sale' = DOMAIN sale
      /\ \A k \in DOMAIN sale :
           sale'[k] = IF k \in ToReconcile(d) THEN WithMark(sale[k], TRUE) ELSE sale[k]
      /\ sale' = [k \in DOMAIN sale |-> sale'[k]]
  BY <1>2 DEF Marked
<1>6. ASSUME NEW k \in DOMAIN sale
      PROVE  /\ Kin(sale[k], sale'[k]) /\ Same(sale[k], sale'[k])
             /\ sale'[k].day = sale[k].day
             /\ sale'[k].entry.status = sale[k].entry.status /\ sale'[k].status = sale[k].status
             /\ sale'[k].entry.reconciled <=> sale[k].entry.reconciled \/ k \in ToReconcile(d)
             /\ ~sale'[k].entry.flipped => ~sale[k].entry.flipped \/ k \in ToReconcile(d)
  <2>1. CASE k \in ToReconcile(d)
    <3> DEFINE n == WithMark(sale[k], TRUE)
    <3>1. sale'[k] = n
      BY <1>5, <2>1
    <3>2. /\ Kin(sale[k], n) /\ Same(sale[k], n) /\ n.entry.reconciled
          /\ ~n.entry.flipped /\ n.entry.status = sale[k].entry.status /\ n.status = sale[k].status
      BY <1>3, <1>4, <2>1, MarkedKin
    <3> HIDE DEF n
    <3> QED
      BY <2>1, <3>1, <3>2 DEF Kin
  <2>2. CASE k \notin ToReconcile(d)
    BY <1>3, <1>5, <2>2, KinSelf DEF Kin
  <2> QED
    BY <2>1, <2>2
<1>7. sale' \in Seq(Sound) /\ AllKin(sale, sale')
  BY <1>3, <1>5, <1>6, SalesRewritten
<1>8. /\ DOMAIN day' = DOMAIN day /\ day' \in [DOMAIN day -> DayRow]
      /\ \A e \in DOMAIN day : day'[e].capacity = day[e].capacity /\ day'[e].next = day[e].next
      /\ \A e \in DOMAIN day : e # d => day'[e] = day[e]
      /\ day'[d].status = "CLOSED"
  BY <1>1, <1>2 DEF DaysOK, DayRow
<1>9. ASSUME NEW v \in Users, req'[v].pc = "selling"
      PROVE  /\ day'[req[v].row.day] = day[req[v].row.day]
             /\ \A j \in DOMAIN sale : sale[j].day = req[v].row.day => Same(sale[j], sale'[j])
  <2>1. req[v].row.day # d /\ req[v].row.day \in DOMAIN day
    BY <1>1, <1>2, <1>9, InHandElsewhere
  <2> QED
    BY <1>6, <1>8, <2>1
<1>10. DOMAIN req' = Users /\ \A v \in Users : req'[v] = req[v]
  BY <1>1, <1>2 DEF RequestsOK
<1>11. DaysOK' /\ ShiftsOK' /\ SalesOK' /\ RequestsOK'
  BY <1>1, <1>2, <1>7, <1>8, <1>9, <1>10, BooksKin
<1>12. ClosedIsReconciled'
  <2> SUFFICES ASSUME NEW k \in DOMAIN sale, ~sale'[k].entry.flipped
               PROVE  /\ sale'[k].entry.reconciled => day'[sale'[k].day].status = "CLOSED"
                      /\ sale'[k].status = "COMPLETED" /\ sale'[k].entry.status = "POSTED"
                           /\ day'[sale'[k].day].status = "CLOSED" => sale'[k].entry.reconciled
    BY <1>5 DEF ClosedIsReconciled
  <2>1. sale[k].day \in DOMAIN day
    BY <1>1 DEF SalesOK
  <2> QED
    BY <1>1, <1>4, <1>6, <1>8, <2>1 DEF ClosedIsReconciled
<1>13. ConfigOK'
  BY <1>2, CountedIs DEF CloseDay, May, ConfigOK, config
<1> QED
  BY <1>11, <1>12, <1>13 DEF BooksOK

LEMMA ReopenDayKeeps ==
  ASSUME ConfigOK, BooksOK, NEW u \in Users, NEW d \in DOMAIN day, ReopenDay(u, d)
  PROVE  ConfigOK' /\ BooksOK'
<1>1. DaysOK /\ ShiftsOK /\ SalesOK /\ ClosedIsReconciled /\ RequestsOK
  BY DEF BooksOK
<1> DEFINE ks == {k \in Completed(d) : sale[k].entry.status # "NONE"}
<1>2. /\ Unlocked(d) /\ day[d].status = "CLOSED"
      /\ sale' = Marked(ks, FALSE)
      /\ day' = [day EXCEPT ![d].status = "OPEN"]
      /\ UNCHANGED <<today, config, card, shift, req>>
  BY DEF ReopenDay
<1>3. sale \in Seq(Sound) /\ \A j \in DOMAIN sale : sale[j] \in Sound
  BY <1>1, SaleTypes DEF SalesOK
<1>4. \A k \in DOMAIN sale : k \in ks <=> /\ sale[k].day = d /\ sale[k].status = "COMPLETED"
                                          /\ sale[k].entry.status # "NONE"
  BY DEF Completed, SalesOf
<1> HIDE DEF ks
<1>5. /\ DOMAIN sale' = DOMAIN sale
      /\ \A k \in DOMAIN sale :
           sale'[k] = IF k \in ks THEN WithMark(sale[k], FALSE) ELSE sale[k]
      /\ sale' = [k \in DOMAIN sale |-> sale'[k]]
  BY <1>2 DEF Marked
<1>6. ASSUME NEW k \in DOMAIN sale
      PROVE  /\ Kin(sale[k], sale'[k]) /\ Same(sale[k], sale'[k])
             /\ sale'[k].day = sale[k].day
             /\ sale'[k].entry.status = sale[k].entry.status /\ sale'[k].status = sale[k].status
             /\ sale'[k].entry.reconciled <=> sale[k].entry.reconciled /\ k \notin ks
             /\ ~sale'[k].entry.flipped => ~sale[k].entry.flipped \/ k \in ks
  <2>1. CASE k \in ks
    <3> DEFINE n == WithMark(sale[k], FALSE)
    <3>1. sale'[k] = n
      BY <1>5, <2>1
    <3>2. /\ Kin(sale[k], n) /\ Same(sale[k], n) /\ ~n.entry.reconciled
          /\ ~n.entry.flipped /\ n.entry.status = sale[k].entry.status /\ n.status = sale[k].status
      BY <1>3, <1>4, <2>1, MarkedKin
    <3> HIDE DEF n
    <3> QED
      BY <2>1, <3>1, <3>2 DEF Kin
  <2>2. CASE k \notin ks
    BY <1>3, <1>5, <2>2, KinSelf DEF Kin
  <2> QED
    BY <2>1, <2>2
<1>7. sale' \in Seq(Sound) /\ AllKin(sale, sale')
  BY <1>3, <1>5, <1>6, SalesRewritten
<1>8. /\ DOMAIN day' = DOMAIN day /\ day' \in [DOMAIN day -> DayRow]
      /\ \A e \in DOMAIN day : day'[e].capacity = day[e].capacity /\ day'[e].next = day[e].next
      /\ \A e \in DOMAIN day : e # d => day'[e] = day[e]
      /\ day'[d].status = "OPEN"
  BY <1>1, <1>2 DEF DaysOK, DayRow
<1>9. ASSUME NEW v \in Users, req'[v].pc = "selling"
      PROVE  /\ day'[req[v].row.day] = day[req[v].row.day]
             /\ \A j \in DOMAIN sale : sale[j].day = req[v].row.day => Same(sale[j], sale'[j])
  <2>1. req[v].row.day # d /\ req[v].row.day \in DOMAIN day
    BY <1>1, <1>2, <1>9, InHandElsewhere
  <2> QED
    BY <1>6, <1>8, <2>1
<1>10. DOMAIN req' = Users /\ \A v \in Users : req'[v] = req[v]
  BY <1>1, <1>2 DEF RequestsOK
<1>11. DaysOK' /\ ShiftsOK' /\ SalesOK' /\ RequestsOK'
  BY <1>1, <1>2, <1>7, <1>8, <1>9, <1>10, BooksKin
<1>12. ClosedIsReconciled'
  <2> SUFFICES ASSUME NEW k \in DOMAIN sale, ~sale'[k].entry.flipped
               PROVE  /\ sale'[k].entry.reconciled => day'[sale'[k].day].status = "CLOSED"
                      /\ sale'[k].status = "COMPLETED" /\ sale'[k].entry.status = "POSTED"
                           /\ day'[sale'[k].day].status = "CLOSED" => sale'[k].entry.reconciled
    BY <1>5 DEF ClosedIsReconciled
  <2>1. sale[k].day \in DOMAIN day
    BY <1>1 DEF SalesOK
  <2>2. sale[k].entry.reconciled /\ ~sale[k].entry.flipped =>
          sale[k].status = "COMPLETED" /\ sale[k].entry.status # "NONE"
    BY <1>3, SoundIs
  <2> QED
    BY <1>1, <1>4, <1>6, <1>8, <2>1, <2>2 DEF ClosedIsReconciled
<1>13. ConfigOK'
  BY <1>2, CountedIs DEF ReopenDay, May, ConfigOK, config
<1> QED
  BY <1>11, <1>12, <1>13 DEF BooksOK

(* Sales touched on any day, but not what those in hand count.             *)
LEMMA TouchedKeeps ==
  ASSUME BooksOK, UNCHANGED <<day, shift>>,
         DOMAIN req' = Users, \A v \in Users : req'[v] = req[v] \/ req'[v] = Idle,
         sale' = [k \in DOMAIN sale |-> sale'[k]],
         \A k \in DOMAIN sale :
           /\ Kin(sale[k], sale'[k]) /\ Same(sale[k], sale'[k])
           /\ ~sale'[k].entry.flipped =>
                /\ ~sale[k].entry.flipped
                /\ sale'[k].entry.reconciled <=> sale[k].entry.reconciled
                /\ sale'[k].entry.status = "POSTED" => sale[k].entry.status = "POSTED"
  PROVE  BooksOK'
<1>1. DaysOK /\ ShiftsOK /\ SalesOK /\ ClosedIsReconciled /\ RequestsOK
  BY DEF BooksOK
<1>2. sale \in Seq(Sound) /\ DOMAIN sale' = DOMAIN sale
  BY <1>1 DEF SalesOK
<1>3. sale' \in Seq(Sound) /\ AllKin(sale, sale')
  BY <1>2, SalesRewritten
<1>4. DOMAIN day' = DOMAIN day /\ day' \in [DOMAIN day -> DayRow]
  BY <1>1 DEF DaysOK
<1>5. DaysOK' /\ ShiftsOK' /\ SalesOK' /\ RequestsOK'
  BY <1>1, <1>3, <1>4, BooksKin
<1>6. ClosedIsReconciled'
  BY <1>1, <1>2 DEF ClosedIsReconciled, Kin, Same
<1> QED
  BY <1>5, <1>6 DEF BooksOK

LEMMA DeleteRuleKeeps ==
  ASSUME BooksOK, NEW u \in Users, NEW r \in RuleIds, DeleteDiscountRule(u, r)
  PROVE  BooksOK'
<1>1. UNCHANGED <<day, shift, req>> /\ sale' = [k \in DOMAIN sale |-> Unpointed(sale[k], r)]
  BY DEF DeleteDiscountRule
<1>2. \A k \in DOMAIN sale : sale[k] \in Sound
  BY SaleTypes DEF BooksOK, SalesOK
<1>3. \A k \in DOMAIN sale : sale'[k] = Unpointed(sale[k], r)
  BY <1>1
<1>4. \A k \in DOMAIN sale :
           /\ Kin(sale[k], sale'[k]) /\ Same(sale[k], sale'[k])
           /\ sale'[k].entry = sale[k].entry
  BY <1>2, <1>3, UnpointedKin
<1>5. sale' = [k \in DOMAIN sale |-> sale'[k]]
  BY <1>1
<1>6. DOMAIN req' = Users /\ \A v \in Users : req'[v] = req[v]
  BY <1>1 DEF BooksOK, RequestsOK
<1> QED
  BY <1>1, <1>4, <1>5, <1>6, TouchedKeeps

(* The requests of the book.                                               *)
LEMMA BeginBookKeeps ==
  ASSUME ConfigOK, BooksOK, NEW u \in Users, NEW op \in BookOps, NEW k \in DOMAIN sale,
         BeginBook(u, op, k)
  PROVE  ConfigOK' /\ BooksOK'
<1> DEFINE r == [pc |-> "book", op |-> op, sale |-> k, seen |-> sale[k].entry]
<1>1. k \in Nat /\ sale[k].entry \in Entry
  BY SaleTypes, SoundIs DEF BooksOK, SalesOK
<1>2. /\ op # "toggle" => ~sale[k].entry.reconciled
      /\ req' = [req EXCEPT ![u] = r] /\ UNCHANGED <<day, shift, sale>>
  BY DEF BeginBook, Asks
<1>3. r \in BookAsked /\ r.sale \in DOMAIN sale
  BY <1>1, <1>2 DEF BookAsked
<1>4. ConfigOK'
  BY CountedIs DEF BeginBook, ConfigOK, config
<1> HIDE DEF r
<1>5. BooksOK'
  BY <1>2, <1>3, AskedIs, BooksAsked DEF Answerable
<1> QED
  BY <1>4, <1>5

LEMMA RewritesKeeps ==
  ASSUME ConfigOK, BooksOK, NEW u \in Users, NEW k \in DOMAIN sale,
         NEW e, Corrected(sale[k], e), Rewrites(u, k, e)
  PROVE  ConfigOK' /\ BooksOK'
<1> DEFINE n == [sale[k] EXCEPT !.entry = e]
<1>1. /\ sale' = [sale EXCEPT ![k] = n]
      /\ req' = [req EXCEPT ![u] = Idle]
      /\ UNCHANGED <<asked, today, config, card, day, shift>>
  BY DEF Rewrites, Done
<1>2. \A j \in DOMAIN sale : sale[j] \in Sound
  BY SaleTypes DEF BooksOK, SalesOK
<1>3. Kin(sale[k], n) /\ Same(sale[k], n) /\ n.entry = e
  BY <1>2, WrittenKin DEF Corrected
<1> HIDE DEF n
<1>4. \A j \in DOMAIN sale : sale'[j] = IF j = k THEN n ELSE sale[j]
  BY <1>1
<1>5. \A j \in DOMAIN sale :
           /\ Kin(sale[j], sale'[j]) /\ Same(sale[j], sale'[j])
           /\ ~sale'[j].entry.flipped =>
                /\ ~sale[j].entry.flipped
                /\ sale'[j].entry.reconciled <=> sale[j].entry.reconciled
                /\ sale'[j].entry.status = "POSTED" => sale[j].entry.status = "POSTED"
  <2> TAKE j \in DOMAIN sale
  <2>1. CASE j = k
    BY <1>3, <1>4, <2>1 DEF Corrected
  <2>2. CASE j # k
    BY <1>2, <1>4, <2>2, KinSelf
  <2> QED
    BY <2>1, <2>2
<1>6. sale' = [j \in DOMAIN sale |-> sale'[j]]
  BY <1>1
<1>7. DOMAIN req' = Users /\ \A v \in Users : req'[v] = req[v] \/ req'[v] = Idle
  BY <1>1 DEF BooksOK, RequestsOK
<1>8. BooksOK'
  BY <1>1, <1>5, <1>6, <1>7, TouchedKeeps
<1> QED
  BY <1>1, <1>8 DEF ConfigOK, config

(* A write of the book is what it may write, by a request that read it     *)
(* before it was reconciled or that toggles the mark.                      *)
LEMMA BookWrites ==
  ASSUME BooksOK, NEW u \in Users, NEW k \in DOMAIN sale,
         \/ \E x \in Values \ {0} : EditEntry(u, k, x)
         \/ DeleteEntry(u, k)
         \/ ToggleReconciliation(u, k)
  PROVE  \E e : /\ Corrected(sale[k], e) /\ Rewrites(u, k, e)
                /\ req[u].pc = "book" /\ req[u].sale = k
                /\ req[u].op = "toggle" \/ ~req[u].seen.reconciled
<1>1. sale[k] \in Sound
  BY SaleTypes DEF BooksOK, SalesOK
<1>2. req[u].pc = "book" => req[u] \in BookAsked
  BY AnsweredBy DEF BooksOK
<1>3. ASSUME NEW x \in Values \ {0}, EditEntry(u, k, x)
      PROVE  /\ Corrected(sale[k], Edited(sale[k].entry, x))
             /\ Rewrites(u, k, Edited(sale[k].entry, x)) /\ Corrects(u, "edit", k)
  <2>1. x \in Nat
    BY ValueIs
  <2> QED
    BY <1>1, <1>3, <2>1, EditedIs DEF EditEntry
<1>4. ASSUME DeleteEntry(u, k)
      PROVE  /\ Corrected(sale[k], Deleted(sale[k].entry))
             /\ Rewrites(u, k, Deleted(sale[k].entry)) /\ Corrects(u, "delete", k)
  BY <1>1, <1>4, DeletedIs DEF DeleteEntry
<1>5. ASSUME ToggleReconciliation(u, k)
      PROVE  /\ Corrected(sale[k], Toggled(sale[k].entry, req[u].seen))
             /\ Rewrites(u, k, Toggled(sale[k].entry, req[u].seen)) /\ Corrects(u, "toggle", k)
  <2>1. req[u].seen \in Entry
    BY <1>2, <1>5 DEF ToggleReconciliation, Corrects, BookAsked
  <2> QED
    BY <1>1, <1>5, <2>1, ToggledIs DEF ToggleReconciliation
<1>6. \A op \in {"edit", "delete", "toggle"} : Corrects(u, op, k) =>
        /\ req[u].pc = "book" /\ req[u].sale = k
        /\ req[u].op = "toggle" \/ ~req[u].seen.reconciled
  BY <1>2 DEF Corrects, BookAsked
<1> QED
  BY <1>3, <1>4, <1>5, <1>6

(* A day that is found or opened.                                          *)
LEMMA DayEnsured ==
  ASSUME ConfigOK, BooksOK, NEW s \in Sessions, day' = Ensured(<<today, s>>)
  PROVE  /\ DOMAIN day' = DOMAIN day \union {<<today, s>>}
         /\ \A d \in DOMAIN day : day'[d] = day[d]
         /\ DaysOK'
         /\ sale' = sale => SalesOK' /\ ClosedIsReconciled'
         /\ \A r : Answerable(r, sale, day) => Answerable(r, sale, day')
<1> DEFINE e == <<today, s>>
           new == [status |-> "OPEN", capacity |-> session[e[2]].capacity, next |-> 1]
<1>1. DaysOK /\ SalesOK /\ ClosedIsReconciled /\ RequestsOK
  BY DEF BooksOK
<1>2. e \in Days
  BY DEF ConfigOK, Days
<1>3. new \in DayRow
  BY DEF ConfigOK, SessionRow, DayRow
<1>4. /\ DOMAIN day' = DOMAIN day \union {e}
      /\ \A d \in DOMAIN day : day'[d] = day[d]
      /\ e \notin DOMAIN day => day'[e] = new
      /\ day' = [d \in DOMAIN day' |-> day'[d]]
  BY DEF Ensured
<1> HIDE DEF e, new
<1>5. DaysOK'
  BY <1>1, <1>2, <1>3, <1>4 DEF DaysOK
<1>6. ASSUME sale' = sale PROVE SalesOK' /\ ClosedIsReconciled'
  <2>1. \A k \in DOMAIN sale : sale[k].day \in DOMAIN day
    BY <1>1 DEF SalesOK
  <2>2. ASSUME NEW d \in DOMAIN day', day'[d].capacity # NoCap
        PROVE  Seats(sale, d) <= day'[d].capacity
    <3>1. CASE d \in DOMAIN day
      BY <1>1, <1>4, <2>2, <3>1 DEF SalesOK
    <3>2. CASE d \notin DOMAIN day
      <4>1. Seats(sale, d) = 0
        BY <1>1, <2>1, <3>2, NoSeats DEF SalesOK
      <4>2. day'[d].capacity \in Nat
        BY <1>5, <2>2 DEF DaysOK, DayRow, Capacity, NoCap
      <4> QED
        BY <4>1, <4>2
    <3> QED
      BY <3>1, <3>2
  <2>3. SalesOK'
    BY <1>1, <1>4, <1>6, <2>1, <2>2 DEF SalesOK
  <2>4. ClosedIsReconciled'
    BY <1>1, <1>4, <1>6, <2>1 DEF ClosedIsReconciled
  <2> QED
    BY <2>3, <2>4
<1>7. \A r : Answerable(r, sale, day) => Answerable(r, sale, day')
  BY <1>4 DEF Answerable, Fits
<1> QED
  BY <1>4, <1>5, <1>6, <1>7 DEF e

(* Who asks, and the drawers, change; the sales do not.                    *)
LEMMA DayEnsuredKeeps ==
  ASSUME ConfigOK, BooksOK, NEW s \in Sessions, day' = Ensured(<<today, s>>), sale' = sale,
         shift' \in Seq(ShiftRow), \A k \in DOMAIN shift' : shift'[k].day \in DOMAIN day',
         DOMAIN req' = Users,
         \A v \in Users : \/ req'[v] = req[v]
                          \/ req'[v].pc # "selling" /\ Answerable(req'[v], sale, day')
  PROVE  BooksOK'
<1>1. DaysOK' /\ SalesOK' /\ ClosedIsReconciled'
      /\ \A r : Answerable(r, sale, day) => Answerable(r, sale, day')
  BY DayEnsured
<1>2. ShiftsOK'
  BY DEF ShiftsOK
<1>3. RequestsOK
  BY DEF BooksOK
<1>4. \A v \in Users : Answerable(req'[v], sale', day')
  BY <1>1, <1>3 DEF RequestsOK
<1>5. \A u, v \in Users :
        req'[u].pc = "selling" /\ req'[v].pc = "selling" /\ req'[u].row.day = req'[v].row.day => u = v
  BY <1>3 DEF RequestsOK
<1>6. RequestsOK'
  BY <1>4, <1>5 DEF RequestsOK
<1> QED
  BY <1>1, <1>2, <1>6 DEF BooksOK

LEMMA OpenShiftKeeps ==
  ASSUME ConfigOK, BooksOK, NEW u \in Users, NEW who \in Users, OpenShift(u, who)
  PROVE  ConfigOK' /\ BooksOK'
<1>1. PICK s \in Sessions :
        /\ day' = Ensured(<<today, s>>)
        /\ shift' = Append(shift, [day |-> <<today, s>>, who |-> who, status |-> "OPEN",
                                   expected |-> [w \in Wallets |-> 0]])
  BY DEF OpenShift
<1> DEFINE drawer == [day |-> <<today, s>>, who |-> who, status |-> "OPEN",
                      expected |-> [w \in Wallets |-> 0]]
<1>2. drawer \in ShiftRow /\ drawer.day = <<today, s>> /\ shift' = Append(shift, drawer)
  BY <1>1 DEF ConfigOK, Days, ShiftRow
<1>3. shift \in Seq(ShiftRow) /\ \A k \in DOMAIN shift : shift[k].day \in DOMAIN day
  BY DEF BooksOK, ShiftsOK
<1>4. DOMAIN day' = DOMAIN day \union {<<today, s>>}
  BY <1>1, DayEnsured
<1> HIDE DEF drawer
<1>5. /\ shift' \in Seq(ShiftRow)
      /\ Len(shift') = Len(shift) + 1
      /\ \A k \in 1 .. Len(shift) : shift'[k] = shift[k]
      /\ shift'[Len(shift) + 1] = drawer
  BY <1>2, <1>3, AppendProperties
<1>6. /\ DOMAIN shift = 1 .. Len(shift) /\ Len(shift) \in Nat
      /\ DOMAIN shift' = 1 .. Len(shift) + 1
  BY <1>3, <1>5, LenProperties
<1>7. \A k \in DOMAIN shift' : shift'[k].day \in DOMAIN day'
  <2> TAKE k \in DOMAIN shift'
  <2>1. CASE k = Len(shift) + 1
    BY <1>2, <1>4, <1>5, <2>1
  <2>2. CASE k # Len(shift) + 1
    <3>1. k \in DOMAIN shift
      BY <1>6, <2>2
    <3> QED
      BY <1>3, <1>4, <1>5, <1>6, <3>1
  <2> QED
    BY <2>1, <2>2
<1>8. UNCHANGED <<today, config, card, sale, req>> /\ Counted(1)
  BY DEF OpenShift, May
<1>9. DOMAIN req' = Users /\ (\A v \in Users : req'[v] = req[v]) /\ sale' = sale
  BY <1>8 DEF BooksOK, RequestsOK
<1>10. BooksOK'
  BY <1>1, <1>5, <1>7, <1>9, DayEnsuredKeeps
<1>11. ConfigOK'
  BY <1>8, CountedIs DEF ConfigOK, config
<1> QED
  BY <1>10, <1>11

(* The takings of any sales are a sum of money.                            *)
LEMMA TakenIs ==
  ASSUME sale \in Seq(Sound), NEW ks \in SUBSET DOMAIN sale
  PROVE  TakenIn(ks) \in Nat
<1> DEFINE f == [k \in ks |-> sale[k].net]
<1>1. IsFiniteSet(DOMAIN sale) /\ \A k \in DOMAIN sale : sale[k].net \in Nat
  BY SaleTypes, SoundIs
<1>2. IsFiniteSet(ks) /\ \A k \in ks : f[k] \in Nat
  BY <1>1, FS_Subset
<1>3. TakenIn(ks) = Over(f, ks)
  BY SumOverIsOver DEF TakenIn
<1> HIDE DEF f
<1> QED
  BY <1>2, <1>3, SumNat

LEMMA CloseShiftKeeps ==
  ASSUME ConfigOK, BooksOK, NEW u \in Users, NEW k \in DOMAIN shift, CloseShift(u, k)
  PROVE  ConfigOK' /\ BooksOK'
<1> DEFINE mine == {i \in DOMAIN sale : sale[i].shift = k /\ sale[i].status = "COMPLETED"}
           counted == [w \in Wallets |-> Taken(mine, w)]
<1>1. shift' = [shift EXCEPT ![k].status = "CLOSED", ![k].expected = counted]
  BY DEF CloseShift
<1>2. UNCHANGED <<today, config, card, day, sale, req>> /\ Counted(1)
  BY DEF CloseShift, May
<1>3. counted \in [Wallets -> Nat]
  <2>1. sale \in Seq(Sound)
    BY DEF BooksOK, SalesOK
  <2>2. \A w \in Wallets : Taken(mine, w) \in Nat
    BY <2>1, TakenIs DEF Taken
  <2> QED
    BY <2>2
<1>4. shift \in Seq(ShiftRow) /\ \A i \in DOMAIN shift : shift[i].day \in DOMAIN day
  BY DEF BooksOK, ShiftsOK
<1>5. Len(shift) \in Nat /\ DOMAIN shift = 1 .. Len(shift)
      /\ \A i \in DOMAIN shift : shift[i] \in ShiftRow
  <2>1. Len(shift) \in Nat /\ DOMAIN shift = 1 .. Len(shift)
    BY <1>4, LenProperties
  <2> QED
    BY <1>4, <2>1, ElementOfSeq
<1> HIDE DEF mine, counted
<1>6. /\ shift' = [i \in 1 .. Len(shift) |-> shift'[i]]
      /\ \A i \in DOMAIN shift : shift'[i] \in ShiftRow /\ shift'[i].day = shift[i].day
  BY <1>1, <1>3, <1>5 DEF ShiftRow
<1>7. shift' \in Seq(ShiftRow) /\ DOMAIN shift' = DOMAIN shift
  <2>1. shift' \in [1 .. Len(shift) -> ShiftRow]
    BY <1>5, <1>6
  <2> QED
    BY <1>5, <1>6, <2>1, SeqDef
<1>8. ShiftsOK'
  BY <1>2, <1>4, <1>6, <1>7 DEF ShiftsOK
<1>9. BooksOK'
  BY <1>2, <1>8 DEF BooksOK, DaysOK, SalesOK, ClosedIsReconciled, RequestsOK
<1> QED
  BY <1>2, <1>9, CountedIs DEF ConfigOK, config

-----------------------------------------------------------------------------
(* A sale, from what it reads before its transaction to its commit.        *)

LEMMA TypesRead ==
  ASSUME ConfigOK, NEW s \in Sessions
  PROVE  TypeSnapshots(s) \in SUBSET Prices
<1>1. \A t \in Types : type[t] \in TypeRow /\ TypeOf[t].class \in Classes
  BY DeskAssumption DEF ConfigOK
<1> QED
  BY <1>1 DEF TypeSnapshots, TypesOf, Prices, TypeRow

(* What is read of an offer is the offer of the book, with its value.      *)
LEMMA OffersRead ==
  ASSUME ConfigOK, NEW s \in Sessions
  PROVE  RuleSnapshots(s) \in Snapshots
<1> DEFINE O == Offered(s)
           Read(r) == [RuleBook[r].rule EXCEPT !.value = offer[r].value]
           f == [r \in O |-> Read(r)]
           R == RuleSnapshots(s)
<1>1. O \in SUBSET RuleIds /\ IsFiniteSet(O)
  BY DeskAssumption, FS_Subset DEF Offered
<1>2. ASSUME NEW r \in RuleIds
      PROVE  /\ Read(r) \in Rule(Types, AnyTier)
             /\ Read(r).id = r /\ Read(r).type = RuleBook[r].rule.type
             /\ Read(r).tier = RuleBook[r].rule.tier
  <2>1. RuleBook[r].rule \in Rule(Types, AnyTier) /\ RuleBook[r].rule.id = r
    BY DeskAssumption DEF AnyTier
  <2>2. offer[r].value \in Nat
    BY DEF ConfigOK, OfferRow
  <2> QED
    BY <2>1, <2>2 DEF Rule
<1>3. R = {Read(r) : r \in O}
  BY DEF RuleSnapshots
<1> HIDE DEF Read, O, R
<1>4. f \in Surjection(O, R)
  BY <1>3 DEF Surjection
<1>5. IsFiniteSet(R)
  BY <1>1, <1>4, FS_Surjection
<1>6. R \in SUBSET Rule(Types, AnyTier)
  BY <1>1, <1>2, <1>3
<1>7. \A r, q \in R : r.id = q.id => r = q
  BY <1>1, <1>2, <1>3
<1>8. R \in Book
  BY <1>5, <1>6, <1>7 DEF Book
<1>9. \A r \in R : /\ r.id \in RuleIds /\ r.type = RuleBook[r.id].rule.type
                   /\ r.tier = RuleBook[r.id].rule.tier
  BY <1>1, <1>2, <1>3
<1> QED
  BY <1>8, <1>9 DEF Snapshots, R

LEMMA BeginSaleKeeps ==
  ASSUME ConfigOK, BooksOK, NEW u \in Users, NEW order \in Orders, BeginSale(u, order)
  PROVE  ConfigOK' /\ BooksOK'
<1>1. PICK s \in Sessions :
        /\ day' = Ensured(<<today, s>>)
        /\ Asks(u, [pc |-> "sale", day |-> <<today, s>>, order |-> order,
                    types |-> TypeSnapshots(s), rules |-> RuleSnapshots(s)])
  BY DEF BeginSale
<1> DEFINE r == [pc |-> "sale", day |-> <<today, s>>, order |-> order,
                 types |-> TypeSnapshots(s), rules |-> RuleSnapshots(s)]
<1>2. UNCHANGED <<today, config, card, shift, sale>> /\ Counted(1)
  BY DEF BeginSale, May
<1>3. DOMAIN day' = DOMAIN day \union {<<today, s>>} /\ \A d \in DOMAIN day : day'[d] = day[d]
  BY <1>1, DayEnsured
<1>4. r \in SaleAsked /\ r.day \in DOMAIN day' /\ r.pc = "sale"
  <2>1. <<today, s>> \in Days
    BY DEF ConfigOK, Days
  <2> QED
    BY <1>3, <2>1, TypesRead, OffersRead DEF SaleAsked
<1>5. req' = [req EXCEPT ![u] = r]
  BY <1>1 DEF Asks
<1> HIDE DEF r
<1>6. /\ DOMAIN req' = Users
      /\ \A v \in Users : \/ req'[v] = req[v]
                          \/ req'[v].pc # "selling" /\ Answerable(req'[v], sale, day')
  BY <1>4, <1>5 DEF BooksOK, RequestsOK, Answerable
<1>7. sale' = sale /\ shift' \in Seq(ShiftRow) /\ \A k \in DOMAIN shift' : shift'[k].day \in DOMAIN day'
  BY <1>2, <1>3 DEF BooksOK, ShiftsOK
<1>8. BooksOK'
  BY <1>1, <1>6, <1>7, DayEnsuredKeeps
<1> QED
  BY <1>2, <1>8, CountedIs DEF ConfigOK, config

(* What resolveMembership counts is at least what the card redeemed on any *)
(* one day of the date.                                                    *)
LEMMA UsedIs ==
  ASSUME sale \in Seq(Sound), NEW c, NEW d
  PROVE  /\ UsedOn(c, d[1]) \in Nat
         /\ Uses(sale, d, c) <= UsedOn(c, d[1])
<1> DEFINE S == {k \in DOMAIN sale : sale[k].card = c /\ sale[k].day[1] = d[1]}
           T == OfCard(d, c)
           f == [k \in S |-> sale[k].redeemed]
           g == [k \in S |-> IF k \in T THEN sale[k].redeemed ELSE 0]
           h == [k \in T |-> sale[k].redeemed]
<1>1. IsFiniteSet(DOMAIN sale) /\ \A k \in DOMAIN sale : sale[k].redeemed \in Nat
  BY SaleTypes, SoundIs
<1>2. IsFiniteSet(S) /\ T \in SUBSET S
  BY <1>1, FS_Subset DEF OfCard, SalesOf
<1>3. \A k \in S : /\ f[k] \in Nat /\ g[k] \in Nat /\ g[k] <= f[k]
                   /\ k \notin T => g[k] = 0
                   /\ k \in T => h[k] = g[k]
  BY <1>1
<1>4. UsedOn(c, d[1]) = Over(f, S) /\ Redeemed(T) = Over(h, T)
  BY SumOverIsOver DEF UsedOn, Redeemed
<1>5. Redeemed(T) = Uses(sale, d, c)
  BY SeatsAre
<1> HIDE DEF S, T, f, g, h
<1>6. Summable(f, S) /\ Summable(g, S)
  BY <1>2, <1>3 DEF Summable
<1>7. Over(g, S) <= Over(f, S)
  BY <1>3, <1>6, SumAtMost
<1>8. Over(g, S) = Over(g, T)
  BY <1>2, <1>3, <1>6, SumZeros
<1>9. Over(h, T) = Over(g, T)
  <2>1. Summable(g, T)
    BY <1>2, <1>6, PartSummable
  <2> QED
    BY <1>2, <1>3, <2>1, SumSame
<1>10. Over(f, S) \in Nat
  BY <1>2, <1>3, SumNat
<1> QED
  BY <1>4, <1>5, <1>7, <1>8, <1>9, <1>10

LEMMA MembershipIs ==
  ASSUME ConfigOK, sale \in Seq(Sound), NEW o, NEW d,
         NEW c, c = Membership(o, d[1])
  PROVE  /\ c \in CardSnapshot
         /\ c.id # NoCard => c.used = UsedOn(c.id, d[1])
<1>1. CASE Valid(o)
  <2>1. o \in Cards /\ card[o].tier \in Tiers
    BY <1>1 DEF Valid, ConfigOK, CardRow
  <2>2. TierBook[card[o].tier].most \in Nat \union {Unlimited}
    BY <2>1, DeskAssumption
  <2>3. UsedOn(o, d[1]) \in Nat
    BY UsedIs
  <2>4. c = [id |-> o, tier |-> card[o].tier, most |-> TierBook[card[o].tier].most,
             used |-> UsedOn(o, d[1])]
    BY <1>1 DEF Membership
  <2> QED
    BY <2>1, <2>2, <2>3, <2>4 DEF CardSnapshot, AnyTier
<1>2. CASE ~Valid(o)
  <2>1. c = [id |-> NoCard, tier |-> NoTier, most |-> Unlimited, used |-> 0]
    BY <1>2 DEF Membership
  <2> QED
    BY <2>1 DEF CardSnapshot, AnyTier
<1> QED
  BY <1>1, <1>2

LEMMA OneOfferRead ==
  ASSUME OneOffer, NEW rules \in Snapshots, NEW c
  PROVE  OneTierOffer(rules, c)
<1> SUFFICES ASSUME NEW r \in TierOffers(rules, c), NEW p \in TierOffers(rules, c)
             PROVE  r = p
  BY DEF OneTierOffer
<1>1. /\ r \in rules /\ r.type = "MEMBERSHIP" /\ r.tier = c.tier
      /\ p \in rules /\ p.type = "MEMBERSHIP" /\ p.tier = c.tier
  BY DEF TierOffers
<1>2. \A x \in rules : /\ x.id \in RuleIds /\ x.type = RuleBook[x.id].rule.type
                       /\ x.tier = RuleBook[x.id].rule.tier
  BY DEF Snapshots
<1>3. r.id = p.id
  BY <1>1, <1>2 DEF OneOffer
<1> QED
  BY <1>1, <1>3 DEF Snapshots, Book

(* The row of a sale, priced under the lock.                               *)
Made(u, r, k, c, row) ==
  /\ u \in Users /\ r \in SaleAsked /\ r.day \in DOMAIN day /\ Priced(r)
  /\ c \in CardSnapshot /\ k \in Nat /\ row = Row(u, r, k, c)

LEMMA RowIs ==
  ASSUME DaysOK, NEW u, NEW r, NEW k, NEW c, NEW row, Made(u, r, k, c, row)
  PROVE  /\ row \in Sound /\ row.day = r.day /\ row.card = c.id
         /\ row.first = day[r.day].next
         /\ row.status = "COMPLETED" /\ ~row.entry.reconciled
         /\ Len(row.tickets) = WantedInAll(r.order.lines)
         /\ \A t : Cardinality(HeadsOf(row.tickets, t)) = Wanted(r.order.lines, t)
         /\ c.id = NoCard => row.redeemed = 0
         /\ OneTierOffer(r.rules, c) /\ c.most # Unlimited => row.redeemed <= Left(c)
<1> USE DEF Made
<1> DEFINE q == QuoteSale(r.types, r.order.lines, r.rules, c, r.order.manual)
<1>1. /\ r.types \in SUBSET Prices /\ r.order.lines \in Lines /\ r.rules \in Book
      /\ r.day \in Days /\ r.order.wallet \in Wallets
  <2>1. r.order \in Orders /\ r.types \in SUBSET Prices /\ r.rules \in Snapshots /\ r.day \in Days
    BY DEF SaleAsked
  <2>2. r.order \in [lines : Seq([type : Types, quantity : Nat]), wallet : Wallets,
                     card : Cards \union {NoCard}, manual : SUBSET RuleIds]
    BY <2>1, DeskAssumption
  <2> QED
    BY <2>1, <2>2 DEF Lines, Snapshots
<1>2. \A l \in DOMAIN r.order.lines : \E t \in r.types : t.id = r.order.lines[l].type
  BY DEF Priced
<1>3. /\ q.heads \in Heads /\ Len(q.heads) = WantedInAll(r.order.lines)
      /\ \A t : Cardinality(HeadsOf(q.heads, t)) = Wanted(r.order.lines, t)
      /\ q.net = Total(q.heads) /\ q.net \in Nat /\ q.members \in Nat
      /\ c.id = "none" => q.members = 0
      /\ OneTierOffer(r.rules, c) /\ c.most # Unlimited => q.members <= Left(c)
  <2> DEFINE types == r.types
             lines == r.order.lines
             rules == r.rules
             manual == r.order.manual
  <2>1. /\ types \in SUBSET Prices /\ lines \in Lines /\ rules \in Book
        /\ \A l \in DOMAIN lines : \E t \in types : t.id = lines[l].type
        /\ q = QuoteSale(types, lines, rules, c, manual)
    BY <1>1, <1>2
  <2>2. Quoted(types, lines, rules, c, manual, q)
    BY <2>1 DEF Quoted
  <2> HIDE DEF types, lines, rules, manual, q
  <2>3. /\ q.heads \in Heads /\ Len(q.heads) = WantedInAll(lines)
        /\ \A t : Cardinality(HeadsOf(q.heads, t)) = Wanted(lines, t)
        /\ q.net = Total(q.heads) /\ q.net \in Nat /\ q.members \in Nat
        /\ c.id = "none" => q.members = 0
        /\ OneTierOffer(rules, c) /\ c.most # Unlimited => q.members <= Left(c)
    BY <2>2, QuoteSound
  <2> QED
    BY <2>3 DEF lines, rules
<1>4. row = [day |-> r.day, seller |-> u, shift |-> k, wallet |-> r.order.wallet, card |-> c.id,
             tickets |-> q.heads, first |-> day[r.day].next, net |-> q.net, redeemed |-> q.members,
             status |-> "COMPLETED", entry |-> EntryFor(q.net)]
  BY DEF Row
<1> HIDE DEF q
<1>5. day[r.day].next \in Nat /\ c.id \in Cards \union {NoCard}
  BY DEF DaysOK, DayRow, CardSnapshot
<1>6. /\ EntryFor(q.net) \in Entry /\ EntryFor(q.net).amount = q.net
      /\ EntryFor(q.net).reconciled = FALSE /\ EntryFor(q.net).flipped = FALSE
  BY <1>3 DEF EntryFor, Entry
<1>7. row \in SaleRow
  BY <1>1, <1>3, <1>4, <1>5, <1>6 DEF SaleRow
<1>8. row \in Sound
  BY <1>3, <1>4, <1>6, <1>7 DEF Sound, Carries
<1> QED
  BY <1>3, <1>4, <1>6, <1>8 DEF NoCard

LEMMA FoundIs ==
  ASSUME ShiftsOK, NEW u
  PROVE  FoundShift(u) \subseteq Nat
<1>1. DOMAIN shift \subseteq Nat
  <2>1. DOMAIN shift = 1 .. Len(shift) /\ Len(shift) \in Nat
    BY LenProperties DEF ShiftsOK
  <2> QED
    BY <2>1
<1> QED
  BY <1>1 DEF FoundShift, OpenShifts, NoShift

(* There is room for it, and an allowance, as long as no sale of the day   *)
(* changes.                                                                *)
LEMMA LockedFits ==
  ASSUME ConfigOK, BooksOK, NEW u, NEW r, NEW k, NEW c, NEW row, Made(u, r, k, c, row),
         c = Membership(r.order.card, r.day[1]),
         day[r.day].status = "OPEN", Room(r.day, r.order.lines, r.types)
  PROVE  LET held == [pc |-> "selling", row |-> row, types |-> r.types, allowance |-> c.most]
         IN  held \in SaleInHand /\ held.row.day = r.day /\ Fits(held, sale, day)
<1> DEFINE held == [pc |-> "selling", row |-> row, types |-> r.types, allowance |-> c.most]
           d == r.day
           lines == r.order.lines
<1>1. DaysOK /\ sale \in Seq(Sound)
  BY DEF BooksOK, SalesOK
<1>2. /\ c \in CardSnapshot
      /\ c.id # NoCard => c.used = UsedOn(c.id, d[1])
  BY <1>1, MembershipIs
<1>3. /\ row \in Sound /\ row.day = d /\ row.card = c.id
      /\ row.first = day[d].next
      /\ row.status = "COMPLETED" /\ ~row.entry.reconciled
      /\ Len(row.tickets) = WantedInAll(lines)
      /\ \A t : Cardinality(HeadsOf(row.tickets, t)) = Wanted(lines, t)
      /\ c.id = NoCard => row.redeemed = 0
      /\ OneTierOffer(r.rules, c) /\ c.most # Unlimited => row.redeemed <= Left(c)
  BY <1>1, RowIs
<1>4. r.types \in SUBSET Prices /\ r.rules \in Snapshots
  BY DEF SaleAsked, Made
<1>5. c.most \in Nat \union {Unlimited}
  BY <1>2 DEF CardSnapshot
<1>6. /\ Issued(d) = Seats(sale, d)
      /\ \A t : IssuedOf(d, t) = SeatsOf(sale, d, t)
  BY <1>1, SeatsAre
<1>7. day[d].capacity # NoCap => Seats(sale, d) + Len(row.tickets) <= day[d].capacity
  BY <1>3, <1>6 DEF Room
<1>8. \A t \in r.types :
        LET wanted == Cardinality(HeadsOf(row.tickets, t.id))
        IN  t.capacity # NoCap /\ wanted > 0 => SeatsOf(sale, d, t.id) + wanted <= t.capacity
  BY <1>3, <1>6 DEF Room
<1>9. ASSUME OneOffer, row.redeemed > 0, c.most # Unlimited
      PROVE  Uses(sale, d, row.card) + row.redeemed <= c.most
  <2>1. OneTierOffer(r.rules, c)
    BY <1>4, <1>9, OneOfferRead
  <2>2. c.id # NoCard /\ row.redeemed \in Nat
    BY <1>3, <1>9, SoundIs
  <2>3. UsedOn(c.id, d[1]) \in Nat /\ Uses(sale, d, c.id) <= UsedOn(c.id, d[1])
    BY <1>1, UsedIs
  <2>4. Uses(sale, d, c.id) \in Nat
    BY <1>1, CountsAre
  <2>5. c.most \in Nat
    BY <1>5, <1>9
  <2>6. row.redeemed <= Left(c)
    BY <1>3, <1>9, <2>1
  <2> QED
    BY <1>2, <1>3, <1>9, <2>2, <2>3, <2>4, <2>5, <2>6 DEF Left
<1>10. held.row = row /\ held.types = r.types /\ held.allowance = c.most
  OBVIOUS
<1>11. held \in SaleInHand
  BY <1>3, <1>4, <1>5 DEF SaleInHand
<1>12. d \in DOMAIN day /\ day[d].status = "OPEN"
  BY DEF Made
<1> HIDE DEF held, d
<1>13. Fits(held, sale, day)
  BY <1>3, <1>7, <1>8, <1>9, <1>10, <1>12 DEF Fits
<1> QED
  BY <1>3, <1>10, <1>11, <1>13 DEF d, held

LEMMA LockSaleKeeps ==
  ASSUME ConfigOK, BooksOK, NEW u \in Users, LockSale(u)
  PROVE  ConfigOK' /\ BooksOK'
<1> DEFINE r == req[u]
           c == Membership(r.order.card, r.day[1])
<1>1. DaysOK /\ ShiftsOK /\ SalesOK /\ ClosedIsReconciled /\ RequestsOK
  BY DEF BooksOK
<1>2. /\ Unlocked(r.day) /\ day[r.day].status = "OPEN"
      /\ Priced(r) /\ Room(r.day, r.order.lines, r.types)
      /\ UNCHANGED <<asked, today, config, card, day, shift, sale>>
  BY DEF LockSale, StillOpen
<1>3. r \in SaleAsked /\ r.day \in DOMAIN day
  BY <1>1, AnsweredBy DEF LockSale
<1>4. PICK k \in FoundShift(u) :
        Asks(u, [pc |-> "selling", row |-> Row(u, r, k, c), types |-> r.types,
                 allowance |-> c.most])
  BY DEF LockSale
<1>5. k \in Nat
  BY <1>1, FoundIs
<1> DEFINE held == [pc |-> "selling", row |-> Row(u, r, k, c), types |-> r.types,
                    allowance |-> c.most]
<1>6. held \in SaleInHand /\ held.row.day = r.day /\ Fits(held, sale, day)
  <2> DEFINE row == Row(u, r, k, c)
  <2>1. c \in CardSnapshot
    BY <1>1, MembershipIs DEF SalesOK
  <2>2. Made(u, r, k, c, row)
    BY <1>2, <1>3, <1>5, <2>1 DEF Made
  <2>3. c = Membership(r.order.card, r.day[1])
    OBVIOUS
  <2> HIDE DEF row, r, c
  <2>4. LET h == [pc |-> "selling", row |-> row, types |-> r.types, allowance |-> c.most]
        IN  h \in SaleInHand /\ h.row.day = r.day /\ Fits(h, sale, day)
    BY <1>2, <2>2, <2>3, LockedFits
  <2> QED
    BY <2>4 DEF row
<1>7. req' = [req EXCEPT ![u] = held]
  BY <1>4 DEF Asks
<1> HIDE DEF held, r, c
<1>8. DOMAIN req' = Users /\ \A v \in Users : req'[v] = IF v = u THEN held ELSE req[v]
  BY <1>1, <1>7 DEF RequestsOK
<1>9. \A v \in Users : Answerable(req'[v], sale, day)
  BY <1>1, <1>6, <1>8 DEF RequestsOK, Answerable
<1>10. \A v \in Users : v # u /\ req'[v].pc = "selling" => req'[v].row.day # r.day
  BY <1>2, <1>8 DEF Unlocked
<1>11. RequestsOK'
  BY <1>1, <1>2, <1>6, <1>8, <1>9, <1>10 DEF RequestsOK
<1>12. BooksOK'
  BY <1>1, <1>2, <1>11 DEF BooksOK, DaysOK, ShiftsOK, SalesOK, ClosedIsReconciled
<1> QED
  BY <1>2, <1>12 DEF ConfigOK, config

(* The sale in hand joins the others: it fits, the numbers of its tickets  *)
(* are new, and it moves the counter of its day past them.                 *)
LEMMA CommitSaleKeeps ==
  ASSUME ConfigOK, BooksOK, NEW u \in Users, CommitSale(u)
  PROVE  ConfigOK' /\ BooksOK'
<1> DEFINE row == req[u].row
           d == row.day
           n == Len(sale) + 1
<1>1. DaysOK /\ ShiftsOK /\ SalesOK /\ ClosedIsReconciled /\ RequestsOK
  BY DEF BooksOK
<1>2. req[u] \in SaleInHand /\ Fits(req[u], sale, day)
  BY <1>1, AnsweredBy DEF CommitSale
<1>3. /\ row \in Sound /\ d \in DOMAIN day /\ day[d].status = "OPEN" /\ row.first = day[d].next
      /\ row.status = "COMPLETED" /\ ~row.entry.reconciled
      /\ day[d].capacity # NoCap => Seats(sale, d) + Len(row.tickets) <= day[d].capacity
  BY <1>2 DEF SaleInHand, Fits
<1>4. /\ SerialsFree(row)
      /\ sale' = Append(sale, row)
      /\ day' = [day EXCEPT ![d].next = @ + Len(row.tickets)]
      /\ req' = [req EXCEPT ![u] = Idle]
      /\ UNCHANGED <<asked, today, config, card, shift>>
  BY DEF CommitSale, Done
<1>5. DOMAIN req' = Users /\ \A v \in Users : req'[v] = IF v = u THEN Idle ELSE req[v]
  BY <1>1, <1>4 DEF RequestsOK
<1>6. \A v \in Users : v # u /\ req[v].pc = "selling" => req[v].row.day # d
  BY <1>1, <1>2, AskedIs DEF RequestsOK
<1> HIDE DEF row, d
<1>7. Len(row.tickets) \in Nat /\ row.first \in Nat /\ d = row.day
  BY <1>3, SoundIs, HeadsDomain DEF d
<1>8. sale \in Seq(Sound) /\ \A k \in DOMAIN sale : sale[k] \in Sound
  BY <1>1, SaleTypes DEF SalesOK
<1>9. /\ sale' \in Seq(Sound) /\ n \notin DOMAIN sale
      /\ DOMAIN sale' = DOMAIN sale \union {n}
      /\ \A k \in DOMAIN sale : sale'[k] = sale[k]
      /\ sale'[n] = row
  BY <1>3, <1>4, <1>8, AppendIs
<1>10. /\ DOMAIN day' = DOMAIN day /\ day' \in [DOMAIN day -> DayRow]
       /\ \A e \in DOMAIN day : /\ day'[e].status = day[e].status
                                /\ day'[e].capacity = day[e].capacity
                                /\ e # d => day'[e] = day[e]
       /\ day'[d].next = day[d].next + Len(row.tickets)
  BY <1>1, <1>3, <1>4, <1>7 DEF DaysOK, DayRow
<1>11. \A e : /\ Seats(sale', e) = Seats(sale, e) + SeatsIn(row, e)
              /\ \A t : SeatsOf(sale', e, t) = SeatsOf(sale, e, t) + HeadsIn(row, e, t)
              /\ \A c : Uses(sale', e, c) = Uses(sale, e, c) + UsesIn(row, e, c)
  BY <1>3, <1>4, <1>8, CountsAfter
<1>12. \A e : /\ Seats(sale, e) \in Nat
              /\ \A t : SeatsOf(sale, e, t) \in Nat
              /\ \A c : Uses(sale, e, c) \in Nat
  BY <1>8, CountsAre
<1>13. ASSUME NEW e, e # d
       PROVE  /\ Seats(sale', e) = Seats(sale, e)
              /\ \A t : SeatsOf(sale', e, t) = SeatsOf(sale, e, t)
              /\ \A c : Uses(sale', e, c) = Uses(sale, e, c)
  <2>1. /\ SeatsIn(row, e) = 0
        /\ \A t : HeadsIn(row, e, t) = 0
        /\ \A c : UsesIn(row, e, c) = 0
    BY <1>7, <1>13 DEF SeatsIn, HeadsIn, UsesIn, Stands
  <2> QED
    BY <1>11, <1>12, <2>1
<1>14. SeatsIn(row, d) = Len(row.tickets)
  BY <1>3, <1>7 DEF SeatsIn, Stands
<1>15. DaysOK' /\ ShiftsOK'
  BY <1>1, <1>4, <1>10 DEF DaysOK, ShiftsOK
<1>16. SalesOK'
  <2>1. \A k \in DOMAIN sale' : /\ sale'[k].day \in DOMAIN day'
                                /\ sale'[k].first + Len(sale'[k].tickets) <= day'[sale'[k].day].next
    <3> TAKE k \in DOMAIN sale'
    <3>1. CASE k = n
      BY <1>3, <1>7, <1>9, <1>10, <3>1
    <3>2. CASE k \in DOMAIN sale
      <4>1. /\ sale[k].day \in DOMAIN day
            /\ sale[k].first + Len(sale[k].tickets) <= day[sale[k].day].next
        BY <1>1, <3>2 DEF SalesOK
      <4>2. Len(sale[k].tickets) \in Nat /\ sale[k].first \in Nat
        BY <1>8, <3>2, SoundIs, HeadsDomain
      <4>3. day[sale[k].day].next \in Nat
        BY <1>1, <4>1 DEF DaysOK, DayRow
      <4>4. CASE sale[k].day = d
        <5> DEFINE a == sale[k].first + Len(sale[k].tickets)
                   b == Len(row.tickets)
                   m == day[d].next
        <5>1. a \in Nat /\ b \in Nat /\ m \in Nat /\ a <= m /\ day'[d].next = m + b
          BY <1>7, <1>10, <4>1, <4>2, <4>3, <4>4
        <5>2. sale'[k] = sale[k]
          BY <1>9, <3>2
        <5> HIDE DEF a, b, m
        <5>3. a <= day'[d].next
          BY <5>1
        <5> QED
          BY <1>10, <4>1, <4>4, <5>2, <5>3 DEF a
      <4>5. CASE sale[k].day # d
        BY <1>9, <1>10, <3>2, <4>1, <4>5
      <4> QED
        BY <4>4, <4>5
    <3> QED
      BY <1>9, <3>1, <3>2
  <2>2. \A j, k \in DOMAIN sale' : j # k => Serials(sale'[j]) \intersect Serials(sale'[k]) = {}
    BY <1>1, <1>4, <1>9 DEF SalesOK, SerialsFree
  <2>3. ASSUME NEW e \in DOMAIN day', day'[e].capacity # NoCap
        PROVE  Seats(sale', e) <= day'[e].capacity
    <3>1. CASE e = d
      BY <1>3, <1>10, <1>11, <1>14, <2>3, <3>1
    <3>2. CASE e # d
      BY <1>1, <1>10, <1>13, <2>3, <3>2 DEF SalesOK
    <3> QED
      BY <3>1, <3>2
  <2> QED
    BY <1>9, <2>1, <2>2, <2>3 DEF SalesOK
<1>17. ClosedIsReconciled'
  <2> SUFFICES ASSUME NEW k \in DOMAIN sale', ~sale'[k].entry.flipped
               PROVE  /\ sale'[k].entry.reconciled => day'[sale'[k].day].status = "CLOSED"
                      /\ sale'[k].status = "COMPLETED" /\ sale'[k].entry.status = "POSTED"
                           /\ day'[sale'[k].day].status = "CLOSED" => sale'[k].entry.reconciled
    BY DEF ClosedIsReconciled
  <2>1. CASE k = n
    BY <1>3, <1>7, <1>9, <1>10, <2>1
  <2>2. CASE k \in DOMAIN sale
    <3>1. sale[k].day \in DOMAIN day
      BY <1>1, <2>2 DEF SalesOK
    <3> QED
      BY <1>1, <1>9, <1>10, <2>2, <3>1 DEF ClosedIsReconciled
  <2> QED
    BY <1>9, <2>1, <2>2
<1>18. RequestsOK'
  <2>1. ASSUME NEW v \in Users PROVE Answerable(req'[v], sale', day')
    <3>1. CASE v = u
      BY <1>5, <3>1 DEF Answerable
    <3>2. CASE v # u /\ req[v].pc = "selling"
      <4> DEFINE r == req[v]
                 e == r.row.day
      <4>1. r \in SaleInHand /\ Fits(r, sale, day) /\ e # d
        BY <1>1, <1>6, <3>2, AnsweredBy
      <4>2. e \in DOMAIN day /\ day'[e] = day[e]
        BY <1>10, <4>1 DEF Fits
      <4>3. /\ Seats(sale', e) = Seats(sale, e)
            /\ \A t : SeatsOf(sale', e, t) = SeatsOf(sale, e, t)
            /\ \A c : Uses(sale', e, c) = Uses(sale, e, c)
        BY <1>13, <4>1
      <4>4. Fits(r, sale', day')
        BY <1>10, <4>1, <4>2, <4>3 DEF Fits
      <4> QED
        BY <1>5, <3>2, <4>1, <4>4 DEF Answerable
    <3>3. CASE v # u /\ req[v].pc # "selling"
      <4>1. Answerable(req[v], sale, day) /\ req[v] \notin SaleInHand /\ req'[v] = req[v]
        BY <1>1, <1>5, <3>3, AskedIs DEF RequestsOK
      <4> QED
        BY <1>9, <1>10, <4>1 DEF Answerable
    <3> QED
      BY <3>1, <3>2, <3>3
  <2>2. \A v \in Users : req'[v].pc = "selling" => req'[v] = req[v]
    BY <1>5, IdleIs
  <2> QED
    BY <1>1, <1>5, <2>1, <2>2 DEF RequestsOK
<1>19. ConfigOK'
  BY <1>4 DEF ConfigOK, config
<1> QED
  BY <1>15, <1>16, <1>17, <1>18, <1>19 DEF BooksOK

-----------------------------------------------------------------------------
(* The theorems.                                                           *)

LEMMA DeskStep ==
  ASSUME DeskInv, [Next]_vars
  PROVE  DeskInv'
<1>1. ConfigOK /\ BooksOK
  BY DEF DeskInv, BooksOK
<1> SUFFICES ConfigOK' /\ BooksOK'
  BY DEF DeskInv, BooksOK
<1>2. CASE UNCHANGED vars
  <2>1. ConfigOK' /\ UNCHANGED <<day, shift, sale, req>>
    BY <1>1, <1>2 DEF ConfigOK, vars, config
  <2> QED
    BY <1>1, <2>1, BooksStay
<1>3. ASSUME NEW u \in Users, AtTheDesk(u)
      PROVE  ConfigOK' /\ BooksOK'
  <2>1. CASE \E o \in Orders : BeginSale(u, o)
    BY <1>1, <2>1, BeginSaleKeeps
  <2>2. CASE LockSale(u)
    BY <1>1, <2>2, LockSaleKeeps
  <2>3. CASE CommitSale(u)
    BY <1>1, <2>3, CommitSaleKeeps
  <2>4. CASE \E k \in DOMAIN sale : BeginVoid(u, k)
    BY <1>1, <2>4, BeginVoidKeeps
  <2>5. CASE CommitVoid(u)
    BY <1>1, <2>5, CommitVoidKeeps
  <2>6. CASE \E d \in DOMAIN day : CloseDay(u, d)
    BY <1>1, <2>6, CloseDayKeeps
  <2>7. CASE \E d \in DOMAIN day : ReopenDay(u, d)
    BY <1>1, <2>7, ReopenDayKeeps
  <2>8. CASE \E v \in Users : OpenShift(u, v)
    BY <1>1, <2>8, OpenShiftKeeps
  <2>9. CASE \E k \in DOMAIN shift : CloseShift(u, k)
    BY <1>1, <2>9, CloseShiftKeeps
  <2>10. CASE GiveUp(u)
    BY <1>1, <2>10, GiveUpKeeps
  <2> QED
    BY <1>3, <2>1, <2>2, <2>3, <2>4, <2>5, <2>6, <2>7, <2>8, <2>9, <2>10 DEF AtTheDesk
<1>4. ASSUME NEW u \in Users, Configuring(u)
      PROVE  ConfigOK' /\ BooksOK'
  BY <1>1, <1>4, ConfiguringKeeps, BooksStay, DeleteRuleKeeps
<1>5. ASSUME NEW u \in Users, Members(u)
      PROVE  ConfigOK' /\ BooksOK'
  BY <1>1, <1>5, MembersKeep
<1>6. ASSUME NEW u \in Users, InTheBook(u)
      PROVE  ConfigOK' /\ BooksOK'
  BY <1>1, <1>6, BeginBookKeeps, BookWrites, RewritesKeeps DEF InTheBook
<1>7. CASE \E on \in BOOLEAN : SetFeature(on)
  BY <1>1, <1>7, FeatureKeeps, BooksStay
<1>8. CASE NextDate
  BY <1>1, <1>8, DateKeeps, BooksStay
<1> QED
  BY <1>2, <1>3, <1>4, <1>5, <1>6, <1>7, <1>8 DEF Next

(* What the invariant says of every state.                                 *)
LEMMA DeskIsSafe ==
  ASSUME DeskInv
  PROVE  DeskSafe
<1>1. ConfigOK /\ DaysOK /\ ShiftsOK /\ SalesOK /\ ClosedIsReconciled /\ RequestsOK
  BY DEF DeskInv
<1>2. TakingsAgree
  BY <1>1, DeskAgrees
<1>3. \A d \in DOMAIN day : day[d].status \in {"OPEN", "CLOSED"} /\ day[d].next \in Nat \ {0}
  BY <1>1 DEF DaysOK, DayRow
<1>4. \A k \in DOMAIN shift : shift[k].status \in {"OPEN", "CLOSED"} /\ shift[k].day \in DOMAIN day
  <2>1. DOMAIN shift = 1 .. Len(shift) /\ \A k \in DOMAIN shift : shift[k] \in ShiftRow
    <3>1. shift \in Seq(ShiftRow)
      BY <1>1 DEF ShiftsOK
    <3>2. DOMAIN shift = 1 .. Len(shift)
      BY <3>1, LenProperties
    <3> QED
      BY <3>1, <3>2, ElementOfSeq
  <2> QED
    BY <1>1, <2>1 DEF ShiftsOK, ShiftRow
<1>5. \A k \in DOMAIN sale : /\ sale[k].status \in {"COMPLETED", "VOIDED"}
                             /\ sale[k].day \in DOMAIN day
                             /\ sale[k].entry \in Entry
  BY <1>1, SaleTypes, SoundIs DEF SalesOK
<1>6. TypeOK
  BY <1>1, <1>3, <1>4, <1>5 DEF TypeOK, ConfigOK, DaysOK, RequestsOK
<1> QED
  BY <1>1, <1>2, <1>6 DEF DeskSafe

(* Only one sale is in hand on a day.                                      *)
LEMMA InHandIs ==
  ASSUME RequestsOK, NEW d, NEW u \in InHand(d)
  PROVE  /\ InHand(d) = {u} /\ u \in Users /\ req[u].row.day = d
         /\ req[u] \in SaleInHand /\ Fits(req[u], sale, day)
<1>1. u \in Users /\ req[u].pc = "selling" /\ req[u].row.day = d
  BY DEF InHand
<1>2. \A v \in InHand(d) : v = u
  BY <1>1 DEF InHand, RequestsOK
<1> QED
  BY <1>1, <1>2, AnsweredBy

LEMMA DeskSeats ==
  ASSUME DeskInv
  PROVE  SeatsHold
<1>1. DaysOK /\ SalesOK /\ RequestsOK /\ sale \in Seq(Sound)
  BY DEF DeskInv, SalesOK
<1>2. \A d : /\ Issued(d) = Seats(sale, d) /\ Seats(sale, d) \in Nat
             /\ \A t : IssuedOf(d, t) = SeatsOf(sale, d, t)
  BY <1>1, SeatsAre, CountsAre
<1>3. ASSUME NEW d \in DOMAIN day, day[d].capacity # NoCap
      PROVE  Issued(d) + SumOver([u \in InHand(d) |-> Len(req[u].row.tickets)]) <= day[d].capacity
  <2> DEFINE f == [u \in InHand(d) |-> Len(req[u].row.tickets)]
  <2>1. SumOver(f) = Over(f, InHand(d))
    BY SumOverIsOver
  <2>2. CASE InHand(d) = {}
    <3>1. SumOver(f) = 0
      BY <2>1, <2>2, SumEmpty
    <3>2. Seats(sale, d) <= day[d].capacity
      BY <1>1, <1>3 DEF SalesOK
    <3> HIDE DEF f
    <3> QED
      BY <1>2, <3>1, <3>2 DEF f
  <2>3. ASSUME NEW u \in InHand(d)
        PROVE  SumOver(f) = Len(req[u].row.tickets) /\ Seats(sale, d) + SumOver(f) <= day[d].capacity
    <3>1. /\ InHand(d) = {u} /\ req[u].row.day = d
          /\ req[u] \in SaleInHand /\ Fits(req[u], sale, day)
      BY <1>1, InHandIs
    <3>2. f[u] = Len(req[u].row.tickets) /\ f[u] \in Nat
      <4>1. Len(req[u].row.tickets) \in Nat
        BY <3>1, SoundIs, HeadsDomain DEF SaleInHand
      <4> QED
        BY <4>1
    <3>3. Seats(sale, d) + Len(req[u].row.tickets) <= day[d].capacity
      BY <1>3, <3>1 DEF Fits
    <3> HIDE DEF f
    <3>4. Over(f, {u}) = f[u] + Over(f, {u} \ {u})
      <4>1. IsFiniteSet({u})
        BY FS_Singleton
      <4>2. \A x \in {u} : f[x] \in Int
        BY <3>2
      <4>3. Summable(f, {u})
        BY <4>1, <4>2 DEF Summable
      <4> QED
        BY <4>3, SumRemove
    <3>5. Over(f, {u} \ {u}) = 0
      <4>1. {u} \ {u} = {}
        OBVIOUS
      <4> QED
        BY <4>1, SumEmpty
    <3>6. SumOver(f) = f[u]
      BY <2>1, <3>1, <3>2, <3>4, <3>5
    <3> QED
      BY <3>2, <3>3, <3>6
  <2> QED
    BY <1>2, <2>2, <2>3
<1>4. ASSUME NEW d \in DOMAIN day, NEW u \in InHand(d), NEW t \in req[u].types
      PROVE  LET wanted == Cardinality(HeadsOf(req[u].row.tickets, t.id))
             IN  t.capacity # NoCap /\ wanted > 0 => IssuedOf(d, t.id) + wanted <= t.capacity
  <2>1. req[u].row.day = d /\ Fits(req[u], sale, day)
    BY <1>1, InHandIs
  <2> QED
    BY <1>2, <2>1 DEF Fits
<1>5. \A d \in DOMAIN day : \A u, v \in InHand(d) : u = v
  BY <1>1, InHandIs
<1>6. \A k \in DOMAIN sale : \A n \in Serials(sale[k]) : n[2] < day[sale[k].day].next
  <2> TAKE k \in DOMAIN sale
  <2> TAKE n \in Serials(sale[k])
  <2>1. sale[k].first \in Nat /\ Len(sale[k].tickets) \in Nat
    BY <1>1, SaleTypes, SoundIs, HeadsDomain
  <2>2. sale[k].first + Len(sale[k].tickets) <= day[sale[k].day].next /\ day[sale[k].day].next \in Nat
    BY <1>1 DEF SalesOK, DaysOK, DayRow
  <2>3. n[2] \in sale[k].first .. sale[k].first + Len(sale[k].tickets) - 1
    BY DEF Serials
  <2> QED
    BY <2>1, <2>2, <2>3
<1> QED
  BY <1>1, <1>3, <1>4, <1>5, <1>6 DEF SeatsHold, SalesOK

LEMMA DeskAllows ==
  ASSUME DeskInv, OneOffer
  PROVE  AllowanceHolds
<1>1. RequestsOK /\ sale \in Seq(Sound)
  BY DEF DeskInv, SalesOK
<1> SUFFICES ASSUME NEW d \in DOMAIN day, NEW u \in InHand(d),
                    req[u].row.redeemed > 0, req[u].allowance # Unlimited
             PROVE  Redeemed(OfCard(d, req[u].row.card)) + req[u].row.redeemed <= req[u].allowance
  BY DEF AllowanceHolds
<1>2. req[u].row.day = d /\ Fits(req[u], sale, day)
  BY <1>1, InHandIs
<1>3. Redeemed(OfCard(d, req[u].row.card)) = Uses(sale, d, req[u].row.card)
  BY <1>1, SeatsAre
<1> QED
  BY <1>2, <1>3 DEF Fits

(* What ClosedDayFrozen asks of a step.                                    *)
Frozen ==
  \A d \in DOMAIN day : day[d].status = "CLOSED" /\ day'[d].status = "CLOSED" =>
     /\ SalesOf(d)' = SalesOf(d)
     /\ \A k \in SalesOf(d) : /\ Standing(k)' = Standing(k)
                              /\ sale'[k].entry # sale[k].entry => \E u \in Users : Late(u, k)

StandsAs(s, n) == n.status = s.status /\ n.net = s.net /\ n.redeemed = s.redeemed

KeptInBooks(s, n) == StandsAs(s, n) /\ n.entry = s.entry

LEMMA FrozenBy ==
  ASSUME DOMAIN sale' = DOMAIN sale,
         \A k \in DOMAIN sale :
           /\ sale'[k].day = sale[k].day
           /\ day[sale[k].day].status = "CLOSED" /\ day'[sale[k].day].status = "CLOSED" =>
                \/ KeptInBooks(sale[k], sale'[k])
                \/ StandsAs(sale[k], sale'[k]) /\ \E u \in Users : Late(u, k)
  PROVE  Frozen
<1> SUFFICES ASSUME NEW d \in DOMAIN day, day[d].status = "CLOSED", day'[d].status = "CLOSED"
             PROVE  /\ SalesOf(d)' = SalesOf(d)
                    /\ \A k \in SalesOf(d) :
                         /\ Standing(k)' = Standing(k)
                         /\ sale'[k].entry # sale[k].entry => \E u \in Users : Late(u, k)
  BY DEF Frozen
<1>1. SalesOf(d)' = SalesOf(d)
  BY DEF SalesOf
<1>2. \A k \in SalesOf(d) : /\ Standing(k)' = Standing(k)
                            /\ sale'[k].entry # sale[k].entry => \E u \in Users : Late(u, k)
  BY DEF SalesOf, Standing, KeptInBooks, StandsAs
<1> QED
  BY <1>1, <1>2

LEMMA FrozenStays == ASSUME sale' = sale PROVE Frozen
BY FrozenBy DEF KeptInBooks, StandsAs

(* A sale is committed on an open day.                                     *)
LEMMA CommitFrozen ==
  ASSUME BooksOK, NEW u \in Users, CommitSale(u)
  PROVE  Frozen
<1> DEFINE row == req[u].row
           n == Len(sale) + 1
<1>1. Fits(req[u], sale, day) /\ row \in Sound
  BY AnsweredBy DEF CommitSale, BooksOK, SaleInHand
<1>2. day[row.day].status = "OPEN"
  BY <1>1 DEF Fits
<1>3. sale' = Append(sale, row)
  BY DEF CommitSale
<1>4. sale \in Seq(Sound)
  BY DEF BooksOK, SalesOK
<1> HIDE DEF row
<1>5. /\ n \notin DOMAIN sale /\ DOMAIN sale' = DOMAIN sale \union {n}
      /\ (\A k \in DOMAIN sale : sale'[k] = sale[k]) /\ sale'[n] = row
  BY <1>1, <1>3, <1>4, AppendIs
<1> SUFFICES ASSUME NEW d \in DOMAIN day, day[d].status = "CLOSED"
             PROVE  /\ SalesOf(d)' = SalesOf(d)
                    /\ \A k \in SalesOf(d) : sale'[k] = sale[k]
  BY DEF Frozen, Standing
<1>6. row.day # d
  BY <1>2
<1>7. SalesOf(d)' = SalesOf(d)
  BY <1>5, <1>6 DEF SalesOf
<1>8. \A k \in SalesOf(d) : sale'[k] = sale[k]
  BY <1>5 DEF SalesOf
<1> QED
  BY <1>7, <1>8

(* Only sales of an open day are reversed.                                 *)
LEMMA VoidFrozen ==
  ASSUME BooksOK, NEW u \in Users, CommitVoid(u)
  PROVE  Frozen
<1> DEFINE k == req[u].sale
<1>1. /\ sale' = [sale EXCEPT ![k] = Voided(@)]
      /\ day[sale[k].day].status = "OPEN"
  BY DEF CommitVoid
<1> HIDE DEF k
<1>2. \A j \in DOMAIN sale : sale[j] \in Sound
  BY SaleTypes DEF BooksOK, SalesOK
<1>3. DOMAIN sale' = DOMAIN sale
      /\ \A j \in DOMAIN sale : sale'[j] = IF j = k THEN Voided(sale[k]) ELSE sale[j]
  BY <1>1
<1>4. k \in DOMAIN sale => Voided(sale[k]).day = sale[k].day
  BY <1>2 DEF Voided, Sound, SaleRow
<1>5. \A j \in DOMAIN sale :
        /\ sale'[j].day = sale[j].day
        /\ day[sale[j].day].status = "CLOSED" => KeptInBooks(sale[j], sale'[j])
  BY <1>1, <1>3, <1>4 DEF KeptInBooks, StandsAs
<1> QED
  BY <1>3, <1>5, FrozenBy

(* A day that is closed was open before, and one that is reopened is.      *)
LEMMA MarkedFrozen ==
  ASSUME BooksOK, NEW d \in DOMAIN day, NEW ks \in SUBSET SalesOf(d), NEW mark \in BOOLEAN,
         sale' = Marked(ks, mark), day[d].status = "OPEN" \/ day'[d].status = "OPEN"
  PROVE  Frozen
<1>1. \A k \in DOMAIN sale : sale[k] \in Sound
  BY SaleTypes DEF BooksOK, SalesOK
<1>2. DOMAIN sale' = DOMAIN sale
      /\ \A k \in DOMAIN sale :
           sale'[k] = IF k \in ks THEN WithMark(sale[k], mark) ELSE sale[k]
  BY DEF Marked
<1>3. \A k \in DOMAIN sale : /\ sale'[k].day = sale[k].day
                             /\ k \notin ks => sale'[k] = sale[k]
                             /\ k \in ks => sale[k].day = d
  BY <1>1, <1>2 DEF SalesOf, Sound, SaleRow, WithMark
<1>4. \A k \in DOMAIN sale :
        /\ sale'[k].day = sale[k].day
        /\ day[sale[k].day].status = "CLOSED" /\ day'[sale[k].day].status = "CLOSED" =>
             KeptInBooks(sale[k], sale'[k])
  <2> TAKE k \in DOMAIN sale
  <2>1. CASE k \in ks
    <3>1. ~(day[sale[k].day].status = "CLOSED" /\ day'[sale[k].day].status = "CLOSED")
      BY <1>3, <2>1
    <3> QED
      BY <1>3, <3>1
  <2>2. CASE k \notin ks
    <3>1. KeptInBooks(sale[k], sale'[k])
      BY <1>3, <2>2 DEF KeptInBooks, StandsAs
    <3> QED
      BY <1>3, <3>1
  <2> QED
    BY <2>1, <2>2
<1> QED
  BY <1>2, <1>4, FrozenBy

LEMMA RuleFrozen ==
  ASSUME BooksOK, NEW u \in Users, NEW r \in RuleIds, DeleteDiscountRule(u, r)
  PROVE  Frozen
<1>1. \A k \in DOMAIN sale : sale[k] \in Sound
  BY SaleTypes DEF BooksOK, SalesOK
<1>2. DOMAIN sale' = DOMAIN sale /\ \A k \in DOMAIN sale : sale'[k] = Unpointed(sale[k], r)
  BY DEF DeleteDiscountRule
<1>3. ASSUME NEW s \in Sound PROVE Unpointed(s, r).day = s.day /\ KeptInBooks(s, Unpointed(s, r))
  BY DEF Unpointed, KeptInBooks, StandsAs, Sound, SaleRow
<1> QED
  BY <1>1, <1>2, <1>3, FrozenBy

(* The book writes one entry, late or as it is toggled.                    *)
LEMMA BookFrozen ==
  ASSUME BooksOK, NEW u \in Users, InTheBook(u)
  PROVE  sale' = sale \/ Frozen
<1>1. CASE \E k \in DOMAIN sale : \E op \in BookOps : BeginBook(u, op, k)
  BY <1>1 DEF BeginBook
<1>2. ASSUME NEW k \in DOMAIN sale,
             \/ \E x \in Values \ {0} : EditEntry(u, k, x)
             \/ DeleteEntry(u, k)
             \/ ToggleReconciliation(u, k)
      PROVE  Frozen
  <2>1. PICK e : /\ Corrected(sale[k], e) /\ Rewrites(u, k, e)
                 /\ req[u].pc = "book" /\ req[u].sale = k
                 /\ req[u].op = "toggle" \/ ~req[u].seen.reconciled
    BY <1>2, BookWrites
  <2> DEFINE n == [sale[k] EXCEPT !.entry = e]
  <2>2. sale' = [sale EXCEPT ![k] = n] /\ req' = [req EXCEPT ![u] = Idle]
    BY <2>1 DEF Rewrites, Done
  <2>3. req'[u] = Idle
    BY <2>2 DEF BooksOK, RequestsOK
  <2>4. Late(u, k)
    BY <2>1, <2>3 DEF Late
  <2>5. sale[k] \in Sound
    BY SaleTypes DEF BooksOK, SalesOK
  <2>6. n.day = sale[k].day /\ StandsAs(sale[k], n)
    BY <2>1, <2>5, WrittenKin DEF Corrected, Same, StandsAs
  <2> HIDE DEF n
  <2>7. DOMAIN sale' = DOMAIN sale
        /\ \A j \in DOMAIN sale : sale'[j] = IF j = k THEN n ELSE sale[j]
    BY <2>2
  <2>8. \A j \in DOMAIN sale :
          /\ sale'[j].day = sale[j].day
          /\ \/ KeptInBooks(sale[j], sale'[j])
             \/ StandsAs(sale[j], sale'[j]) /\ \E v \in Users : Late(v, j)
    <3> TAKE j \in DOMAIN sale
    <3>1. CASE j = k
      BY <2>4, <2>6, <2>7, <3>1
    <3>2. CASE j # k
      BY <2>7, <3>2 DEF KeptInBooks, StandsAs
    <3> QED
      BY <3>1, <3>2
  <2> QED
    BY <2>7, <2>8, FrozenBy
<1> QED
  BY <1>1, <1>2 DEF InTheBook

LEMMA DeskFreezes ==
  ASSUME DeskInv, [Next]_vars
  PROVE  Frozen
<1>1. ConfigOK /\ BooksOK
  BY DEF DeskInv, BooksOK
<1>2. CASE sale' = sale
  BY <1>2, FrozenStays
<1>3. ASSUME NEW u \in Users, AtTheDesk(u) PROVE sale' = sale \/ Frozen
  <2>1. CASE CommitSale(u)
    BY <1>1, <2>1, CommitFrozen
  <2>2. CASE CommitVoid(u)
    BY <1>1, <2>2, VoidFrozen
  <2>3. ASSUME NEW d \in DOMAIN day, CloseDay(u, d) PROVE Frozen
    <3>1. ToReconcile(d) \in SUBSET SalesOf(d)
      BY DEF ToReconcile, Completed
    <3>2. sale' = Marked(ToReconcile(d), TRUE) /\ day[d].status = "OPEN"
      BY <2>3 DEF CloseDay
    <3> QED
      BY <1>1, <3>1, <3>2, MarkedFrozen
  <2>4. ASSUME NEW d \in DOMAIN day, ReopenDay(u, d) PROVE Frozen
    <3> DEFINE ks == {k \in Completed(d) : sale[k].entry.status # "NONE"}
    <3>1. ks \in SUBSET SalesOf(d)
      BY DEF Completed
    <3>2. sale' = Marked(ks, FALSE) /\ day'[d].status = "OPEN"
      BY <1>1, <2>4 DEF ReopenDay, BooksOK, DaysOK, DayRow
    <3> HIDE DEF ks
    <3> QED
      BY <1>1, <3>1, <3>2, MarkedFrozen
  <2>5. CASE /\ ~CommitSale(u) /\ ~CommitVoid(u)
             /\ \A d \in DOMAIN day : ~CloseDay(u, d) /\ ~ReopenDay(u, d)
    BY <1>3, <2>5 DEF AtTheDesk, BeginSale, LockSale, BeginVoid, OpenShift, CloseShift, GiveUp
  <2> QED
    BY <2>1, <2>2, <2>3, <2>4, <2>5
<1>4. ASSUME NEW u \in Users, Configuring(u) PROVE sale' = sale \/ Frozen
  BY <1>1, <1>4, ConfiguringKeeps, RuleFrozen
<1>5. ASSUME NEW u \in Users, Members(u) PROVE sale' = sale
  BY <1>1, <1>5, MembersKeep
<1>6. ASSUME NEW u \in Users, InTheBook(u) PROVE sale' = sale \/ Frozen
  BY <1>1, <1>6, BookFrozen
<1>7. CASE UNCHANGED vars \/ (\E on \in BOOLEAN : SetFeature(on)) \/ NextDate
  BY <1>7, FrozenStays DEF vars, SetFeature, NextDate
<1> QED
  BY <1>2, <1>3, <1>4, <1>5, <1>6, <1>7 DEF Next

(* In every reachable state the breakdowns of a day add up to its takings, *)
(* the entries that nobody edited carry what their sales took, no ticket   *)
(* is charged less than nothing, a reversed sale keeps neither its entry   *)
(* nor a redemption, and the marks the book left alone say which days are  *)
(* closed, whatever is edited, deleted or toggled in the book meanwhile    *)
(* (createSale, voidSale, closeDay, reopenDay, getDaySummary, updateEntry, *)
(* deleteEntry, toggleReconciliation).                                     *)
THEOREM DeskHolds == Spec => []DeskSafe
<1>1. Init => DeskInv
  BY InitHolds
<1>2. DeskInv /\ [Next]_vars => DeskInv'
  BY DeskStep
<1>3. DeskInv => DeskSafe
  BY DeskIsSafe
<1> QED
  BY <1>1, <1>2, <1>3, PTL DEF Spec

(* No day and no tier is oversold, and no number is on two tickets, for    *)
(* any number of attendants selling at once (assertCapacity under the lock *)
(* of the day, nextSerial).                                                *)
THEOREM NotOversold == Spec => []SeatsHold
<1>1. Init => DeskInv
  BY InitHolds
<1>2. DeskInv /\ [Next]_vars => DeskInv'
  BY DeskStep
<1>3. DeskInv => SeatsHold
  BY DeskSeats
<1> QED
  BY <1>1, <1>2, <1>3, PTL DEF Spec

(* A card redeems no more than its allowance on a day, if no tier has two  *)
(* offers for its members: each offer takes the whole of what is left      *)
(* (resolveMembership, eligibleTickets).                                   *)
THEOREM WithinAllowance == ASSUME OneOffer PROVE Spec => []AllowanceHolds
<1>1. Init => DeskInv
  BY InitHolds
<1>2. DeskInv /\ [Next]_vars => DeskInv'
  BY DeskStep
<1>3. DeskInv => AllowanceHolds
  BY DeskAllows
<1> QED
  BY <1>1, <1>2, <1>3, PTL DEF Spec

(* While a day stays closed no sale joins it and none is reversed (the     *)
(* second look at the day under its lock in createSale and voidSale), and  *)
(* an entry of it changes only by a toggle of its mark, or by an edit or a *)
(* deletion that read it unreconciled: for any number of staff, requests   *)
(* and sales.                                                              *)
THEOREM ClosedStaysClosed == Spec => ClosedDayFrozen
<1>1. Init => DeskInv
  BY InitHolds
<1>2. DeskInv /\ [Next]_vars => DeskInv'
  BY DeskStep
<1>3. DeskInv /\ [Next]_vars => Frozen
  BY DeskFreezes
<1>4. Spec => [][Frozen]_vars
  BY <1>1, <1>2, <1>3, PTL DEF Spec
<1> QED
  BY <1>4 DEF ClosedDayFrozen, Frozen
=============================================================================
