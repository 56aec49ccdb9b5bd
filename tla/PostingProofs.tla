--------------------------- MODULE PostingProofs ---------------------------
(***************************************************************************)
(* What the posting rules guarantee for every amount: the two sides of     *)
(* each journal are equal, and the deltas PostingService reads off the     *)
(* ledger lines of an entry are the ones money.ts computes from the entry  *)
(* itself; and what a post, a reversal and a repost do to every sum over   *)
(* the ledger.                                                             *)
(*                                                                         *)
(* First, sums over finite sets as MapThenSumSet takes them: what adding,  *)
(* removing or changing one summand does.  MapThenSumSet is a fold: it     *)
(* takes the elements away one by one, in an order of its own choosing.    *)
(* The proofs go by a smallest counterexample: among the subsets of a      *)
(* finite set, the set of those a statement fails for has, unless it is    *)
(* empty, a member with no proper subset in it (SmallestSet).              *)
(***************************************************************************)
EXTENDS Posting, FiniteSetTheorems, WellFoundedInduction, TLAPS

-----------------------------------------------------------------------------
(* Sums over finite sets.                                                  *)

(* The element the fold takes next.                                        *)
Pick(s) == CHOOSE x \in s : TRUE

(* The sum of the values of f on the members of S.                         *)
Over(f, S) == MapThenSumSet(LAMBDA x : f[x], S)

(* h is the function the fold computes on the subsets of S.                *)
IsCount(f, S, h) ==
  h = [s \in SUBSET S |-> IF s = {} THEN 0 ELSE f[Pick(s)] + h[s \ {Pick(s)}]]

(* f has integers on S, and S is finite.                                   *)
Summable(f, S) == IsFiniteSet(S) /\ \A x \in S : f[x] \in Int

-----------------------------------------------------------------------------
(* The fold takes an element of the set.                                   *)
LEMMA PickIn == \A s : s # {} => Pick(s) \in s
BY DEF Pick

(* A non-empty set of subsets of a finite set has a smallest member.       *)
LEMMA SmallestSet ==
  ASSUME NEW D, IsFiniteSet(D), NEW T \in SUBSET SUBSET D, T # {}
  PROVE  \E s \in T : \A t \in T : ~(t \subseteq s /\ t # s)
<1>1. IsWellFoundedOn(StrictSubsetOrdering(D), FiniteSubsetsOf(D))
  BY FS_StrictSubsetOrderingWellFounded
<1>2. T \subseteq FiniteSubsetsOf(D)
  BY FS_Subset DEF FiniteSubsetsOf
<1>3. PICK s \in T : \A t \in T : <<t, s>> \notin StrictSubsetOrdering(D)
  BY <1>1, <1>2, WFMin
<1> QED
  BY <1>2, <1>3 DEF StrictSubsetOrdering, FiniteSubsetsOf

(* A nonempty set of naturals has a least member.                           *)
LEMMA LeastNatural ==
  ASSUME NEW P \in SUBSET Nat, P # {}
  PROVE  \E n \in P : \A m \in P : n <= m
<1> DEFINE R == OpToRel(<, Nat)
<1>1. IsWellFoundedOn(R, Nat)
  BY NatLessThanWellFounded
<1>2. \A m, n \in Nat : m < n => <<m, n>> \in R
  BY DEF OpToRel
<1> HIDE DEF R
<1>3. PICK n \in P : \A m \in P : ~(<<m, n>> \in R)
  BY <1>1, WFMin
<1>4. ASSUME NEW m \in P PROVE n <= m
  <2>1. m \in Nat /\ n \in Nat
    OBVIOUS
  <2>2. ~(m < n)
    BY <1>2, <1>3, <2>1
  <2> QED
    BY <2>1, <2>2
<1> QED
  BY <1>4

(* The sum is the value of the function the fold chooses.                  *)
LEMMA OverIsCount ==
  ASSUME NEW f, NEW S
  PROVE  Over(f, S) = (CHOOSE h : IsCount(f, S, h))[S]
BY DEF Over, MapThenSumSet, MapThenFoldSet, IsCount, Pick

(* There is at most one such function.                                     *)
LEMMA CountUnique ==
  ASSUME NEW f, NEW S, IsFiniteSet(S), NEW g, NEW h, IsCount(f, S, g), IsCount(f, S, h)
  PROVE  g = h
<1> DEFINE T == {s \in SUBSET S : g[s] # h[s]}
<1>0. T \in SUBSET SUBSET S
  OBVIOUS
<1> HIDE DEF T
<1>1. ASSUME T # {} PROVE FALSE
  <2>1. PICK s \in T : \A t \in T : ~(t \subseteq s /\ t # s)
    BY <1>0, <1>1, SmallestSet
  <2> USE DEF T
  <2>2. s # {}
    BY DEF IsCount
  <2> DEFINE u == s \ {Pick(s)}
  <2>3. u \subseteq s /\ u # s /\ u \in SUBSET S
    BY <2>2, PickIn
  <2>4. g[u] = h[u]
    BY <2>1, <2>3
  <2>5. g[s] = f[Pick(s)] + g[u] /\ h[s] = f[Pick(s)] + h[u]
    BY <2>2 DEF IsCount
  <2> QED
    BY <2>4, <2>5
<1>2. \A s \in SUBSET S : g[s] = h[s]
  BY <1>1 DEF T
<1>3. g = [s \in SUBSET S |-> g[s]] /\ h = [s \in SUBSET S |-> h[s]]
  BY DEF IsCount
<1> QED
  BY <1>2, <1>3

(* A count of a set counts its subsets.                                    *)
LEMMA CountRestricts ==
  ASSUME NEW f, NEW S, NEW T \in SUBSET S, NEW h, IsCount(f, S, h),
         NEW g, g = [s \in SUBSET T |-> h[s]]
  PROVE  IsCount(f, T, g)
<1>1. \A s \in SUBSET T : g[s] = IF s = {} THEN 0 ELSE f[Pick(s)] + g[s \ {Pick(s)}]
  <2> TAKE s \in SUBSET T
  <2>1. h[s] = IF s = {} THEN 0 ELSE f[Pick(s)] + h[s \ {Pick(s)}]
    BY DEF IsCount
  <2> QED
    BY <2>1
<1>2. g = [s \in SUBSET T |-> g[s]]
  OBVIOUS
<1> QED
  BY <1>1, <1>2 DEF IsCount

(* Where the fold is well defined, it unfolds.                             *)
LEMMA CountUnfolds ==
  ASSUME NEW f, NEW S, IsFiniteSet(S), \E h : IsCount(f, S, h)
  PROVE  /\ S = {} => Over(f, S) = 0
         /\ S # {} => Over(f, S) = f[Pick(S)] + Over(f, S \ {Pick(S)})
<1>1. PICK h : IsCount(f, S, h)
  OBVIOUS
<1>2. \A T \in SUBSET S : Over(f, T) = h[T]
  <2> TAKE T \in SUBSET S
  <2> DEFINE g == [s \in SUBSET T |-> h[s]]
  <2> HIDE DEF g
  <2>1. IsCount(f, T, g)
    BY <1>1, CountRestricts DEF g
  <2>2. IsCount(f, T, CHOOSE k : IsCount(f, T, k))
    BY <2>1
  <2>3. (CHOOSE k : IsCount(f, T, k)) = g
    BY <2>1, <2>2, FS_Subset, CountUnique
  <2> QED
    BY <2>3, OverIsCount DEF g
<1>3. h[S] = IF S = {} THEN 0 ELSE f[Pick(S)] + h[S \ {Pick(S)}]
  BY <1>1 DEF IsCount
<1> QED
  BY <1>2, <1>3

(* And it is well defined on every finite set.                             *)
LEMMA CountExists ==
  ASSUME NEW f, NEW S, IsFiniteSet(S)
  PROVE  \E h : IsCount(f, S, h)
<1> DEFINE T == {t \in SUBSET S : ~\E h : IsCount(f, t, h)}
<1>0. T \in SUBSET SUBSET S
  OBVIOUS
<1> HIDE DEF T
<1>1. ASSUME T # {} PROVE FALSE
  <2>1. PICK t \in T : \A u \in T : ~(u \subseteq t /\ u # t)
    BY <1>0, <1>1, SmallestSet
  <2> USE DEF T
  <2> DEFINE h == [s \in SUBSET t |->
                     IF s = {} THEN 0 ELSE f[Pick(s)] + Over(f, s \ {Pick(s)})]
  <2>2. \A u \in SUBSET t : u # t => h[u] = Over(f, u)
    <3> TAKE u \in SUBSET t
    <3> HAVE u # t
    <3>1. IsFiniteSet(u) /\ \E k : IsCount(f, u, k)
      BY <2>1, FS_Subset
    <3> QED
      BY <3>1, CountUnfolds
  <2>3. \A s \in SUBSET t : s # {} => h[s \ {Pick(s)}] = Over(f, s \ {Pick(s)})
    BY <2>2, PickIn
  <2>4. h = [s \in SUBSET t |-> IF s = {} THEN 0 ELSE f[Pick(s)] + h[s \ {Pick(s)}]]
    BY <2>3
  <2> HIDE DEF h
  <2>5. IsCount(f, t, h)
    BY <2>4 DEF IsCount
  <2> QED
    BY <2>1, <2>5
<1> QED
  BY <1>1 DEF T

-----------------------------------------------------------------------------
(* What the sums of this project need.                                     *)

(* The empty sum is zero.                                                  *)
LEMMA SumEmpty == ASSUME NEW f PROVE Over(f, {}) = 0
BY FS_EmptySet, CountExists, CountUnfolds

LEMMA SumUnfolds ==
  ASSUME NEW f, NEW S, IsFiniteSet(S), S # {}
  PROVE  Over(f, S) = f[Pick(S)] + Over(f, S \ {Pick(S)})
BY CountExists, CountUnfolds

(* A sum of integers is an integer.                                        *)
LEMMA SumType ==
  ASSUME NEW f, NEW S, Summable(f, S)
  PROVE  Over(f, S) \in Int
<1> DEFINE T == {s \in SUBSET S : Over(f, s) \notin Int}
<1>0. T \in SUBSET SUBSET S
  OBVIOUS
<1> HIDE DEF T
<1>1. ASSUME T # {} PROVE FALSE
  <2>1. PICK s \in T : \A t \in T : ~(t \subseteq s /\ t # s)
    BY <1>0, <1>1, SmallestSet DEF Summable
  <2> USE DEF T
  <2>2. s # {}
    BY SumEmpty
  <2>3. Pick(s) \in s
    BY <2>2, PickIn
  <2>4. Over(f, s \ {Pick(s)}) \in Int
    BY <2>1, <2>3
  <2>5. Over(f, s) = f[Pick(s)] + Over(f, s \ {Pick(s)})
    BY <2>2, FS_Subset, SumUnfolds DEF Summable
  <2>6. f[Pick(s)] \in Int
    BY <2>3 DEF Summable
  <2> QED
    BY <2>4, <2>5, <2>6
<1> QED
  BY <1>1 DEF T

(* Part of a summable set is summable.                                     *)
LEMMA PartSummable ==
  ASSUME NEW f, NEW S, Summable(f, S), NEW T \in SUBSET S
  PROVE  Summable(f, T)
BY FS_Subset DEF Summable

(* Any one summand can be taken out.                                       *)
LEMMA SumRemove ==
  ASSUME NEW f, NEW S, Summable(f, S), NEW x \in S
  PROVE  Over(f, S) = f[x] + Over(f, S \ {x})
<1> DEFINE T == {s \in SUBSET S : \E y \in s : Over(f, s) # f[y] + Over(f, s \ {y})}
<1>0. T \in SUBSET SUBSET S
  OBVIOUS
<1> HIDE DEF T
<1>1. ASSUME T # {} PROVE FALSE
  <2>1. PICK s \in T : \A t \in T : ~(t \subseteq s /\ t # s)
    BY <1>0, <1>1, SmallestSet DEF Summable
  <2> USE DEF T
  <2>2. PICK y \in s : Over(f, s) # f[y] + Over(f, s \ {y})
    OBVIOUS
  <2> DEFINE p == Pick(s)
  <2>3. p \in s
    BY PickIn
  <2>4. Over(f, s) = f[p] + Over(f, s \ {p})
    BY <2>3, FS_Subset, SumUnfolds DEF Summable
  <2> HIDE DEF p
  <2>5. p # y
    BY <2>2, <2>4
  <2>6. s \ {p} \notin T /\ s \ {y} \notin T
    BY <2>1, <2>3
  <2>7. Over(f, s \ {p}) = f[y] + Over(f, (s \ {p}) \ {y})
    BY <2>5, <2>6
  <2>8. Over(f, s \ {y}) = f[p] + Over(f, (s \ {y}) \ {p})
    BY <2>3, <2>5, <2>6
  <2>9. (s \ {p}) \ {y} = (s \ {y}) \ {p}
    OBVIOUS
  <2> DEFINE rest == Over(f, (s \ {y}) \ {p})
  <2>10. rest \in Int
    BY PartSummable, SumType
  <2>11. f[p] \in Int /\ f[y] \in Int
    BY <2>3 DEF Summable
  <2>12. Over(f, s) = f[p] + (f[y] + rest) /\ Over(f, s \ {y}) = f[p] + rest
    BY <2>4, <2>7, <2>8, <2>9
  <2> HIDE DEF rest
  <2> QED
    BY <2>2, <2>10, <2>11, <2>12
<1> QED
  BY <1>1 DEF T

(* ... or added.                                                           *)
LEMMA SumAdd ==
  ASSUME NEW f, NEW S, Summable(f, S), NEW x, x \notin S, f[x] \in Int
  PROVE  /\ Summable(f, S \union {x})
         /\ Over(f, S \union {x}) = f[x] + Over(f, S)
<1>1. Summable(f, S \union {x})
  BY FS_AddElement DEF Summable
<1>2. (S \union {x}) \ {x} = S
  OBVIOUS
<1> QED
  BY <1>1, <1>2, SumRemove

(* Only the values on the set count.                                       *)
LEMMA SumSame ==
  ASSUME NEW S, NEW f, NEW g, \A x \in S : f[x] = g[x]
  PROVE  Over(f, S) = Over(g, S)
<1> DEFINE A(h) == [s \in SUBSET S |-> IF s = {} THEN 0 ELSE f[Pick(s)] + h[s \ {Pick(s)}]]
<1> DEFINE B(h) == [s \in SUBSET S |-> IF s = {} THEN 0 ELSE g[Pick(s)] + h[s \ {Pick(s)}]]
<1>1. \A s \in SUBSET S : s # {} => f[Pick(s)] = g[Pick(s)]
  BY PickIn
<1>2. \A h : A(h) = B(h)
  BY <1>1
<1>3. (CHOOSE h : h = A(h)) = (CHOOSE h : h = B(h))
  BY <1>2
<1>4. Over(f, S) = (CHOOSE h : h = A(h))[S] /\ Over(g, S) = (CHOOSE h : h = B(h))[S]
  BY DEF Over, MapThenSumSet, MapThenFoldSet, Pick
<1> QED
  BY <1>3, <1>4

(* One summand changed.                                                    *)
LEMMA SumChange ==
  ASSUME NEW S, NEW f, Summable(f, S), NEW x \in S,
         NEW g, g[x] \in Int, \A y \in S \ {x} : g[y] = f[y]
  PROVE  /\ Summable(g, S)
         /\ Over(g, S) = Over(f, S) - f[x] + g[x]
<1>1. Summable(g, S)
  BY DEF Summable
<1>2. Over(g, S) = g[x] + Over(g, S \ {x}) /\ Over(f, S) = f[x] + Over(f, S \ {x})
  BY <1>1, SumRemove
<1>3. Over(g, S \ {x}) = Over(f, S \ {x})
  BY SumSame
<1>4. Over(f, S \ {x}) \in Int
  BY PartSummable, SumType
<1>5. f[x] \in Int
  BY DEF Summable
<1> QED
  BY <1>1, <1>2, <1>3, <1>4, <1>5

(* The sum over a set with one element more, or one less, by a function    *)
(* that agrees on the rest.                                                *)
LEMMA SumOneMore ==
  ASSUME NEW f, NEW S, Summable(f, S), NEW x, x \notin S,
         NEW g, g[x] \in Int, \A y \in S : g[y] = f[y]
  PROVE  Over(g, S \union {x}) = Over(f, S) + g[x]
<1>1. Summable(g, S)
  BY DEF Summable
<1>2. Over(g, S \union {x}) = g[x] + Over(g, S)
  BY <1>1, SumAdd
<1>3. Over(g, S) = Over(f, S) /\ Over(f, S) \in Int
  BY SumSame, SumType
<1> QED
  BY <1>2, <1>3

LEMMA SumOneLess ==
  ASSUME NEW f, NEW S, Summable(f, S), NEW x \in S,
         NEW g, \A y \in S \ {x} : g[y] = f[y]
  PROVE  Over(g, S \ {x}) = Over(f, S) - f[x]
<1>1. Over(f, S) = f[x] + Over(f, S \ {x})
  BY SumRemove
<1>2. Over(g, S \ {x}) = Over(f, S \ {x})
  BY SumSame
<1>3. Over(f, S \ {x}) \in Int /\ f[x] \in Int
  BY PartSummable, SumType DEF Summable
<1> QED
  BY <1>1, <1>2, <1>3

(* A sum of naturals is a natural, no smaller than any of its summands.    *)
LEMMA SumNat ==
  ASSUME NEW f, NEW S, IsFiniteSet(S), \A x \in S : f[x] \in Nat
  PROVE  Over(f, S) \in Nat
<1> DEFINE T == {s \in SUBSET S : Over(f, s) \notin Nat}
<1>0. T \in SUBSET SUBSET S
  OBVIOUS
<1> HIDE DEF T
<1>1. ASSUME T # {} PROVE FALSE
  <2>1. PICK s \in T : \A t \in T : ~(t \subseteq s /\ t # s)
    BY <1>0, <1>1, SmallestSet
  <2> USE DEF T
  <2>2. s # {}
    BY SumEmpty
  <2>3. Pick(s) \in s
    BY <2>2, PickIn
  <2>4. Over(f, s \ {Pick(s)}) \in Nat
    BY <2>1, <2>3
  <2>5. Over(f, s) = f[Pick(s)] + Over(f, s \ {Pick(s)})
    BY <2>2, FS_Subset, SumUnfolds
  <2>6. f[Pick(s)] \in Nat
    BY <2>3
  <2> QED
    BY <2>4, <2>5, <2>6
<1> QED
  BY <1>1 DEF T

LEMMA SumAtLeast ==
  ASSUME NEW f, NEW S, IsFiniteSet(S), \A x \in S : f[x] \in Nat, NEW x \in S
  PROVE  f[x] <= Over(f, S)
<1>1. Over(f, S) = f[x] + Over(f, S \ {x})
  BY SumRemove DEF Summable
<1>2. Over(f, S \ {x}) \in Nat
  BY FS_Subset, SumNat
<1> QED
  BY <1>1, <1>2

(* Summands of zero may be left out.                                       *)
LEMMA SumZeros ==
  ASSUME NEW f, NEW S, Summable(f, S), NEW P \in SUBSET S, \A x \in S \ P : f[x] = 0
  PROVE  Over(f, S) = Over(f, P)
<1> DEFINE T == {s \in SUBSET S : Over(f, s) # Over(f, s \cap P)}
<1>0. T \in SUBSET SUBSET S
  OBVIOUS
<1> HIDE DEF T
<1>1. ASSUME T # {} PROVE FALSE
  <2>1. PICK s \in T : \A t \in T : ~(t \subseteq s /\ t # s)
    BY <1>0, <1>1, SmallestSet DEF Summable
  <2> USE DEF T
  <2>2. Over(f, s) # Over(f, s \cap P) /\ s \cap P # s
    OBVIOUS
  <2>3. PICK x \in s : x \notin P
    BY <2>2
  <2>4. Over(f, s \ {x}) = Over(f, (s \ {x}) \cap P)
    BY <2>1
  <2>5. (s \ {x}) \cap P = s \cap P
    BY <2>3
  <2>6. Summable(f, s) /\ Summable(f, s \ {x})
    BY PartSummable
  <2>7. Over(f, s) = f[x] + Over(f, s \ {x})
    BY <2>6, SumRemove
  <2>8. f[x] = 0 /\ Over(f, s \ {x}) \in Int
    BY <2>3, <2>6, SumType
  <2> HIDE DEF T
  <2> QED
    <3> DEFINE a == Over(f, s \ {x})
    <3>1. a \in Int /\ Over(f, s) = 0 + a /\ Over(f, s \cap P) = a
      BY <2>4, <2>5, <2>7, <2>8
    <3> HIDE DEF a
    <3> QED
      BY <2>2, <3>1
<1>2. S \cap P = P
  OBVIOUS
<1> QED
  BY <1>1, <1>2 DEF T

(* Sums over different sets whose summands can be matched one by one are   *)
(* equal, whatever zeros one of them has besides.                          *)
LEMMA SumMatch ==
  ASSUME NEW f, NEW S, Summable(f, S),
         NEW h, NEW U, Summable(h, U),
         NEW g,
         \A x \in S : g[x] \in U /\ h[g[x]] = f[x],
         \A x, y \in S : g[x] = g[y] => x = y,
         \A y \in U : (\A x \in S : g[x] # y) => h[y] = 0
  PROVE  Over(f, S) = Over(h, U)
<1> DEFINE Image(s) == {y \in U : \E x \in s : g[x] = y}
<1> DEFINE T == {s \in SUBSET S : Over(f, s) # Over(h, Image(s))}
<1>0. T \in SUBSET SUBSET S
  OBVIOUS
<1> HIDE DEF T
<1>1. ASSUME T # {} PROVE FALSE
  <2>1. PICK s \in T : \A t \in T : ~(t \subseteq s /\ t # s)
    BY <1>0, <1>1, SmallestSet DEF Summable
  <2>2. s # {}
    <3>1. Image({}) = {}
      OBVIOUS
    <3> HIDE DEF Image
    <3> QED
      BY <3>1, SumEmpty DEF T
  <2>3. PICK x \in s : TRUE
    BY <2>2
  <2>4. s \in SUBSET S
    BY DEF T
  <2>5. g[x] \in Image(s) /\ Image(s) \ {g[x]} = Image(s \ {x})
    BY <2>3, <2>4
  <2>6. Image(s) \in SUBSET U
    OBVIOUS
  <2> HIDE DEF Image
  <2>7. Over(f, s \ {x}) = Over(h, Image(s \ {x}))
    BY <2>1, <2>3, <2>4 DEF T
  <2>8. Over(f, s) = f[x] + Over(f, s \ {x})
    BY <2>4, PartSummable, SumRemove
  <2>9. Over(h, Image(s)) = h[g[x]] + Over(h, Image(s) \ {g[x]})
    BY <2>5, <2>6, PartSummable, SumRemove
  <2> QED
    BY <2>4, <2>5, <2>7, <2>8, <2>9 DEF T
<1>2. Over(f, S) = Over(h, Image(S))
  BY <1>1 DEF T
<1>3. Image(S) \in SUBSET U /\ \A y \in U \ Image(S) : h[y] = 0
  OBVIOUS
<1> HIDE DEF Image
<1> QED
  BY <1>2, <1>3, SumZeros

(* Turning every summand round turns the sum round.                        *)
LEMMA SumNegated ==
  ASSUME NEW f, NEW S, Summable(f, S), NEW g, \A x \in S : g[x] = -f[x]
  PROVE  Over(g, S) = -Over(f, S)
<1> DEFINE T == {s \in SUBSET S : Over(g, s) # -Over(f, s)}
<1>0. T \in SUBSET SUBSET S /\ Summable(g, S)
  BY DEF Summable
<1> HIDE DEF T
<1>1. ASSUME T # {} PROVE FALSE
  <2>1. PICK s \in T : \A t \in T : ~(t \subseteq s /\ t # s)
    BY <1>0, <1>1, SmallestSet DEF Summable
  <2>2. s \in SUBSET S /\ Over(g, s) # -Over(f, s)
    BY DEF T
  <2>3. s # {}
    BY <2>2, SumEmpty
  <2>4. PICK x \in s : TRUE
    BY <2>3
  <2>5. Summable(f, s) /\ Summable(g, s) /\ x \in S
    BY <1>0, <2>2, <2>4, PartSummable
  <2>6. Over(f, s) = f[x] + Over(f, s \ {x}) /\ Over(g, s) = g[x] + Over(g, s \ {x})
    BY <2>4, <2>5, SumRemove
  <2>7. s \ {x} \notin T
    BY <2>1, <2>4
  <2>8. Over(g, s \ {x}) = -Over(f, s \ {x})
    BY <2>2, <2>7 DEF T
  <2>9. Over(f, s \ {x}) \in Int /\ f[x] \in Int /\ g[x] = -f[x]
    <3>1. Summable(f, s \ {x})
      BY <2>5, PartSummable
    <3> QED
      BY <2>5, <3>1, SumType DEF Summable
  <2> QED
    BY <2>2, <2>6, <2>8, <2>9
<1> QED
  BY <1>1 DEF T

-----------------------------------------------------------------------------
(* The posting rules.                                                      *)

Money == [type : EntryTypes, amount : Nat, charge : Nat]

(* The inputs of the six rules, whatever books and wallets there are.       *)
EntryDrafts(P) ==
  [rule : {"CASHBOOK_ENTRY"}, book : P, linked : BOOLEAN, wallet : P, money : Money,
   settles : ObligationTypes \union {"NOTHING"}]
WalletDrafts(P)     == [rule : {"ACCOUNT_TRANSACTION"}, wallet : P, money : Money]
OpeningDrafts(P)    == [rule : {"ACCOUNT_OPENING"}, wallet : P, signed : Int]
TransferDrafts(P)   == [rule : {"ACCOUNT_TRANSFER"}, from : P, to : P, amount : Nat, fee : Nat]
ObligationDrafts    == [rule : {"OBLIGATION", "WRITE_OFF"}, type : ObligationTypes, amount : Nat]

Drafts(P) == EntryDrafts(P) \union WalletDrafts(P) \union OpeningDrafts(P)
               \union TransferDrafts(P) \union ObligationDrafts

LEMMA EntryBalances ==
  ASSUME NEW P, NEW d \in EntryDrafts(P)
  PROVE  Balanced(Legs(d))
<1>1. Legs(d) = EntryLegs(d) /\ d.money.amount \in Nat /\ d.money.charge \in Nat
  BY DEF EntryDrafts, Money, Legs
<1>2. Settles(d, "RECEIVABLE") \in Int /\ Settles(d, "PAYABLE") \in Int
  BY <1>1 DEF Settles
<1>3. Balanced(IncomeLegs(d))
  BY <1>1, <1>2 DEF Balanced, TotalDebit, TotalCredit, IncomeLegs, Dr, Cr
<1>4. Balanced(ExpenseLegs(d))
  BY <1>1, <1>2 DEF Balanced, TotalDebit, TotalCredit, ExpenseLegs, Dr, Cr
<1> QED
  BY <1>1, <1>3, <1>4 DEF EntryLegs

LEMMA WalletTxBalances ==
  ASSUME NEW P, NEW d \in WalletDrafts(P)
  PROVE  Balanced(Legs(d))
<1>1. Legs(d) = WalletTxLegs(d) /\ d.money.amount \in Nat /\ d.money.charge \in Nat
  BY DEF WalletDrafts, Money, Legs
<1> QED
  BY <1>1 DEF Balanced, TotalDebit, TotalCredit, WalletTxLegs, NoLeg, Dr, Cr

LEMMA OpeningBalances ==
  ASSUME NEW P, NEW d \in OpeningDrafts(P)
  PROVE  Balanced(Legs(d))
<1>1. Legs(d) = OpeningLegs(d) /\ d.signed \in Int
  BY DEF OpeningDrafts, Legs
<1> QED
  BY <1>1 DEF Balanced, TotalDebit, TotalCredit, OpeningLegs, NoLeg, Dr, Cr

LEMMA TransferBalances ==
  ASSUME NEW P, NEW d \in TransferDrafts(P)
  PROVE  Balanced(Legs(d))
<1>1. Legs(d) = TransferLegs(d) /\ d.amount \in Nat /\ d.fee \in Nat
  BY DEF TransferDrafts, Legs
<1> QED
  BY <1>1 DEF Balanced, TotalDebit, TotalCredit, TransferLegs, NoLeg, Dr, Cr

LEMMA ObligationBalances ==
  ASSUME NEW d \in ObligationDrafts
  PROVE  Balanced(Legs(d))
<1>1. d.amount \in Nat /\ Legs(d) \in {ObligationLegs(d), WriteOffLegs(d)}
  BY DEF ObligationDrafts, Legs
<1>2. Balanced(ObligationLegs(d)) /\ Balanced(WriteOffLegs(d))
  BY <1>1 DEF Balanced, TotalDebit, TotalCredit, ObligationLegs, WriteOffLegs, NoLeg, Dr, Cr
<1> QED
  BY <1>1, <1>2

(* Every journal a rule builds balances, so assertBalanced of               *)
(* PostingService never refuses one for its totals.                        *)
THEOREM EveryRuleBalances ==
  \A P : \A d \in Drafts(P) : Balanced(Legs(d))
BY EntryBalances, WalletTxBalances, OpeningBalances, TransferBalances, ObligationBalances
   DEF Drafts

-----------------------------------------------------------------------------
(* The references of an entry's legs name different accounts.               *)
LEMMA RefsDiffer ==
  \A p, q, k : /\ System(k) # BookCash(p) /\ System(k) # Wallet(p) /\ BookCash(p) # Wallet(q)
               /\ BookCash(p) = BookCash(q) => p = q
               /\ Wallet(p) = Wallet(q) => p = q
BY DEF System, BookCash, Wallet

(* Where the legs of an entry fall.                                        *)
LEMMA IncomeRefs ==
  ASSUME NEW d
  PROVE  LET l == IncomeLegs(d)
         IN  /\ l[1].ref = CashRef(d) /\ l[2].ref = System("TRANSACTION_FEES")
             /\ l[3].ref = System("AR") /\ l[4].ref = System("DEFERRED_REVENUE")
             /\ l[5].ref = System("SALES_REVENUE")
BY DEF IncomeLegs, Dr, Cr

LEMMA ExpenseRefs ==
  ASSUME NEW d
  PROVE  LET l == ExpenseLegs(d)
         IN  /\ l[1].ref = System("AP") /\ l[2].ref = System("DEFERRED_EXPENSE")
             /\ l[3].ref = System("GENERAL_EXPENSES") /\ l[4].ref = System("TRANSACTION_FEES")
             /\ l[5].ref = CashRef(d)
BY DEF ExpenseLegs, Dr, Cr

(* An income entry moves its own cash account by amount less charge, an     *)
(* expense entry by minus amount and charge, and no other cash account.     *)
LEMMA EntryCash ==
  ASSUME NEW P, NEW d \in EntryDrafts(P), NEW p
  PROVE  CashDelta(d, p) = IF CashRef(d) \in {BookCash(p), Wallet(p)} THEN WalletDelta(d.money) ELSE 0
<1> DEFINE refs == {BookCash(p), Wallet(p)}
<1>1. /\ Legs(d) = EntryLegs(d) /\ d.money.amount \in Nat /\ d.money.charge \in Nat
      /\ d.money.type \in {"INCOME", "EXPENSE"}
  BY DEF EntryDrafts, Money, Legs, EntryTypes
<1>2. \A k : System(k) \notin refs
  BY RefsDiffer
<1>3. CASE d.money.type = "INCOME"
  <2> DEFINE l == IncomeLegs(d)
  <2>1. Net(l[1]) = d.money.amount - d.money.charge
    BY <1>1 DEF Net, IncomeLegs, Dr, Cr
  <2>2. NetOn(l, 2, refs) = 0 /\ NetOn(l, 3, refs) = 0 /\ NetOn(l, 4, refs) = 0 /\ NetOn(l, 5, refs) = 0
    BY <1>2, IncomeRefs DEF NetOn
  <2>3. NetOn(l, 1, refs) = IF CashRef(d) \in refs THEN d.money.amount - d.money.charge ELSE 0
    BY <2>1, IncomeRefs DEF NetOn
  <2>4. Legs(d) = l
    BY <1>1, <1>3 DEF EntryLegs
  <2> HIDE DEF l, refs
  <2>5. DeltaOn(l, refs) = IF CashRef(d) \in refs THEN d.money.amount - d.money.charge ELSE 0
    BY <1>1, <2>2, <2>3 DEF DeltaOn
  <2> QED
    BY <1>3, <2>4, <2>5 DEF CashDelta, WalletDelta, EffectiveCash, refs
<1>4. CASE d.money.type = "EXPENSE"
  <2> DEFINE l == ExpenseLegs(d)
  <2>1. Net(l[5]) = -(d.money.amount + d.money.charge)
    BY <1>1 DEF Net, ExpenseLegs, Dr, Cr
  <2>2. NetOn(l, 1, refs) = 0 /\ NetOn(l, 2, refs) = 0 /\ NetOn(l, 3, refs) = 0 /\ NetOn(l, 4, refs) = 0
    BY <1>2, ExpenseRefs DEF NetOn
  <2>3. NetOn(l, 5, refs) = IF CashRef(d) \in refs THEN -(d.money.amount + d.money.charge) ELSE 0
    BY <2>1, ExpenseRefs DEF NetOn
  <2>4. Legs(d) = l
    BY <1>1, <1>4 DEF EntryLegs
  <2> HIDE DEF l, refs
  <2>5. DeltaOn(l, refs) = IF CashRef(d) \in refs THEN -(d.money.amount + d.money.charge) ELSE 0
    BY <1>1, <2>2, <2>3 DEF DeltaOn
  <2> QED
    BY <1>4, <2>4, <2>5 DEF CashDelta, WalletDelta, EffectiveCash, refs
<1> QED
  BY <1>1, <1>3, <1>4

(* The activity accounts, and that no other leg of an entry falls on them.  *)
LEMMA ActivityRefs ==
  ASSUME NEW d
  PROVE  /\ CashRef(d) \notin IncomeAccounts /\ CashRef(d) \notin ExpenseAccounts
         /\ \A k \in {"AR", "AP", "DEFERRED_REVENUE", "DEFERRED_EXPENSE"} :
              System(k) \notin IncomeAccounts /\ System(k) \notin ExpenseAccounts
         /\ System("SALES_REVENUE") \in IncomeAccounts
         /\ System("SALES_REVENUE") \notin ExpenseAccounts
         /\ \A k \in {"GENERAL_EXPENSES", "TRANSACTION_FEES"} :
              System(k) \in ExpenseAccounts /\ System(k) \notin IncomeAccounts
<1>1. \A i, k : System(i) = System(k) => i = k
  BY DEF System
<1>2. \A k : CashRef(d) # System(k)
  BY RefsDiffer DEF CashRef
<1> QED
  BY <1>1, <1>2 DEF IncomeAccounts, ExpenseAccounts

(* An entry moves the totals of its book by what money.ts says of it.       *)
LEMMA EntryActivity ==
  ASSUME NEW P, NEW d \in EntryDrafts(P)
  PROVE  /\ -DeltaOn(Legs(d), IncomeAccounts) = IncomeDelta(d.money)
         /\ DeltaOn(Legs(d), ExpenseAccounts) = ExpenseDelta(d.money)
<1> DEFINE a == d.money.amount
           c == d.money.charge
<1>1. Legs(d) = EntryLegs(d) /\ a \in Nat /\ c \in Nat /\ d.money.type \in {"INCOME", "EXPENSE"}
  BY DEF EntryDrafts, Money, Legs, EntryTypes
<1>2. CASE d.money.type = "INCOME"
  <2> DEFINE l == IncomeLegs(d)
  <2>1. Net(l[2]) = c /\ Net(l[5]) = -a
    BY <1>1 DEF Net, IncomeLegs, Dr, Cr
  <2>2. /\ NetOn(l, 1, IncomeAccounts) = 0 /\ NetOn(l, 2, IncomeAccounts) = 0
        /\ NetOn(l, 3, IncomeAccounts) = 0 /\ NetOn(l, 4, IncomeAccounts) = 0
        /\ NetOn(l, 5, IncomeAccounts) = -a
    BY <2>1, IncomeRefs, ActivityRefs DEF NetOn
  <2>3. /\ NetOn(l, 1, ExpenseAccounts) = 0 /\ NetOn(l, 2, ExpenseAccounts) = c
        /\ NetOn(l, 3, ExpenseAccounts) = 0 /\ NetOn(l, 4, ExpenseAccounts) = 0
        /\ NetOn(l, 5, ExpenseAccounts) = 0
    BY <2>1, IncomeRefs, ActivityRefs DEF NetOn
  <2>4. Legs(d) = l
    BY <1>1, <1>2 DEF EntryLegs
  <2> HIDE DEF l
  <2>5. DeltaOn(l, IncomeAccounts) = -a /\ DeltaOn(l, ExpenseAccounts) = c
    BY <1>1, <2>2, <2>3 DEF DeltaOn
  <2> QED
    BY <1>1, <1>2, <2>4, <2>5 DEF IncomeDelta, ExpenseDelta
<1>3. CASE d.money.type = "EXPENSE"
  <2> DEFINE l == ExpenseLegs(d)
  <2>1. Net(l[3]) = a /\ Net(l[4]) = c
    BY <1>1 DEF Net, ExpenseLegs, Dr, Cr
  <2>2. /\ NetOn(l, 1, IncomeAccounts) = 0 /\ NetOn(l, 2, IncomeAccounts) = 0
        /\ NetOn(l, 3, IncomeAccounts) = 0 /\ NetOn(l, 4, IncomeAccounts) = 0
        /\ NetOn(l, 5, IncomeAccounts) = 0
    BY ExpenseRefs, ActivityRefs DEF NetOn
  <2>3. /\ NetOn(l, 1, ExpenseAccounts) = 0 /\ NetOn(l, 2, ExpenseAccounts) = 0
        /\ NetOn(l, 3, ExpenseAccounts) = a /\ NetOn(l, 4, ExpenseAccounts) = c
        /\ NetOn(l, 5, ExpenseAccounts) = 0
    BY <2>1, ExpenseRefs, ActivityRefs DEF NetOn
  <2>4. Legs(d) = l
    BY <1>1, <1>3 DEF EntryLegs
  <2> HIDE DEF l
  <2>5. DeltaOn(l, IncomeAccounts) = 0 /\ DeltaOn(l, ExpenseAccounts) = a + c
    BY <1>1, <2>2, <2>3 DEF DeltaOn
  <2>6. IncomeDelta(d.money) = 0 /\ ExpenseDelta(d.money) = a + c
    BY <1>3 DEF IncomeDelta, ExpenseDelta
  <2>7. -DeltaOn(l, IncomeAccounts) = 0
    <3>1. \A x \in Int : -x = 0 - x
      OBVIOUS
    <3>2. DeltaOn(l, IncomeAccounts) \in Int /\ 0 - DeltaOn(l, IncomeAccounts) = 0
      BY <2>5
    <3>3. -DeltaOn(l, IncomeAccounts) = 0 - DeltaOn(l, IncomeAccounts)
      BY <3>1, <3>2, Zenon
    <3> QED
      BY <3>2, <3>3, Zenon
  <2> QED
    BY <2>4, <2>5, <2>6, <2>7
<1> QED
  BY <1>1, <1>2, <1>3

(* The cached columns can be kept from the ledger lines alone: for every    *)
(* entry the deltas of deltasFromLines are those of cashbookBalanceDelta,   *)
(* walletCashDelta, incomeActivityDelta and expenseActivityDelta, which the *)
(* code used before there was a ledger and integrity.service.ts still       *)
(* recomputes from.                                                        *)
THEOREM LinesAgreeWithMoney ==
  \A P : \A d \in EntryDrafts(P), p, b \in P :
    /\ CashDelta(d, p) =
         (IF d.linked THEN (IF p = d.wallet THEN WalletDelta(d.money) ELSE 0)
                      ELSE (IF p = d.book THEN BookDelta(d.money, FALSE) ELSE 0))
    /\ TotalIncome(d, b) = (IF b = d.book THEN IncomeDelta(d.money) ELSE 0)
    /\ TotalExpense(d, b) = (IF b = d.book THEN ExpenseDelta(d.money) ELSE 0)
<1> SUFFICES ASSUME NEW P, NEW d \in EntryDrafts(P), NEW p \in P, NEW b \in P
             PROVE  /\ CashDelta(d, p) =
                         (IF d.linked THEN (IF p = d.wallet THEN WalletDelta(d.money) ELSE 0)
                                      ELSE (IF p = d.book THEN BookDelta(d.money, FALSE) ELSE 0))
                    /\ TotalIncome(d, b) = (IF b = d.book THEN IncomeDelta(d.money) ELSE 0)
                    /\ TotalExpense(d, b) = (IF b = d.book THEN ExpenseDelta(d.money) ELSE 0)
  OBVIOUS
<1>1. CashDelta(d, p) = IF CashRef(d) \in {BookCash(p), Wallet(p)} THEN WalletDelta(d.money) ELSE 0
  BY EntryCash
<1>2. CashRef(d) \in {BookCash(p), Wallet(p)} <=> IF d.linked THEN p = d.wallet ELSE p = d.book
  BY RefsDiffer DEF CashRef
<1>3. CashDelta(d, p) =
        (IF d.linked THEN (IF p = d.wallet THEN WalletDelta(d.money) ELSE 0)
                     ELSE (IF p = d.book THEN BookDelta(d.money, FALSE) ELSE 0))
  BY <1>1, <1>2 DEF BookDelta
<1>4. d.rule = "CASHBOOK_ENTRY"
  BY DEF EntryDrafts
<1>5. TotalIncome(d, b) = (IF b = d.book THEN IncomeDelta(d.money) ELSE 0)
  BY <1>4, EntryActivity DEF TotalIncome, CountsFor
<1>6. TotalExpense(d, b) = (IF b = d.book THEN ExpenseDelta(d.money) ELSE 0)
  BY <1>4, EntryActivity DEF TotalExpense, CountsFor
<1> QED
  BY <1>3, <1>5, <1>6

-----------------------------------------------------------------------------
(* The sums over the ledger, and what post, reverse and repost do to them.  *)

(* The cash on the ledger is a sum over the journals in force ...          *)
LEMMA CashIsSum ==
  ASSUME NEW J, NEW p
  PROVE  LedgerCash(J, p) = Over([k \in Posted(J) |-> CashDelta(J[k].draft, p)], Posted(J))
<1> DEFINE S == Posted(J)
           f == [k \in S |-> CashDelta(J[k].draft, p)]
           A(h) == [s \in SUBSET S |-> IF s = {} THEN 0
                                      ELSE CashDelta(J[Pick(s)].draft, p) + h[s \ {Pick(s)}]]
           B(h) == [s \in SUBSET S |-> IF s = {} THEN 0 ELSE f[Pick(s)] + h[s \ {Pick(s)}]]
<1>1. \A s \in SUBSET S : s # {} => f[Pick(s)] = CashDelta(J[Pick(s)].draft, p)
  BY PickIn
<1>2. \A h : A(h) = B(h)
  BY <1>1
<1>3. (CHOOSE h : h = A(h)) = (CHOOSE h : h = B(h))
  BY <1>2
<1>4. LedgerCash(J, p) = (CHOOSE h : h = A(h))[S]
  BY DEF LedgerCash, MapThenSumSet, MapThenFoldSet, Pick
<1>5. Over(f, S) = (CHOOSE h : h = B(h))[S]
  BY DEF Over, MapThenSumSet, MapThenFoldSet, Pick
<1> QED
  BY <1>3, <1>4, <1>5

(* ... and so are the income ...                                            *)
LEMMA IncomeIsSum ==
  ASSUME NEW J, NEW p
  PROVE  LedgerIncome(J, p) = Over([k \in Posted(J) |-> TotalIncome(J[k].draft, p)], Posted(J))
<1> DEFINE S == Posted(J)
           f == [k \in S |-> TotalIncome(J[k].draft, p)]
           A(h) == [s \in SUBSET S |-> IF s = {} THEN 0
                                      ELSE TotalIncome(J[Pick(s)].draft, p) + h[s \ {Pick(s)}]]
           B(h) == [s \in SUBSET S |-> IF s = {} THEN 0 ELSE f[Pick(s)] + h[s \ {Pick(s)}]]
<1>1. \A s \in SUBSET S : s # {} => f[Pick(s)] = TotalIncome(J[Pick(s)].draft, p)
  BY PickIn
<1>2. \A h : A(h) = B(h)
  BY <1>1
<1>3. (CHOOSE h : h = A(h)) = (CHOOSE h : h = B(h))
  BY <1>2
<1>4. LedgerIncome(J, p) = (CHOOSE h : h = A(h))[S]
  BY DEF LedgerIncome, MapThenSumSet, MapThenFoldSet, Pick
<1>5. Over(f, S) = (CHOOSE h : h = B(h))[S]
  BY DEF Over, MapThenSumSet, MapThenFoldSet, Pick
<1> QED
  BY <1>3, <1>4, <1>5

(* ... and the expense of a book.                                           *)
LEMMA ExpenseIsSum ==
  ASSUME NEW J, NEW p
  PROVE  LedgerExpense(J, p) = Over([k \in Posted(J) |-> TotalExpense(J[k].draft, p)], Posted(J))
<1> DEFINE S == Posted(J)
           f == [k \in S |-> TotalExpense(J[k].draft, p)]
           A(h) == [s \in SUBSET S |-> IF s = {} THEN 0
                                      ELSE TotalExpense(J[Pick(s)].draft, p) + h[s \ {Pick(s)}]]
           B(h) == [s \in SUBSET S |-> IF s = {} THEN 0 ELSE f[Pick(s)] + h[s \ {Pick(s)}]]
<1>1. \A s \in SUBSET S : s # {} => f[Pick(s)] = TotalExpense(J[Pick(s)].draft, p)
  BY PickIn
<1>2. \A h : A(h) = B(h)
  BY <1>1
<1>3. (CHOOSE h : h = A(h)) = (CHOOSE h : h = B(h))
  BY <1>2
<1>4. LedgerExpense(J, p) = (CHOOSE h : h = A(h))[S]
  BY DEF LedgerExpense, MapThenSumSet, MapThenFoldSet, Pick
<1>5. Over(f, S) = (CHOOSE h : h = B(h))[S]
  BY DEF Over, MapThenSumSet, MapThenFoldSet, Pick
<1> QED
  BY <1>3, <1>4, <1>5

(* What a draft moves is a whole number of cents.                           *)
Weighs(d) == \A p : CashDelta(d, p) \in Int /\ TotalIncome(d, p) \in Int /\ TotalExpense(d, p) \in Int

Weighed(J) == IsFiniteSet(DOMAIN J) /\ \A k \in DOMAIN J : Weighs(J[k].draft)

LEMMA LedgerSumsType ==
  ASSUME NEW J, Weighed(J), NEW p
  PROVE  LedgerCash(J, p) \in Int /\ LedgerIncome(J, p) \in Int /\ LedgerExpense(J, p) \in Int
<1>1. IsFiniteSet(Posted(J))
  BY FS_Subset DEF Posted, Weighed
<1>2. \A k \in Posted(J) : Weighs(J[k].draft)
  BY DEF Posted, Weighed
<1> DEFINE S == Posted(J)
           f == [k \in S |-> CashDelta(J[k].draft, p)]
           g == [k \in S |-> TotalIncome(J[k].draft, p)]
           h == [k \in S |-> TotalExpense(J[k].draft, p)]
<1>3. Summable(f, S) /\ Summable(g, S) /\ Summable(h, S)
  BY <1>1, <1>2 DEF Summable, Weighs
<1> HIDE DEF f, g, h
<1>4. Over(f, S) \in Int /\ Over(g, S) \in Int /\ Over(h, S) \in Int
  BY <1>3, SumType
<1> QED
  BY <1>4, CashIsSum, IncomeIsSum, ExpenseIsSum DEF f, g, h

(* The journals in force after a post under a new key, and after a reverse. *)
LEMMA PostedAfter ==
  ASSUME NEW J, NEW key
  PROVE  /\ \A d : key \notin DOMAIN J =>
              /\ Posted(PostIn(J, key, d)) = Posted(J) \union {key}
              /\ key \notin Posted(J)
              /\ PostIn(J, key, d)[key].draft = d
              /\ \A k \in Posted(J) : PostIn(J, key, d)[k] = J[k]
         /\ IsPosted(J, key) =>
              /\ Posted(ReverseIn(J, key)) = Posted(J) \ {key}
              /\ key \in Posted(J)
              /\ \A k \in Posted(J) \ {key} : ReverseIn(J, key)[k] = J[k]
         /\ ~IsPosted(J, key) => ReverseIn(J, key) = J
         /\ DOMAIN ReverseIn(J, key) = DOMAIN J
BY DEF Posted, PostIn, ReverseIn, IsPosted

LEMMA PostSums ==
  ASSUME NEW J, Weighed(J), NEW key, key \notin DOMAIN J, NEW d, Weighs(d), NEW p
  PROVE  /\ LedgerCash(PostIn(J, key, d), p) = LedgerCash(J, p) + CashDelta(d, p)
         /\ LedgerIncome(PostIn(J, key, d), p) = LedgerIncome(J, p) + TotalIncome(d, p)
         /\ LedgerExpense(PostIn(J, key, d), p) = LedgerExpense(J, p) + TotalExpense(d, p)
<1> DEFINE K == PostIn(J, key, d)
           S == Posted(J)
<1>1. /\ Posted(K) = S \union {key} /\ key \notin S
      /\ K[key].draft = d /\ \A k \in S : K[k] = J[k]
  BY PostedAfter
<1>2. IsFiniteSet(S) /\ \A k \in S : Weighs(J[k].draft)
  BY FS_Subset DEF Posted, Weighed
<1> HIDE DEF K, S
<1>3. LedgerCash(K, p) = LedgerCash(J, p) + CashDelta(d, p)
  <2> DEFINE f == [k \in S |-> CashDelta(J[k].draft, p)]
             g == [k \in S \union {key} |-> CashDelta(K[k].draft, p)]
  <2>1. Summable(f, S) /\ g[key] = CashDelta(d, p) /\ g[key] \in Int /\ \A k \in S : g[k] = f[k]
    BY <1>1, <1>2 DEF Summable, Weighs
  <2> HIDE DEF f, g
  <2>2. Over(g, S \union {key}) = Over(f, S) + g[key]
    BY <1>1, <2>1, SumOneMore
  <2>3. LedgerCash(K, p) = Over(g, S \union {key}) /\ LedgerCash(J, p) = Over(f, S)
    BY <1>1, CashIsSum DEF f, g, S
  <2> QED
    BY <2>1, <2>2, <2>3
<1>4. LedgerIncome(K, p) = LedgerIncome(J, p) + TotalIncome(d, p)
  <2> DEFINE f == [k \in S |-> TotalIncome(J[k].draft, p)]
             g == [k \in S \union {key} |-> TotalIncome(K[k].draft, p)]
  <2>1. Summable(f, S) /\ g[key] = TotalIncome(d, p) /\ g[key] \in Int /\ \A k \in S : g[k] = f[k]
    BY <1>1, <1>2 DEF Summable, Weighs
  <2> HIDE DEF f, g
  <2>2. Over(g, S \union {key}) = Over(f, S) + g[key]
    BY <1>1, <2>1, SumOneMore
  <2>3. LedgerIncome(K, p) = Over(g, S \union {key}) /\ LedgerIncome(J, p) = Over(f, S)
    BY <1>1, IncomeIsSum DEF f, g, S
  <2> QED
    BY <2>1, <2>2, <2>3
<1>5. LedgerExpense(K, p) = LedgerExpense(J, p) + TotalExpense(d, p)
  <2> DEFINE f == [k \in S |-> TotalExpense(J[k].draft, p)]
             g == [k \in S \union {key} |-> TotalExpense(K[k].draft, p)]
  <2>1. Summable(f, S) /\ g[key] = TotalExpense(d, p) /\ g[key] \in Int /\ \A k \in S : g[k] = f[k]
    BY <1>1, <1>2 DEF Summable, Weighs
  <2> HIDE DEF f, g
  <2>2. Over(g, S \union {key}) = Over(f, S) + g[key]
    BY <1>1, <2>1, SumOneMore
  <2>3. LedgerExpense(K, p) = Over(g, S \union {key}) /\ LedgerExpense(J, p) = Over(f, S)
    BY <1>1, ExpenseIsSum DEF f, g, S
  <2> QED
    BY <2>1, <2>2, <2>3
<1> QED
  BY <1>3, <1>4, <1>5 DEF K

LEMMA ReverseSums ==
  ASSUME NEW J, Weighed(J), NEW key, IsPosted(J, key), NEW p
  PROVE  /\ LedgerCash(ReverseIn(J, key), p) = LedgerCash(J, p) - CashDelta(J[key].draft, p)
         /\ LedgerIncome(ReverseIn(J, key), p) = LedgerIncome(J, p) - TotalIncome(J[key].draft, p)
         /\ LedgerExpense(ReverseIn(J, key), p) = LedgerExpense(J, p) - TotalExpense(J[key].draft, p)
<1> DEFINE K == ReverseIn(J, key)
           S == Posted(J)
           d == J[key].draft
<1>1. Posted(K) = S \ {key} /\ key \in S /\ \A k \in S \ {key} : K[k] = J[k]
  BY PostedAfter
<1>2. IsFiniteSet(S) /\ \A k \in S : Weighs(J[k].draft)
  BY FS_Subset DEF Posted, Weighed
<1> HIDE DEF K, S
<1>3. LedgerCash(K, p) = LedgerCash(J, p) - CashDelta(d, p)
  <2> DEFINE f == [k \in S |-> CashDelta(J[k].draft, p)]
             g == [k \in S \ {key} |-> CashDelta(K[k].draft, p)]
  <2>1. Summable(f, S) /\ f[key] = CashDelta(d, p) /\ \A k \in S \ {key} : g[k] = f[k]
    BY <1>1, <1>2 DEF Summable, Weighs
  <2> HIDE DEF f, g
  <2>2. Over(g, S \ {key}) = Over(f, S) - f[key]
    BY <1>1, <2>1, SumOneLess
  <2>3. LedgerCash(K, p) = Over(g, S \ {key}) /\ LedgerCash(J, p) = Over(f, S)
    BY <1>1, CashIsSum DEF f, g, S
  <2> QED
    BY <2>1, <2>2, <2>3
<1>4. LedgerIncome(K, p) = LedgerIncome(J, p) - TotalIncome(d, p)
  <2> DEFINE f == [k \in S |-> TotalIncome(J[k].draft, p)]
             g == [k \in S \ {key} |-> TotalIncome(K[k].draft, p)]
  <2>1. Summable(f, S) /\ f[key] = TotalIncome(d, p) /\ \A k \in S \ {key} : g[k] = f[k]
    BY <1>1, <1>2 DEF Summable, Weighs
  <2> HIDE DEF f, g
  <2>2. Over(g, S \ {key}) = Over(f, S) - f[key]
    BY <1>1, <2>1, SumOneLess
  <2>3. LedgerIncome(K, p) = Over(g, S \ {key}) /\ LedgerIncome(J, p) = Over(f, S)
    BY <1>1, IncomeIsSum DEF f, g, S
  <2> QED
    BY <2>1, <2>2, <2>3
<1>5. LedgerExpense(K, p) = LedgerExpense(J, p) - TotalExpense(d, p)
  <2> DEFINE f == [k \in S |-> TotalExpense(J[k].draft, p)]
             g == [k \in S \ {key} |-> TotalExpense(K[k].draft, p)]
  <2>1. Summable(f, S) /\ f[key] = TotalExpense(d, p) /\ \A k \in S \ {key} : g[k] = f[k]
    BY <1>1, <1>2 DEF Summable, Weighs
  <2> HIDE DEF f, g
  <2>2. Over(g, S \ {key}) = Over(f, S) - f[key]
    BY <1>1, <2>1, SumOneLess
  <2>3. LedgerExpense(K, p) = Over(g, S \ {key}) /\ LedgerExpense(J, p) = Over(f, S)
    BY <1>1, ExpenseIsSum DEF f, g, S
  <2> QED
    BY <2>1, <2>2, <2>3
<1> QED
  BY <1>3, <1>4, <1>5 DEF K, d

(* A draft posted under a new key, with its deltas added to the caches:     *)
(* they go on agreeing.                                                     *)
LEMMA PostFollows ==
  ASSUME NEW J, Weighed(J), NEW C, CachesEqualLedger(J, C),
         NEW key, key \notin DOMAIN J, NEW d, Weighs(d)
  PROVE  /\ Weighed(PostIn(J, key, d))
         /\ CachesEqualLedger(PostIn(J, key, d), AddDeltas(C, d, 1))
<1>1. \A p : CashDelta(d, p) \in Int /\ TotalIncome(d, p) \in Int /\ TotalExpense(d, p) \in Int
  BY DEF Weighs
<1>2. Weighed(PostIn(J, key, d))
  BY FS_AddElement DEF Weighed, PostIn
<1> QED
  BY <1>1, <1>2, PostSums, LedgerSumsType DEF CachesEqualLedger, AddDeltas

(* The same for a journal reversed, or found reversed or missing.           *)
LEMMA ReverseFollows ==
  ASSUME NEW J, Weighed(J), NEW C, CachesEqualLedger(J, C), NEW key
  PROVE  /\ Weighed(ReverseIn(J, key))
         /\ CachesEqualLedger(ReverseIn(J, key), CachesAfterReverse(J, C, key))
<1>1. CASE IsPosted(J, key)
  <2> DEFINE d == J[key].draft
  <2>1. Weighs(d)
    BY <1>1 DEF IsPosted, Weighed
  <2>2. \A p : CashDelta(d, p) \in Int /\ TotalIncome(d, p) \in Int /\ TotalExpense(d, p) \in Int
    BY <2>1 DEF Weighs
  <2>3. Weighed(ReverseIn(J, key))
    BY <1>1 DEF Weighed, ReverseIn
  <2>4. CachesAfterReverse(J, C, key) = AddDeltas(C, d, -1)
    BY <1>1 DEF CachesAfterReverse
  <2>5. \A p : /\ LedgerCash(ReverseIn(J, key), p) = LedgerCash(J, p) - CashDelta(d, p)
               /\ LedgerIncome(ReverseIn(J, key), p) = LedgerIncome(J, p) - TotalIncome(d, p)
               /\ LedgerExpense(ReverseIn(J, key), p) = LedgerExpense(J, p) - TotalExpense(d, p)
    BY <1>1, ReverseSums
  <2> HIDE DEF d
  <2>6. CachesEqualLedger(ReverseIn(J, key), AddDeltas(C, d, -1))
    BY <2>2, <2>5, LedgerSumsType DEF CachesEqualLedger, AddDeltas
  <2> QED
    BY <2>3, <2>4, <2>6
<1>2. CASE ~IsPosted(J, key)
  BY <1>2 DEF ReverseIn, CachesAfterReverse
<1> QED
  BY <1>1, <1>2

(* And for a repost.                                                        *)
LEMMA RepostFollows ==
  ASSUME NEW J, Weighed(J), NEW C, CachesEqualLedger(J, C),
         NEW old, NEW new, new \notin DOMAIN J, NEW d, Weighs(d)
  PROVE  /\ Weighed(Repost(J, old, new, d))
         /\ CachesEqualLedger(Repost(J, old, new, d), CachesAfterRepost(J, C, old, d))
<1>1. new \notin DOMAIN ReverseIn(J, old)
  BY PostedAfter
<1> QED
  BY <1>1, ReverseFollows, PostFollows DEF Repost, CachesAfterRepost
=============================================================================
