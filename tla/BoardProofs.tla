---------------------------- MODULE BoardProofs ----------------------------
(***************************************************************************)
(* Proofs about one player's cards (Board.tla) and the worlds sampled for  *)
(* an observer (Observe.tla), for any games, hand and Shield counts, and   *)
(* limit of the battle area.                                               *)
(***************************************************************************)
EXTENDS Observe, FiniteSetTheorems, SequenceTheorems, WellFoundedInduction, TLAPS

-----------------------------------------------------------------------------
(* Induction on numbers and on finite sets; folds.                         *)

\* A set of numbers that is not empty has a least one.
LEMMA Least ==
  ASSUME NEW T, T \subseteq Nat, T # {}
  PROVE  \E x \in T : \A y \in T : x <= y
  <1> DEFINE R == {ss \in Nat \X Nat : ss[1] < ss[2]}
  <1>1. IsWellFoundedOn(R, Nat)
    BY NatLessThanWellFounded DEF OpToRel
  <1> HIDE DEF R
  <1>2. PICK x \in T : \A y \in T : ~ (<<y, x>> \in R)
    BY <1>1, WFMin
  <1>3. \A y \in T : ~(y < x)
    BY <1>2 DEF R
  <1> QED BY <1>3

\* A set with 0 and every next number has all numbers.
LEMMA AllNumbers ==
  ASSUME NEW T, T \subseteq Nat, 0 \in T, \A n \in T : n + 1 \in T
  PROVE  T = Nat
  <1> SUFFICES ASSUME Nat \ T # {} PROVE FALSE
    OBVIOUS
  <1>1. PICK x \in Nat \ T : \A y \in Nat \ T : x <= y
    BY Least
  <1>2. x - 1 \in Nat /\ x - 1 \notin Nat \ T
    BY <1>1
  <1> QED BY <1>1, <1>2

\* A set of subsets of S that has every one whose smaller ones it has, has all.
LEMMA AllSubsets ==
  ASSUME NEW S, IsFiniteSet(S), NEW T,
         \A s \in SUBSET S : (\A y \in s : s \ {y} \in T) => s \in T
  PROVE  SUBSET S \subseteq T
  <1> DEFINE bad == {s \in SUBSET S : s \notin T}
             sizes == {Cardinality(s) : s \in bad}
  <1> SUFFICES ASSUME bad # {} PROVE FALSE
    OBVIOUS
  <1>1. sizes \subseteq Nat /\ sizes # {}
    BY FS_Subset, FS_CardinalityType
  <1>2. PICK n \in sizes : \A mm \in sizes : n <= mm
    BY <1>1, Least
  <1>3. PICK s \in bad : n = Cardinality(s)
    BY <1>2
  <1>4. IsFiniteSet(s) /\ Cardinality(s) \in Nat
    BY <1>3, FS_Subset, FS_CardinalityType
  <1>5. ASSUME NEW y \in s PROVE s \ {y} \in T
    <2>1. Cardinality(s \ {y}) = Cardinality(s) - 1
      BY <1>4, FS_RemoveElement
    <2>2. s \ {y} \in SUBSET S /\ ~(n <= Cardinality(s \ {y}))
      BY <1>3, <1>4, <2>1
    <2> QED BY <1>2, <2>2
  <1> QED BY <1>3, <1>5

\* A recursive function over the subsets of S that takes apart a set at c.
Folded(h, S, c, G, base) ==
  [T \in SUBSET S |-> IF T = {} THEN base ELSE G[<<c[T], h[T \ {c[T]}]>>]]

\* There is such a function.
LEMMA FoldExists ==
  ASSUME NEW S, IsFiniteSet(S), NEW G, NEW base,
         NEW c, \A T \in SUBSET S : T # {} => c[T] \in T
  PROVE  \E h : h = Folded(h, S, c, G, base)
  <1> DEFINE Small(n) == {s \in SUBSET S : Cardinality(s) <= n}
             Next1(g, n) == [s \in Small(n) |-> IF s = {} THEN base ELSE G[<<c[s], g[s \ {c[s]}]>>]]
             N == {n \in Nat : \E g : g = Next1(g, n)}
  <1>1. \A s \in SUBSET S : IsFiniteSet(s) /\ Cardinality(s) \in Nat /\ Cardinality(s) <= Cardinality(S)
    BY FS_Subset, FS_CardinalityType
  <1>2. \A s \in SUBSET S : \A x \in s : s \ {x} \in SUBSET S /\ Cardinality(s \ {x}) = Cardinality(s) - 1
    BY <1>1, FS_RemoveElement
  <1>3. 0 \in N
    <2> DEFINE g == [s \in Small(0) |-> base]
    <2>1. \A s \in Small(0) : s = {}
      BY <1>1, FS_EmptySet
    <2>2. g = Next1(g, 0)
      BY <2>1
    <2> QED BY <2>2
  <1>4. ASSUME NEW n \in N PROVE n + 1 \in N
    <2>1. PICK g : g = Next1(g, n)
      OBVIOUS
    <2> DEFINE h == Next1(g, n + 1)
    <2>2. ASSUME NEW s \in Small(n + 1), s # {}
          PROVE  s \ {c[s]} \in Small(n)
      <3>1. c[s] \in s
        BY <2>2
      <3>2. s \in SUBSET S /\ Cardinality(s) <= n + 1 /\ Cardinality(s) \in Nat /\ n \in Nat
        BY <1>1
      <3>3. s \ {c[s]} \in SUBSET S /\ Cardinality(s \ {c[s]}) = Cardinality(s) - 1
        BY <1>2, <3>1, <3>2
      <3> QED BY <3>2, <3>3
    <2>3. ASSUME NEW s \in Small(n) PROVE h[s] = g[s] /\ s \in Small(n + 1)
      <3>1. s \in Small(n + 1)
        BY <1>1
      <3> QED BY <2>1, <3>1
    <2>4. h = Next1(h, n + 1)
      <3>1. ASSUME NEW s \in Small(n + 1) PROVE h[s] = Next1(h, n + 1)[s]
        <4>1. CASE s = {}
          BY <4>1
        <4>2. CASE s # {}
          <5>1. h[s \ {c[s]}] = g[s \ {c[s]}]
            BY <2>2, <2>3, <4>2
          <5> QED BY <4>2, <5>1
        <4> QED BY <4>1, <4>2
      <3> HIDE DEF Small
      <3> QED BY <3>1
    <2> HIDE DEF h, Next1, Small
    <2> QED BY <2>4
  <1> HIDE DEF N
  <1>5a. N \subseteq Nat
    BY DEF N
  <1> HIDE DEF Next1, Small
  <1>5. N = Nat
    BY <1>3, <1>4, <1>5a, AllNumbers
  <1>6. PICK g : g = Next1(g, Cardinality(S))
    BY <1>5, FS_CardinalityType DEF N
  <1>7. Small(Cardinality(S)) = SUBSET S
    BY <1>1 DEF Small
  <1>8. g = Folded(g, S, c, G, base)
    BY <1>6, <1>7 DEF Next1, Folded
  <1> QED BY <1>8

\* A set of numbers up to n has a greatest one.
LEMMA Greatest ==
  ASSUME NEW n \in Nat, NEW T \in SUBSET (1 .. n), T # {}
  PROVE  Max(T) \in T /\ \A y \in T : Max(T) >= y
  <1> DEFINE D == {n - y : y \in T}
  <1>1. D \subseteq Nat /\ D # {}
    OBVIOUS
  <1>2. PICK d \in D : \A e \in D : d <= e
    BY <1>1, Least
  <1>3. PICK x \in T : d = n - x
    BY <1>2
  <1>4. \A y \in T : x >= y
    <2> SUFFICES ASSUME NEW y \in T PROVE x >= y
      OBVIOUS
    <2>1. n - y \in D /\ x \in Int /\ y \in Int
      OBVIOUS
    <2> QED BY <1>2, <1>3, <2>1
  <1>5. \E z \in T : \A y \in T : z >= y
    BY <1>4
  <1> QED BY <1>5 DEF Max

-----------------------------------------------------------------------------
(* Lists of cards.                                                         *)

Distinct(l) == \A i, j \in 1 .. Len(l) : l[i] = l[j] => i = j

\* A list's elements are what stands at its places.
LEMMA Elements ==
  ASSUME NEW S, NEW l \in Seq(S)
  PROVE  /\ ToSet(l) \subseteq S
         /\ \A i \in 1 .. Len(l) : l[i] \in ToSet(l)
         /\ \A u \in ToSet(l) : \E i \in 1 .. Len(l) : l[i] = u
  BY DEF ToSet

\* A list without the element at one of its places.
LEMMA RemoveAtIs ==
  ASSUME NEW S, NEW l \in Seq(S), NEW k \in 1 .. Len(l)
  PROVE  /\ RemoveAt(l, k) \in Seq(S) /\ Len(RemoveAt(l, k)) = Len(l) - 1
         /\ \A i \in 1 .. Len(l) - 1 : RemoveAt(l, k)[i] = IF i < k THEN l[i] ELSE l[i + 1]
  <1> DEFINE a == SubSeq(l, 1, k - 1)
             b == SubSeq(l, k + 1, Len(l))
  <1>1. Len(l) \in Nat /\ k \in Nat /\ 1 <= k /\ k <= Len(l)
    OBVIOUS
  <1>2. a \in Seq(S) /\ Len(a) = k - 1 /\ \A i \in 1 .. k - 1 : a[i] = l[i]
    BY <1>1
  <1>3. b \in Seq(S) /\ Len(b) = Len(l) - k /\ \A i \in 1 .. Len(l) - k : b[i] = l[i + k]
    BY <1>1
  <1> HIDE DEF a, b
  <1>4. a \o b \in Seq(S) /\ Len(a \o b) = Len(l) - 1
    <2>1. a \o b \in Seq(S) /\ Len(a \o b) = Len(a) + Len(b)
      BY <1>2, <1>3, ConcatProperties
    <2> QED BY <1>1, <1>2, <1>3, <2>1
  <1>5. ASSUME NEW i \in 1 .. Len(l) - 1 PROVE (a \o b)[i] = IF i < k THEN l[i] ELSE l[i + 1]
    <2>1. CASE i < k
      BY <1>1, <1>2, <1>3, <2>1
    <2>2. CASE ~(i < k)
      <3>1. (a \o b)[i] = b[i - Len(a)]
        BY <1>1, <1>2, <1>3, <2>2
      <3>2. i - Len(a) \in 1 .. Len(l) - k /\ (i - Len(a)) + k = i + 1
        BY <1>1, <1>2, <2>2
      <3> QED BY <1>3, <2>2, <3>1, <3>2
    <2> QED BY <2>1, <2>2
  <1> QED BY <1>4, <1>5 DEF RemoveAt, a, b

\* RemoveFirst takes out the element.
LEMMA RemoveFirstIs ==
  ASSUME NEW S, NEW l \in Seq(S), Distinct(l), NEW u
  PROVE  /\ RemoveFirst(l, u) \in Seq(S) /\ Distinct(RemoveFirst(l, u))
         /\ ToSet(RemoveFirst(l, u)) = ToSet(l) \ {u}
  <1>1. CASE u \notin ToSet(l)
    BY <1>1, Elements DEF RemoveFirst
  <1>2. CASE u \in ToSet(l)
    <2>1. PICK k \in 1 .. Len(l) : l[k] = u
      BY <1>2, Elements
    <2> DEFINE I == {i \in 1 .. Len(l) : l[i] = u}
               m == RemoveAt(l, k)
    <2>2. I = {k}
      BY <2>1 DEF Distinct
    <2>3. Min(I) = k
      BY <2>2 DEF Min
    <2>4. RemoveFirst(l, u) = m
      BY <2>1, <2>2, <2>3 DEF RemoveFirst, SelectInSeq
    <2>5. /\ m \in Seq(S) /\ Len(m) = Len(l) - 1 /\ Len(l) \in Nat
          /\ \A i \in 1 .. Len(l) - 1 : m[i] = IF i < k THEN l[i] ELSE l[i + 1]
      BY RemoveAtIs
    <2> HIDE DEF m, I
    <2>6. Distinct(m)
      <3> SUFFICES ASSUME NEW i \in 1 .. Len(m), NEW j \in 1 .. Len(m), m[i] = m[j] PROVE i = j
        BY DEF Distinct
      <3>1. \A x, y \in 1 .. Len(l) : l[x] = l[y] => x = y
        BY DEF Distinct
      <3>2. i \in 1 .. Len(l) /\ i + 1 \in 1 .. Len(l) /\ j \in 1 .. Len(l) /\ j + 1 \in 1 .. Len(l)
        BY <2>5
      <3>3. i \in 1 .. Len(l) - 1 /\ j \in 1 .. Len(l) - 1
        BY <2>5
      <3> QED BY <2>5, <3>1, <3>2, <3>3
    <2>7. ASSUME NEW x \in ToSet(m) PROVE x \in ToSet(l) \ {u}
      <3>1. PICK i \in 1 .. Len(m) : m[i] = x
        BY <2>5, Elements
      <3>2. i \in 1 .. Len(l) /\ i + 1 \in 1 .. Len(l) /\ i \in 1 .. Len(l) - 1
        BY <2>5
      <3>3. PICK j \in 1 .. Len(l) : x = l[j] /\ j # k
        BY <2>5, <3>1, <3>2
      <3> QED BY <2>1, <3>3, Elements DEF Distinct
    <2>8. ASSUME NEW x \in ToSet(l) \ {u} PROVE x \in ToSet(m)
      <3>1. PICK i \in 1 .. Len(l) : l[i] = x
        BY Elements
      <3>2. i # k
        BY <2>1, <3>1
      <3>3. CASE i < k
        <4>1. i \in 1 .. Len(l) - 1 /\ m[i] = x
          BY <2>5, <3>1, <3>3
        <4> QED BY <2>5, <4>1, Elements
      <3>4. CASE i > k
        <4>1. i - 1 \in 1 .. Len(l) - 1 /\ m[i - 1] = l[(i - 1) + 1] /\ (i - 1) + 1 = i
          BY <2>5, <3>1, <3>4
        <4> QED BY <2>5, <3>1, <4>1, Elements
      <3> QED BY <3>2, <3>3, <3>4
    <2> QED BY <2>4, <2>5, <2>6, <2>7, <2>8
  <1> QED BY <1>1, <1>2

\* One list after another.
LEMMA ConcatIs ==
  ASSUME NEW S, NEW l \in Seq(S), NEW m \in Seq(S), Distinct(l), Distinct(m),
         ToSet(l) \cap ToSet(m) = {}
  PROVE  l \o m \in Seq(S) /\ Distinct(l \o m) /\ ToSet(l \o m) = ToSet(l) \cup ToSet(m)
  <1>1. /\ l \o m \in Seq(S) /\ Len(l \o m) = Len(l) + Len(m) /\ Len(l) \in Nat /\ Len(m) \in Nat
        /\ \A i \in 1 .. Len(l) + Len(m) : (l \o m)[i] = IF i <= Len(l) THEN l[i] ELSE m[i - Len(l)]
    OBVIOUS
  <1>2. ASSUME NEW i \in 1 .. Len(l) + Len(m)
        PROVE  \/ i \in 1 .. Len(l) /\ (l \o m)[i] = l[i] /\ l[i] \in ToSet(l)
               \/ /\ i > Len(l) /\ i - Len(l) \in 1 .. Len(m) /\ (l \o m)[i] = m[i - Len(l)]
                  /\ m[i - Len(l)] \in ToSet(m)
    BY <1>1, Elements
  <1>3. Distinct(l \o m)
    <2> SUFFICES ASSUME NEW i \in 1 .. Len(l) + Len(m), NEW j \in 1 .. Len(l) + Len(m),
                        (l \o m)[i] = (l \o m)[j] PROVE i = j
      BY <1>1 DEF Distinct
    <2>1. CASE i \in 1 .. Len(l) /\ j \in 1 .. Len(l)
      BY <1>1, <2>1 DEF Distinct
    <2>2. CASE i > Len(l) /\ j > Len(l)
      <3>1. i - Len(l) \in 1 .. Len(m) /\ j - Len(l) \in 1 .. Len(m) /\ m[i - Len(l)] = m[j - Len(l)]
        BY <1>1, <2>2
      <3>2. i - Len(l) = j - Len(l)
        BY <3>1 DEF Distinct
      <3> QED BY <1>1, <3>2
    <2> QED BY <1>2, <2>1, <2>2
  <1>4. ToSet(l \o m) \subseteq ToSet(l) \cup ToSet(m)
    <2> SUFFICES ASSUME NEW x \in ToSet(l \o m) PROVE x \in ToSet(l) \cup ToSet(m)
      OBVIOUS
    <2> DEFINE lm == l \o m
    <2>1. lm \in Seq(S) /\ Len(lm) = Len(l) + Len(m) /\ x \in ToSet(lm)
      BY <1>1
    <2> HIDE DEF lm
    <2>2. PICK i \in 1 .. Len(l) + Len(m) : lm[i] = x
      BY <2>1, Elements
    <2> QED BY <1>2, <2>2 DEF lm
  <1>5. ASSUME NEW x \in ToSet(l) \cup ToSet(m) PROVE x \in ToSet(l \o m)
    <2>1. CASE x \in ToSet(l)
      <3>1. PICK i \in 1 .. Len(l) : l[i] = x
        BY <2>1, Elements
      <3>2. i \in 1 .. Len(l \o m) /\ (l \o m)[i] = x
        BY <1>1, <3>1
      <3> QED BY <1>1, <3>2, Elements
    <2>2. CASE x \in ToSet(m)
      <3>1. PICK i \in 1 .. Len(m) : m[i] = x
        BY <2>2, Elements
      <3>2. Len(l) + i \in 1 .. Len(l \o m) /\ (l \o m)[Len(l) + i] = x
        BY <1>1, <3>1
      <3> QED BY <1>1, <3>2, Elements
    <2> QED BY <2>1, <2>2
  <1> QED BY <1>1, <1>3, <1>4, <1>5

\* A list of one.
LEMMA SingleIs ==
  ASSUME NEW S, NEW u \in S
  PROVE  <<u>> \in Seq(S) /\ Distinct(<<u>>) /\ ToSet(<<u>>) = {u}
  BY DEF Distinct, ToSet

\* A card put at one end.
LEMMA PutIs ==
  ASSUME NEW S, NEW l \in Seq(S), Distinct(l), NEW u \in S, u \notin ToSet(l)
  PROVE  /\ Append(l, u) \in Seq(S) /\ Distinct(Append(l, u)) /\ ToSet(Append(l, u)) = ToSet(l) \cup {u}
         /\ <<u>> \o l \in Seq(S) /\ Distinct(<<u>> \o l) /\ ToSet(<<u>> \o l) = ToSet(l) \cup {u}
  <1> DEFINE one == <<u>>
  <1>1. one \in Seq(S) /\ Distinct(one) /\ ToSet(one) = {u}
    BY SingleIs
  <1>2. Append(l, u) = l \o one
    BY AppendIsConcat
  <1> HIDE DEF one
  <1>3. ToSet(one) \cap ToSet(l) = {} /\ ToSet(l) \cap ToSet(one) = {}
    BY <1>1
  <1>4. l \o one \in Seq(S) /\ Distinct(l \o one) /\ ToSet(l \o one) = ToSet(l) \cup {u}
    BY <1>1, <1>3, ConcatIs
  <1>5. one \o l \in Seq(S) /\ Distinct(one \o l) /\ ToSet(one \o l) = ToSet(l) \cup {u}
    BY <1>1, <1>3, ConcatIs
  <1> QED BY <1>2, <1>4, <1>5 DEF one

\* The first cards of a list.
LEMMA FirstIs ==
  ASSUME NEW S, NEW l \in Seq(S), NEW n \in 0 .. Len(l)
  PROVE  SubSeq(l, 1, n) \in Seq(S) /\ ToSet(SubSeq(l, 1, n)) \subseteq ToSet(l)
  <1> DEFINE m == SubSeq(l, 1, n)
  <1>1. m \in Seq(S) /\ Len(m) = n /\ \A i \in 1 .. n : m[i] = l[i] /\ i \in 1 .. Len(l)
    OBVIOUS
  <1> HIDE DEF m
  <1>2. ToSet(m) \subseteq ToSet(l)
    BY <1>1, Elements
  <1> QED BY <1>1, <1>2 DEF m

\* The orders of a finite set have all of it.
LEMMA OrderIs ==
  ASSUME NEW S, IsFiniteSet(S), NEW l \in SetToSeqs(S)
  PROVE  l \in Seq(S) /\ Distinct(l) /\ ToSet(l) = S /\ Len(l) = Cardinality(S)
  <1>1. Cardinality(S) \in Nat
    BY FS_CardinalityType
  <1>2. /\ l \in [1 .. Cardinality(S) -> S]
        /\ \A i, j \in 1 .. Cardinality(S) : i # j => l[i] # l[j]
    BY DEF SetToSeqs
  <1>3. l \in Seq(S) /\ Len(l) = Cardinality(S)
    BY <1>1, <1>2
  <1>4. Distinct(l)
    BY <1>2, <1>3 DEF Distinct
  <1>5. l \in Injection(1 .. Cardinality(S), S)
    BY <1>2 DEF Injection, IsInjective
  <1>6. Cardinality(1 .. Cardinality(S)) = Cardinality(S)
    BY <1>1, FS_Interval
  <1>7. l \in Surjection(1 .. Cardinality(S), S)
    BY <1>5, <1>6, FS_Injection
  <1>8. ToSet(l) = S
    <2>1. \A x \in S : \E i \in 1 .. Len(l) : l[i] = x
      BY <1>3, <1>7 DEF Surjection
    <2>2. \A i \in 1 .. Len(l) : l[i] \in ToSet(l)
      BY <1>3, Elements
    <2>3. ToSet(l) \subseteq S
      BY <1>3, Elements
    <2> QED BY <2>1, <2>2, <2>3
  <1> QED BY <1>3, <1>4, <1>8

\* SetToSeq is one of them.
LEMMA SomeOrder ==
  ASSUME NEW S, IsFiniteSet(S)
  PROVE  SetToSeq(S) \in SetToSeqs(S)
  <1>1. PICK n \in Nat : ExistsBijection(1 .. n, S)
    BY FS_NatBijection
  <1>2. n = Cardinality(S)
    BY <1>1, FS_CountingElements
  <1>3. \E f \in [1 .. Cardinality(S) -> S] : IsInjective(f)
    BY <1>1, <1>2 DEF ExistsBijection, Bijection, Injection, IsInjective
  <1>4. SetToSeq(S) \in [1 .. Cardinality(S) -> S] /\ IsInjective(SetToSeq(S))
    BY <1>3 DEF SetToSeq
  <1> QED BY <1>4 DEF SetToSeqs, IsInjective

\* A list has finitely many elements.
LEMMA FewElements ==
  ASSUME NEW S, NEW l \in Seq(S)
  PROVE  IsFiniteSet(ToSet(l))
  <1>1. IsFiniteSet(1 .. Len(l)) /\ l \in [1 .. Len(l) -> S]
    BY FS_Interval
  <1>2. l \in Surjection(1 .. Len(l), ToSet(l))
    BY <1>1 DEF Surjection, ToSet
  <1> QED BY <1>1, <1>2, FS_Surjection

-----------------------------------------------------------------------------
(* The state, and what every operation keeps of it.                        *)

Zones  == ListedZones \cup {"Outside", "none"}
Events == [uid : Uids, def : Defs]

\* The states a player's cards can get to while nothing else changes.
States(s) ==
  [def : [Uids -> Defs], zone : [Uids -> Zones], rested : [Uids -> BOOLEAN], damage : [Uids -> Nat],
   pair : [Uids -> Uids \cup {NoUid}], known : [Uids -> SUBSET Players],
   list : [ListedZones -> Seq(Uids)], history : Seq(Events), battle : {s.battle},
   lasting : {s.lasting}, turn : {s.turn}, phase : {s.phase}, cache : {s.cache, {}}, task : {s.task}]

Typed(s) == s \in States(s)

\* The cards of U are listed in their zones.
Lists(lists, zone, U) ==
  \A z \in ListedZones : Distinct(lists[z]) /\ ToSet(lists[z]) = {u \in U : zone[u] = z}

Where(s) == Lists(s.list, s.zone, Uids)

\* A card with identity d and damage n that players k know can be in zone z.
FitsZone(d, z, n, k) ==
  /\ z = "Outside" => d \in Tokens
  /\ d \in Tokens => z \in {"ResourceArea", "Battle", "Outside", "none"}
  /\ d = Resource => z \in {"ResourceArea", "ResourceDeck", "none"}
  /\ n # 0 => z \in {"Battle", "Outside"}
  /\ z = "Battle" => IsUnit(d)
  /\ z \in {"ResourceArea", "ResourceDeck"} => d \in {Resource, ExResource}
  /\ z \in PublicZones \cup {"Outside"} => k = Players
  /\ z = "Hand" => Owner \in k

\* Card u of game t has one of the two faces of the card it was dealt as; a card made in
\* the game is a token.
IsDealt(t, u, d, z) ==
  /\ u \in Main(t) => z # "none" /\ base_def_id(d) = t.main[u] /\ d \notin Tokens \cup {Resource}
  /\ u \in Resources(t) => z # "none" /\ d = Resource
  /\ u \notin Main(t) \cup Resources(t) /\ z # "none" => d \in Tokens

Fit(s) ==
  \A u \in Uids : /\ FitsZone(s.def[u], s.zone[u], s.damage[u], s.known[u])
                  /\ IsDealt(table, u, s.def[u], s.zone[u])

\* A Pilot and its Unit name each other, and a Pilot in zone Paired has a Unit.
PairOf(s, u) ==
  LET p == s.pair[u] IN
  /\ s.zone[u] = "Paired" => p # NoUid
  /\ p # NoUid => /\ s.pair[p] = u
                  /\ \/ s.zone[u] = "Battle" /\ s.zone[p] = "Paired"
                     \/ s.zone[u] = "Paired" /\ s.zone[p] = "Battle"

Pairs(s) == \A u \in Uids : PairOf(s, u)

\* A kept view is older than the state, or has another key, or is its view.
Fresh(s) ==
  \A v \in s.cache : /\ v.key.n_history \in Nat /\ v.key.n_history <= Len(s.history)
                     /\ v.key = view_key(s) => v = View(s)

Whole(s) == Typed(s) /\ Where(s) /\ Fit(s) /\ Pairs(s)
Inv(s)   == Whole(s) /\ Fresh(s)

Options == [bottom : BOOLEAN, reveal : BOOLEAN, rested : BOOLEAN]

\* The fields of a state have their types.
LEMMA Fields ==
  ASSUME NEW s, Typed(s)
  PROVE  /\ s.def \in [Uids -> Defs] /\ s.zone \in [Uids -> Zones] /\ s.rested \in [Uids -> BOOLEAN]
         /\ s.damage \in [Uids -> Nat] /\ s.pair \in [Uids -> Uids \cup {NoUid}]
         /\ s.known \in [Uids -> SUBSET Players] /\ s.list \in [ListedZones -> Seq(Uids)]
         /\ s.history \in Seq(Events)
  BY DEF Typed, States

\* A card taken out of its list.
LEMMA TakenOut ==
  ASSUME NEW lists \in [ListedZones -> Seq(Uids)], NEW zone \in [Uids -> Zones], Lists(lists, zone, Uids),
         NEW u \in Uids, zone[u] \in ListedZones
  PROVE  LET r == [lists EXCEPT ![zone[u]] = RemoveFirst(@, u)] IN
         r \in [ListedZones -> Seq(Uids)] /\ Lists(r, zone, Uids \ {u})
  <1> DEFINE z == zone[u]
             m == RemoveFirst(lists[z], u)
             r == [lists EXCEPT ![z] = m]
  <1>1. m \in Seq(Uids) /\ Distinct(m) /\ ToSet(m) = ToSet(lists[z]) \ {u}
    BY RemoveFirstIs DEF Lists
  <1> HIDE DEF m
  <1>2. r \in [ListedZones -> Seq(Uids)]
    BY <1>1
  <1>3. ASSUME NEW y \in ListedZones
        PROVE  Distinct(r[y]) /\ ToSet(r[y]) = {v \in Uids \ {u} : zone[v] = y}
    <2>1. Distinct(lists[y]) /\ ToSet(lists[y]) = {v \in Uids : zone[v] = y}
      BY DEF Lists
    <2>2. CASE y = z
      <3>1. r[y] = m
        BY <2>2
      <3> QED BY <1>1, <2>1, <2>2, <3>1
    <2>3. CASE y # z
      <3>1. r[y] = lists[y]
        BY <2>3
      <3> QED BY <2>1, <2>3, <3>1
    <2> QED BY <2>2, <2>3
  <1> QED BY <1>2, <1>3 DEF Lists, m

\* A card put into a list.
LEMMA PutIn ==
  ASSUME NEW lists \in [ListedZones -> Seq(Uids)], NEW zone \in [Uids -> Zones], NEW u \in Uids,
         Lists(lists, zone, Uids \ {u}), NEW dst \in ListedZones, NEW bottom \in BOOLEAN,
         NEW z2, z2 = [zone EXCEPT ![u] = dst]
  PROVE  /\ Placed(lists, u, dst, bottom) \in [ListedZones -> Seq(Uids)]
         /\ Lists(Placed(lists, u, dst, bottom), z2, Uids)
  <1> DEFINE m == IF dst \in {"Deck", "Shield", "ResourceDeck"} /\ ~bottom
                    THEN <<u>> \o lists[dst] ELSE Append(lists[dst], u)
             r == [lists EXCEPT ![dst] = m]
  <1>1. lists[dst] \in Seq(Uids) /\ Distinct(lists[dst]) /\ u \notin ToSet(lists[dst])
    BY DEF Lists
  <1>2. m \in Seq(Uids) /\ Distinct(m) /\ ToSet(m) = ToSet(lists[dst]) \cup {u}
    BY <1>1, PutIs
  <1>3. Placed(lists, u, dst, bottom) = r
    BY DEF Placed
  <1> HIDE DEF m
  <1>4. r \in [ListedZones -> Seq(Uids)]
    BY <1>2
  <1>5. ASSUME NEW y \in ListedZones
        PROVE  Distinct(r[y]) /\ ToSet(r[y]) = {v \in Uids : z2[v] = y}
    <2>1. Distinct(lists[y]) /\ ToSet(lists[y]) = {v \in Uids \ {u} : zone[v] = y}
      BY DEF Lists
    <2>2. \A v \in Uids : z2[v] = IF v = u THEN dst ELSE zone[v]
      OBVIOUS
    <2>3. CASE y = dst
      <3>1. r[y] = m
        BY <2>3
      <3> QED BY <1>2, <2>1, <2>2, <2>3, <3>1
    <2>4. CASE y # dst
      <3>1. r[y] = lists[y]
        BY <2>4
      <3> QED BY <2>1, <2>2, <2>4, <3>1
    <2> QED BY <2>3, <2>4
  <1> QED BY <1>3, <1>4, <1>5 DEF Lists

-----------------------------------------------------------------------------
(* Moving cards.                                                           *)

\* t is s after card u alone came to zone dst, or left the game as a token.
Single(s, t, u, dst) ==
  /\ t \in States(s) /\ Where(t) /\ Fit(t)
  /\ t.pair = s.pair /\ t.history = s.history /\ t.cache = s.cache
  /\ t.zone[u] \in {dst, "Outside"}
  /\ \A v \in Uids \ {u} : t.zone[v] = s.zone[v] /\ t.def[v] = s.def[v]
  /\ base_def_id(t.def[u]) = base_def_id(s.def[u])
  /\ t.zone[u] = "Outside" => base_def_id(s.def[u]) \in Tokens /\ dst \notin TokenZones
  /\ dst = "Battle" => t.def[u] = s.def[u]

\* Where a card may come to.
MayCome(d, dst) ==
  /\ dst \in ListedZones \ {"ResourceDeck"}
  /\ dst = "Battle" => IsUnit(d)
  /\ dst = "ResourceArea" => d \in {Resource, ExResource}
  /\ d = Resource => dst = "ResourceArea"
  /\ dst = "Shield" => d \notin Tokens

\* A card is never the card it is printed as, and something else.
LEMMA PrintedIs ==
  ASSUME NEW d \in Defs
  PROVE  /\ base_def_id(d) \in Defs /\ base_def_id(base_def_id(d)) = base_def_id(d)
         /\ d \in {Resource, ExResource} => base_def_id(d) = d
         /\ base_def_id(d) \in Tokens => base_def_id(d) = d
         /\ d \in Tokens => base_def_id(d) = d
  BY DEF base_def_id, Variant, Pilot, Resource, ExResource, Tokens, UnitToken, Defs

\* A card that is turned to its other face, and is not just made, is the card it was dealt as.
LEMMA StaysDealt ==
  ASSUME NEW t, NEW u, NEW d \in Defs, NEW e \in Defs, base_def_id(e) = base_def_id(d),
         NEW z, NEW y, z = "none" <=> y = "none", IsDealt(t, u, d, z)
  PROVE  IsDealt(t, u, e, y)
  <1>1. (d \in Tokens <=> e \in Tokens) /\ (d = Resource <=> e = Resource)
    BY DEF base_def_id, Variant, Pilot, Resource, ExResource, Tokens, UnitToken, Defs
  <1> QED BY <1>1 DEF IsDealt

\* A card that comes where it may fits there.
LEMMA ComesFit ==
  ASSUME NEW d \in Defs, NEW src \in Zones, NEW dst, MayCome(d, dst), NEW n, NEW k \in SUBSET Players,
         NEW shown \in BOOLEAN, FitsZone(d, src, n, k)
  PROVE  LET e == IF dst = "Battle" THEN d ELSE base_def_id(d)
             gone == e \in Tokens /\ dst \notin TokenZones
         IN FitsZone(e, IF gone THEN "Outside" ELSE dst, 0,
                     IF gone THEN Players ELSE knowledge_on_enter(k, src, dst, shown))
  <1> DEFINE e == IF dst = "Battle" THEN d ELSE base_def_id(d)
             gone == e \in Tokens /\ dst \notin TokenZones
             l == knowledge_on_enter(k, src, dst, shown)
  <1>1. e \in Defs /\ (dst = "ResourceArea" => e \in {Resource, ExResource}) /\ (dst = "Battle" => e = d)
        /\ (e = Resource => dst = "ResourceArea") /\ (dst = "Shield" => e \notin Tokens)
    <2>1. (e = Resource => d = Resource) /\ (e \in Tokens => d \in Tokens)
      BY DEF base_def_id, Variant, Pilot, Resource, ExResource, Tokens, UnitToken, Defs
    <2> QED BY <2>1, PrintedIs DEF MayCome
  <1>2. dst \in PublicZones => l = Players
    BY DEF knowledge_on_enter, PublicZones
  <1>3. dst = "Hand" => Owner \in l
    BY DEF knowledge_on_enter, Players, PublicZones
  <1> HIDE DEF e, l
  <1>4. ASSUME gone PROVE FitsZone(e, "Outside", 0, Players)
    BY <1>1, <1>4 DEF FitsZone, Players, TokenZones
  <1>5. ASSUME ~gone PROVE FitsZone(e, dst, 0, l)
    BY <1>1, <1>2, <1>3, <1>5 DEF FitsZone, MayCome, ListedZones, HiddenZones, PublicZones, TokenZones
  <1>6. FitsZone(e, IF gone THEN "Outside" ELSE dst, 0, IF gone THEN Players ELSE l)
    BY <1>4, <1>5
  <1> QED BY <1>6 DEF e, l

\* move_single moves one card and keeps the lists.
LEMMA SingleMove ==
  ASSUME NEW s, Typed(s), Where(s), Fit(s), NEW u \in Uids, s.zone[u] # "none",
         NEW dst, MayCome(s.def[u], dst), NEW o \in Options
  PROVE  Single(s, move_single(s, u, dst, o), u, dst)
  <1> DEFINE src == s.zone[u]
             r == remove_from_zone(s, u)
             e == IF dst = "Battle" THEN s.def[u] ELSE base_def_id(s.def[u])
             gone == e \in Tokens /\ dst \notin TokenZones
             k == IF gone THEN Players ELSE knowledge_on_enter(s.known[u], src, dst, o.reveal)
             zone2 == [s.zone EXCEPT ![u] = IF gone THEN "Outside" ELSE dst]
             list1 == IF src = "Outside" THEN s.list
                      ELSE [s.list EXCEPT ![src] = RemoveFirst(@, u)]
             list2 == IF gone THEN list1 ELSE Placed(list1, u, dst, o.bottom)
             t == [s EXCEPT !.def = [s.def EXCEPT ![u] = e], !.damage = [s.damage EXCEPT ![u] = 0],
                            !.rested = [s.rested EXCEPT ![u] = o.rested],
                            !.known = [s.known EXCEPT ![u] = k], !.zone = zone2, !.list = list2]
  <1>1. /\ s.def \in [Uids -> Defs] /\ s.zone \in [Uids -> Zones] /\ s.rested \in [Uids -> BOOLEAN]
        /\ s.damage \in [Uids -> Nat] /\ s.pair \in [Uids -> Uids \cup {NoUid}]
        /\ s.known \in [Uids -> SUBSET Players] /\ s.list \in [ListedZones -> Seq(Uids)]
        /\ s.history \in Seq(Events)
    BY Fields
  <1>2. o.bottom \in BOOLEAN /\ o.reveal \in BOOLEAN /\ o.rested \in BOOLEAN /\ dst \in ListedZones
    BY DEF Options, MayCome
  <1>3. move_single(s, u, dst, o) = t
    BY <1>1 DEF move_single, remove_from_zone, Typed, States
  <1>4. list1 \in [ListedZones -> Seq(Uids)] /\ Lists(list1, s.zone, Uids \ {u})
    <2>1. CASE src = "Outside"
      <3>1. src \notin ListedZones
        BY <2>1 DEF ListedZones, HiddenZones, PublicZones
      <3> QED BY <1>1, <2>1, <3>1 DEF Where, Lists
    <2>2. CASE src # "Outside"
      <3>1. src \in ListedZones
        BY <1>1, <2>2 DEF Zones
      <3> QED BY <1>1, <2>2, <3>1, TakenOut DEF Where
    <2> QED BY <2>1, <2>2
  <1> HIDE DEF list1
  <1>5. list2 \in [ListedZones -> Seq(Uids)] /\ Lists(list2, zone2, Uids)
    <2>1. CASE gone
      <3>1. \A z \in ListedZones : {v \in Uids : zone2[v] = z} = {v \in Uids \ {u} : s.zone[v] = z}
        BY <1>1, <2>1 DEF ListedZones, HiddenZones, PublicZones
      <3> QED BY <1>4, <2>1, <3>1 DEF Lists
    <2>2. CASE ~gone
      BY <1>1, <1>2, <1>4, <2>2, PutIn
    <2> QED BY <2>1, <2>2
  <1> HIDE DEF list2
  <1>6. e \in Defs /\ base_def_id(e) = base_def_id(s.def[u]) /\ k \in SUBSET Players
        /\ FitsZone(e, zone2[u], 0, k)
    <2>1. e \in Defs /\ base_def_id(e) = base_def_id(s.def[u])
      BY <1>1, PrintedIs
    <2>2. k \in SUBSET Players
      BY <1>1 DEF knowledge_on_enter, Players
    <2>3. FitsZone(s.def[u], src, s.damage[u], s.known[u])
      BY DEF Fit
    <2>4. FitsZone(e, zone2[u], 0, k)
      BY <1>1, <1>2, <2>3, ComesFit
    <2> QED BY <2>1, <2>2, <2>4
  <1>7. zone2 \in [Uids -> Zones] /\ zone2[u] \in {dst, "Outside"}
        /\ \A v \in Uids \ {u} : zone2[v] = s.zone[v]
    BY <1>1, <1>2 DEF Zones
  <1>8. /\ zone2[u] = "Outside" => base_def_id(s.def[u]) \in Tokens /\ dst \notin TokenZones
        /\ dst = "Battle" => e = s.def[u]
    <2>1. zone2[u] = "Outside" => gone
      BY <1>1, <1>2 DEF ListedZones, HiddenZones, PublicZones
    <2>2. gone => dst # "Battle" /\ dst \notin TokenZones
      BY DEF TokenZones
    <2> QED BY <2>1, <2>2
  <1> HIDE DEF zone2, e, k
  <1>9. t \in States(s)
    BY <1>1, <1>2, <1>5, <1>6, <1>7 DEF Typed, States
  <1>10. /\ t.def = [s.def EXCEPT ![u] = e] /\ t.damage = [s.damage EXCEPT ![u] = 0]
         /\ t.known = [s.known EXCEPT ![u] = k] /\ t.zone = zone2 /\ t.list = list2
         /\ t.pair = s.pair /\ t.history = s.history /\ t.cache = s.cache
    BY DEF Typed, States
  <1> HIDE DEF t
  <1>11. Where(t)
    BY <1>5, <1>10 DEF Where
  <1>12. Fit(t)
    <2> SUFFICES ASSUME NEW v \in Uids
                 PROVE  /\ FitsZone(t.def[v], t.zone[v], t.damage[v], t.known[v])
                        /\ IsDealt(table, v, t.def[v], t.zone[v])
      BY DEF Fit
    <2>1. CASE v = u
      <3>1. FitsZone(t.def[u], t.zone[u], t.damage[u], t.known[u]) /\ t.def[u] = e
        BY <1>1, <1>6, <1>10
      <3>2. IsDealt(table, u, s.def[u], s.zone[u])
        BY DEF Fit
      <3>3. t.zone[u] # "none"
        BY <1>2, <1>7, <1>10 DEF ListedZones, HiddenZones, PublicZones
      <3>4. IsDealt(table, u, e, t.zone[u])
        BY <1>1, <1>6, <3>2, <3>3, StaysDealt
      <3> QED BY <2>1, <3>1, <3>4
    <2>2. CASE v # u
      <3>1. t.def[v] = s.def[v] /\ t.zone[v] = s.zone[v] /\ t.damage[v] = s.damage[v] /\ t.known[v] = s.known[v]
        BY <1>1, <1>7, <1>10, <2>2
      <3> QED BY <3>1 DEF Fit
    <2> QED BY <2>1, <2>2
  <1>13. \A v \in Uids \ {u} : t.zone[v] = s.zone[v] /\ t.def[v] = s.def[v]
    BY <1>1, <1>7, <1>10
  <1>14. t.def[u] = e
    BY <1>1, <1>10
  <1> QED BY <1>3, <1>6, <1>7, <1>8, <1>9, <1>10, <1>11, <1>12, <1>13, <1>14 DEF Single

\* t is s after card u came to zone dst, its Pilot before it if it had one.
Moved(s, t, u, dst) ==
  LET p == s.pair[u] IN
  /\ t \in States(s) /\ Where(t) /\ Fit(t) /\ t.history = s.history /\ t.cache = {}
  /\ \A v \in Uids \ {u, p} : t.zone[v] = s.zone[v] /\ t.def[v] = s.def[v] /\ t.pair[v] = s.pair[v]
  /\ \A v \in Uids : /\ base_def_id(t.def[v]) = base_def_id(s.def[v])
                     /\ t.zone[v] = "none" <=> s.zone[v] = "none"
  /\ t.pair[u] = NoUid /\ (p # NoUid => t.pair[p] = NoUid)
  /\ t.zone[u] \in {dst, "Outside"}
  /\ t.zone[u] = "Outside" => base_def_id(s.def[u]) \in Tokens /\ dst \notin TokenZones
  /\ p # NoUid => t.zone[p] \in {dst, "Outside"} \/ (t.zone[p] = "Battle" /\ s.zone[p] = "Battle")
  /\ dst = "Battle" => t.def[u] = s.def[u]
  /\ \A v \in Uids \ {u} : PairOf(t, v)
  /\ dst # "Paired" => PairOf(t, u)

\* Where a card may be moved: from the battle area only off the field.
MayMove(s, u, dst) ==
  /\ s.zone[u] # "none" /\ MayCome(s.def[u], dst)
  /\ s.zone[u] = "Battle" => dst \notin {"Battle", "ResourceArea", "Paired"}

\* touch drops the kept view.
LEMMA Touched ==
  ASSUME NEW s, Typed(s)
  PROVE  /\ touch(s) \in States(s) /\ touch(s).cache = {}
         /\ touch(s).def = s.def /\ touch(s).zone = s.zone /\ touch(s).damage = s.damage
         /\ touch(s).pair = s.pair /\ touch(s).known = s.known /\ touch(s).list = s.list
         /\ touch(s).history = s.history /\ touch(s).rested = s.rested
  BY DEF touch, Typed, States

\* A pair that comes apart.
LEMMA UnpairedIs ==
  ASSUME NEW s, Typed(s), NEW u \in Uids, s.pair[u] \in Uids
  PROVE  LET t == Unpaired(s, u) IN
         /\ t \in States(s)
         /\ t.def = s.def /\ t.zone = s.zone /\ t.damage = s.damage /\ t.known = s.known
         /\ t.list = s.list /\ t.history = s.history /\ t.cache = s.cache
         /\ t.pair = [v \in Uids |-> IF v \in {u, s.pair[u]} THEN NoUid ELSE s.pair[v]]
  <1> DEFINE f == [v \in Uids |-> IF v \in {u, s.pair[u]} THEN NoUid ELSE s.pair[v]]
             t == [s EXCEPT !.pair = f]
  <1>1. s.pair \in [Uids -> Uids \cup {NoUid}]
    BY Fields
  <1>2. [[s.pair EXCEPT ![s.pair[u]] = NoUid] EXCEPT ![u] = NoUid] = f
    BY <1>1
  <1>3. Unpaired(s, u) = t
    BY <1>2 DEF Unpaired, Typed, States
  <1>4. f \in [Uids -> Uids \cup {NoUid}]
    BY <1>1
  <1> HIDE DEF f
  <1>5. /\ t \in States(s) /\ t.def = s.def /\ t.zone = s.zone /\ t.damage = s.damage /\ t.known = s.known
        /\ t.list = s.list /\ t.history = s.history /\ t.cache = s.cache /\ t.pair = f
    BY <1>4 DEF Typed, States
  <1> QED BY <1>3, <1>5 DEF f

\* The states one can get to from a state reached are reached from the first.
LEMMA StatesTrans ==
  ASSUME NEW s, NEW r \in States(s), NEW t \in States(r)
  PROVE  t \in States(s) /\ Typed(t) /\ Typed(r)
  <1>1. t.cache \in {s.cache, {}} /\ t.battle = s.battle /\ t.lasting = s.lasting /\ t.turn = s.turn
        /\ t.phase = s.phase /\ t.task = s.task
    BY DEF States
  <1> QED BY <1>1 DEF Typed, States

\* No uid is no uid.
LEMMA NoUidIs == NoUid \notin Uids
  BY DEF NoUid, Uids

\* move_card keeps every card in its list, where it fits, and the other pairs.
LEMMA MoveCard ==
  ASSUME NEW s, Whole(s), NEW u \in Uids, NEW dst, MayMove(s, u, dst), NEW o \in Options
  PROVE  Moved(s, move_card(s, u, dst, o), u, dst)
  <1> DEFINE p == s.pair[u]
             o2 == [o EXCEPT !.rested = FALSE]
             s1 == IF p # NoUid /\ s.zone[u] \in {"Battle", "Paired"} THEN Unpaired(s, u) ELSE s
             s2 == IF p # NoUid /\ s.zone[u] = "Battle" THEN move_single(s1, p, dst, o2) ELSE s1
             x  == move_single(s2, u, dst, o)
             t  == touch(x)
             f == [v \in Uids |-> IF v \in {u, p} THEN NoUid ELSE s.pair[v]]
  <1>1. move_card(s, u, dst, o) = t
    BY DEF move_card
  <1>2. /\ s.def \in [Uids -> Defs] /\ s.zone \in [Uids -> Zones] /\ s.damage \in [Uids -> Nat]
        /\ s.pair \in [Uids -> Uids \cup {NoUid}] /\ Typed(s) /\ Where(s) /\ Fit(s) /\ Pairs(s)
    BY Fields DEF Whole
  <1>3. o2 \in Options
    BY DEF Options
  <1>4. MayCome(s.def[u], dst) /\ s.zone[u] # "none"
    BY DEF MayMove
  <1>5. p # NoUid => /\ p \in Uids /\ s.pair[p] = u /\ p # u
                     /\ \/ s.zone[u] = "Battle" /\ s.zone[p] = "Paired"
                        \/ s.zone[u] = "Paired" /\ s.zone[p] = "Battle"
    BY <1>2 DEF Pairs, PairOf
  <1>6. /\ s1 \in States(s) /\ Typed(s1)
        /\ s1.def = s.def /\ s1.zone = s.zone /\ s1.damage = s.damage /\ s1.known = s.known
        /\ s1.list = s.list /\ s1.history = s.history /\ s1.pair = f
    <2>1. CASE p = NoUid
      <3>1. f = s.pair
        BY <1>2, <2>1, NoUidIs
      <3> QED BY <1>2, <2>1, <3>1 DEF Typed
    <2>2. CASE p # NoUid
      <3>1. s1 = Unpaired(s, u)
        BY <1>5, <2>2
      <3> QED BY <1>2, <1>5, <2>2, <3>1, UnpairedIs, StatesTrans DEF Typed
    <2> QED BY <2>1, <2>2
  <1> HIDE DEF s1
  <1>7. Where(s1) /\ Fit(s1)
    BY <1>2, <1>6 DEF Where, Fit
  <1>8. /\ s2 \in States(s) /\ Typed(s2) /\ Where(s2) /\ Fit(s2)
        /\ s2.pair = f /\ s2.history = s.history
        /\ \A v \in Uids \ {p} : s2.zone[v] = s.zone[v] /\ s2.def[v] = s.def[v]
        /\ \A v \in Uids : base_def_id(s2.def[v]) = base_def_id(s.def[v])
        /\ p # NoUid => s2.zone[p] \in {dst, "Outside"} \/ (s2.zone[p] = "Battle" /\ s.zone[p] = "Battle")
        /\ p # NoUid /\ s.zone[u] = "Battle" => s2.zone[p] \in {dst, "Outside"}
        /\ p # NoUid /\ s.zone[u] # "Battle" => s2.zone[p] = s.zone[p]
    <2>1. CASE p # NoUid /\ s.zone[u] = "Battle"
      <3>1. s2 = move_single(s1, p, dst, o2) /\ p \in Uids /\ s1.zone[p] = "Paired"
        BY <1>5, <1>6, <2>1
      <3>2. MayCome(s1.def[p], dst)
        <4>1. FitsZone(s1.def[p], s1.zone[p], s1.damage[p], s1.known[p])
          BY <1>7, <3>1 DEF Fit
        <4> QED BY <2>1, <1>4, <3>1, <4>1 DEF MayMove, MayCome, FitsZone
      <3>3. Single(s1, s2, p, dst)
        BY <1>3, <1>6, <1>7, <3>1, <3>2, SingleMove
      <3> HIDE DEF s2
      <3>4. s2 \in States(s) /\ Typed(s2)
        BY <1>6, <3>3, StatesTrans DEF Single
      <3>5. \A v \in Uids \ {p} : s2.zone[v] = s.zone[v] /\ s2.def[v] = s.def[v]
        BY <1>6, <3>3 DEF Single
      <3>6. \A v \in Uids : base_def_id(s2.def[v]) = base_def_id(s.def[v])
        BY <1>6, <3>3, <3>5 DEF Single
      <3>7. s2.zone[p] \in {dst, "Outside"} /\ s2.pair = f /\ s2.history = s.history
            /\ Where(s2) /\ Fit(s2)
        BY <1>6, <3>3 DEF Single
      <3> QED BY <2>1, <3>4, <3>5, <3>6, <3>7
    <2>2. CASE ~(p # NoUid /\ s.zone[u] = "Battle")
      <3>1. s2 = s1
        BY <2>2
      <3> HIDE DEF s2
      <3>2. /\ s2 \in States(s) /\ Typed(s2) /\ Where(s2) /\ Fit(s2) /\ s2.pair = f /\ s2.history = s.history
            /\ s2.zone = s.zone /\ s2.def = s.def
        BY <1>6, <1>7, <3>1
      <3>3. p # NoUid => s.zone[p] = "Battle" /\ s.zone[u] # "Battle"
        BY <1>5, <2>2
      <3>4. \A v \in Uids : s2.zone[v] = s.zone[v] /\ s2.def[v] = s.def[v]
        BY <3>2
      <3>5. p # NoUid => s2.zone[p] = s.zone[p]
        BY <3>2
      <3> HIDE DEF f
      <3> QED BY <3>2, <3>3, <3>4, <3>5
    <2> QED BY <2>1, <2>2
  <1> HIDE DEF s2
  <1>9. u # p
    BY <1>5, NoUidIs
  <1>10. Single(s2, x, u, dst)
    <2>1. s2.zone[u] = s.zone[u] /\ s2.def[u] = s.def[u]
      BY <1>8, <1>9
    <2> QED BY <1>4, <1>8, <2>1, SingleMove
  <1> HIDE DEF x
  <1>11. x \in States(s) /\ Typed(x)
    BY <1>8, <1>10, StatesTrans DEF Single
  <1>12. /\ t \in States(s) /\ t.cache = {} /\ t.def = x.def /\ t.zone = x.zone /\ t.damage = x.damage
         /\ t.pair = x.pair /\ t.known = x.known /\ t.list = x.list /\ t.history = x.history
    BY <1>11, Touched, StatesTrans
  <1> HIDE DEF t
  <1>13. Where(t) /\ Fit(t) /\ t.history = s.history /\ t.pair = f
    BY <1>8, <1>10, <1>12 DEF Single, Where, Fit
  <1>14. \A v \in Uids \ {u, p} : t.zone[v] = s.zone[v] /\ t.def[v] = s.def[v] /\ t.pair[v] = s.pair[v]
    BY <1>8, <1>10, <1>12, <1>13 DEF Single
  <1>15. /\ t.zone[u] \in {dst, "Outside"}
         /\ t.zone[u] = "Outside" => base_def_id(s.def[u]) \in Tokens /\ dst \notin TokenZones
         /\ dst = "Battle" => t.def[u] = s.def[u]
    BY <1>8, <1>9, <1>10, <1>12 DEF Single
  <1>16. /\ p # NoUid => t.zone[p] = s2.zone[p]
         /\ \A v \in Uids : base_def_id(t.def[v]) = base_def_id(s.def[v])
    BY <1>5, <1>8, <1>10, <1>12 DEF Single
  <1>17. dst \in ListedZones /\ dst # "none"
    BY <1>4 DEF MayCome, ListedZones, HiddenZones, PublicZones
  <1>18. \A v \in Uids : t.zone[v] = "none" <=> s.zone[v] = "none"
    <2> SUFFICES ASSUME NEW v \in Uids PROVE t.zone[v] = "none" <=> s.zone[v] = "none"
      OBVIOUS
    <2>1. CASE v = u
      BY <1>4, <1>15, <1>17, <2>1
    <2>2. CASE v = p
      BY <1>5, <1>8, <1>16, <1>17, <2>2, NoUidIs
    <2>3. CASE v \notin {u, p}
      BY <1>14, <2>3
    <2> QED BY <2>1, <2>2, <2>3
  <1>19. \A v \in Uids \ {u, p} : PairOf(t, v)
    <2> SUFFICES ASSUME NEW v \in Uids \ {u, p} PROVE PairOf(t, v)
      OBVIOUS
    <2>1. PairOf(s, v) /\ t.zone[v] = s.zone[v] /\ t.pair[v] = s.pair[v]
      BY <1>2, <1>14 DEF Pairs
    <2>2. s.pair[v] # u
      BY <2>1, NoUidIs DEF PairOf
    <2>3. s.pair[v] # NoUid => s.pair[v] \in Uids \ {u, p}
      <3>1. s.pair[v] # NoUid => s.pair[v] \in Uids
        BY <1>2
      <3>2. s.pair[v] = p /\ p # NoUid => s.pair[p] = v
        BY <2>1 DEF PairOf
      <3> QED BY <1>5, <2>2, <3>1, <3>2
    <2>4. s.pair[v] # NoUid => t.zone[s.pair[v]] = s.zone[s.pair[v]] /\ t.pair[s.pair[v]] = s.pair[s.pair[v]]
      BY <1>14, <2>3
    <2> QED BY <2>1, <2>4 DEF PairOf
  <1>20. p # NoUid => t.pair[p] = NoUid /\ (dst # "Paired" => PairOf(t, p))
    BY <1>5, <1>8, <1>13, <1>16 DEF PairOf
  <1>21. t.pair[u] = NoUid /\ (dst # "Paired" => PairOf(t, u))
    BY <1>13, <1>15 DEF PairOf
  <1>22. dst = "Paired" => p = NoUid \/ PairOf(t, p)
    <2> SUFFICES ASSUME dst = "Paired", p # NoUid PROVE PairOf(t, p)
      OBVIOUS
    <2>1. s.zone[u] # "Battle"
      BY DEF MayMove
    <2>2. t.zone[p] = "Battle"
      BY <1>5, <1>8, <1>16, <2>1
    <2> QED BY <1>20, <2>2 DEF PairOf
  <1>23. \A v \in Uids \ {u} : PairOf(t, v)
    <2> SUFFICES ASSUME NEW v \in Uids \ {u} PROVE PairOf(t, v)
      OBVIOUS
    <2>1. CASE v = p
      BY <1>20, <1>22, <2>1, NoUidIs
    <2> QED BY <1>19, <2>1
  <1> QED BY <1>1, <1>8, <1>12, <1>13, <1>14, <1>15, <1>16, <1>18, <1>20, <1>21, <1>23 DEF Moved

-----------------------------------------------------------------------------
(* The other operations.                                                   *)

\* t is a good state after an operation on s that keeps the decision waited for and makes
\* no card.
Steps(s, t) ==
  /\ Inv(t) /\ t.phase = s.phase /\ t.task = s.task
  /\ \A v \in Uids : t.zone[v] = "none" <=> s.zone[v] = "none"

\* One operation after another.
LEMMA StepsTrans ==
  ASSUME NEW s, NEW r, NEW t, Steps(s, r), Steps(r, t)
  PROVE  Steps(s, t)
  BY DEF Steps

\* A good state is one after nothing.
LEMMA StepsSelf == ASSUME NEW s, Inv(s) PROVE Steps(s, s)
  BY DEF Steps

\* Nothing but the cards' identities, zones, damage, pairs, lists and what is known matters.
LEMMA SameCards ==
  ASSUME NEW s, Whole(s), NEW t, Typed(t), t.def = s.def, t.zone = s.zone, t.damage = s.damage,
         t.known = s.known, t.pair = s.pair, t.list = s.list
  PROVE  Whole(t)
  <1>1. Where(t)
    BY DEF Whole, Where
  <1>2. Fit(t)
    BY DEF Whole, Fit
  <1>3. Pairs(t)
    BY DEF Whole, Pairs, PairOf
  <1> QED BY <1>1, <1>2, <1>3 DEF Whole

\* A view that is not kept is not stale.
LEMMA NoView == ASSUME NEW t, t.cache = {} PROVE Fresh(t)
  BY DEF Fresh

\* A view stays fresh while nothing it reads changes.
LEMMA SameView ==
  ASSUME NEW s, Fresh(s), NEW t, t.def = s.def, t.zone = s.zone, t.rested = s.rested,
         t.damage = s.damage, t.pair = s.pair, t.list = s.list, t.history = s.history,
         t.battle = s.battle, t.lasting = s.lasting, t.turn = s.turn, t.cache = s.cache
  PROVE  Fresh(t) /\ View(t) = View(s) /\ view_key(t) = view_key(s)
  <1>1. view_key(t) = view_key(s)
    BY DEF view_key
  <1>2. View(t) = View(s)
    BY <1>1 DEF View
  <1> QED BY <1>1, <1>2 DEF Fresh

\* record keeps the cards, and its key is another one.
LEMMA Records ==
  ASSUME NEW s, Inv(s), NEW u \in Uids
  PROVE  /\ Steps(s, record(s, u)) /\ record(s, u) \in States(s) /\ record(s, u).list = s.list
         /\ record(s, u).def = s.def /\ record(s, u).zone = s.zone /\ record(s, u).pair = s.pair
         /\ record(s, u).rested = s.rested /\ record(s, u).cache = s.cache
  <1> DEFINE e == [uid |-> u, def |-> s.def[u]]
             h == Append(s.history, e)
             t == [s EXCEPT !.history = h]
  <1>1. Typed(s) /\ Whole(s) /\ Fresh(s) /\ s.def \in [Uids -> Defs] /\ s.history \in Seq(Events)
    BY Fields DEF Inv, Whole
  <1>2. e \in Events
    BY <1>1 DEF Events
  <1> HIDE DEF e
  <1>3. h \in Seq(Events) /\ Len(h) = Len(s.history) + 1 /\ Len(s.history) \in Nat
    BY <1>1, <1>2
  <1>4. record(s, u) = t
    BY DEF record, e
  <1> HIDE DEF h
  <1>5. /\ t \in States(s) /\ t.def = s.def /\ t.zone = s.zone /\ t.damage = s.damage /\ t.known = s.known
        /\ t.pair = s.pair /\ t.list = s.list /\ t.cache = s.cache /\ t.phase = s.phase /\ t.task = s.task
        /\ t.history = h /\ t.rested = s.rested
    BY <1>1, <1>3 DEF Typed, States
  <1> HIDE DEF t
  <1>6. Whole(t)
    BY <1>1, <1>5, SameCards, StatesTrans DEF Typed
  <1>7. Fresh(t)
    <2> SUFFICES ASSUME NEW v \in s.cache
                 PROVE  v.key.n_history \in Nat /\ v.key.n_history <= Len(h) /\ v.key # view_key(t)
      BY <1>5 DEF Fresh
    <2>1. v.key.n_history \in Nat /\ v.key.n_history <= Len(s.history)
      BY <1>1 DEF Fresh
    <2>2. view_key(t).n_history = Len(h)
      BY <1>5 DEF view_key
    <2> QED BY <1>3, <2>1, <2>2
  <1> QED BY <1>4, <1>5, <1>6, <1>7 DEF Steps, Inv

\* derived keeps at most the view of the present state.
LEMMA Derives ==
  ASSUME NEW s, Inv(s)
  PROVE  LET t == derived(s) IN
         /\ Steps(s, t) /\ t.list = s.list /\ t.def = s.def /\ t.zone = s.zone /\ t.pair = s.pair
         /\ t.rested = s.rested /\ t.damage = s.damage /\ t.known = s.known /\ t.history = s.history
  <1> DEFINE t == [s EXCEPT !.cache = {View(s)}]
  <1>1. CASE derived(s) = s
    BY <1>1, StepsSelf
  <1>2. CASE derived(s) = t
    <2>1. Typed(s) /\ Whole(s) /\ s.history \in Seq(Events)
      BY Fields DEF Inv, Whole
    <2>2. /\ Typed(t) /\ t.def = s.def /\ t.zone = s.zone /\ t.damage = s.damage /\ t.known = s.known
          /\ t.pair = s.pair /\ t.list = s.list /\ t.cache = {View(s)} /\ t.phase = s.phase
          /\ t.task = s.task /\ t.history = s.history /\ t.rested = s.rested
          /\ t.battle = s.battle /\ t.lasting = s.lasting /\ t.turn = s.turn
      BY <2>1 DEF Typed, States
    <2> HIDE DEF t
    <2>3. view_key(t) = view_key(s) /\ View(t) = View(s)
      <3>1. view_key(t) = view_key(s)
        BY <2>2 DEF view_key
      <3> QED BY <2>2, <3>1 DEF View
    <2>4. View(s).key = view_key(s) /\ view_key(s).n_history = Len(s.history) /\ Len(s.history) \in Nat
      BY <2>1 DEF View, view_key
    <2>5. Fresh(t)
      BY <2>2, <2>3, <2>4 DEF Fresh
    <2>6. Whole(t)
      BY <2>1, <2>2, SameCards
    <2> QED BY <1>2, <2>2, <2>5, <2>6 DEF Steps, Inv
  <1> QED BY <1>1, <1>2 DEF derived

\* move_card keeps a good state good, and brings the card where it should come.
LEMMA Moves1 ==
  ASSUME NEW s, Inv(s), NEW u \in Uids, NEW dst, MayMove(s, u, dst), dst # "Paired", NEW o \in Options
  PROVE  /\ Steps(s, move_card(s, u, dst, o)) /\ Moved(s, move_card(s, u, dst, o), u, dst)
         /\ move_card(s, u, dst, o) \in States(s)
  <1> DEFINE t == move_card(s, u, dst, o)
  <1>1. Moved(s, t, u, dst)
    BY MoveCard DEF Inv
  <1> HIDE DEF t
  <1>2. t \in States(s) /\ Typed(s) /\ t.cache = {} /\ Where(t) /\ Fit(t)
    BY <1>1 DEF Moved, Inv, Whole
  <1>3. Typed(t) /\ t.phase = s.phase /\ t.task = s.task
    BY <1>2, StatesTrans DEF Typed, States
  <1>4. Pairs(t)
    BY <1>1 DEF Moved, Pairs
  <1>5. \A v \in Uids : t.zone[v] = "none" <=> s.zone[v] = "none"
    BY <1>1 DEF Moved
  <1> QED BY <1>1, <1>2, <1>3, <1>4, <1>5, NoView DEF Steps, Inv, Whole, t

\* t is s with bits turned that no list, place or pair depends on.
LEMMA TurnBits ==
  ASSUME NEW s, Inv(s), NEW rested \in [Uids -> BOOLEAN]
  PROVE  LET t == touch([s EXCEPT !.rested = rested]) IN
         /\ Steps(s, t) /\ t \in States(s) /\ t.zone = s.zone /\ t.def = s.def /\ t.list = s.list
         /\ t.pair = s.pair /\ t.rested = rested /\ t.cache = {} /\ t.history = s.history
  <1> DEFINE t == touch([s EXCEPT !.rested = rested])
  <1>1. Typed(s) /\ Whole(s)
    BY DEF Inv, Whole
  <1>2. /\ t \in States(s) /\ t.zone = s.zone /\ t.def = s.def /\ t.list = s.list
        /\ t.pair = s.pair /\ t.rested = rested /\ t.cache = {} /\ t.history = s.history
        /\ t.damage = s.damage /\ t.known = s.known /\ t.phase = s.phase /\ t.task = s.task
    BY <1>1 DEF Typed, States, touch
  <1> HIDE DEF t
  <1>3. Whole(t)
    BY <1>1, <1>2, SameCards, StatesTrans DEF Typed
  <1> QED BY <1>2, <1>3, NoView DEF Steps, Inv, t

\* WithRest turns one card.
LEMMA RestOne ==
  ASSUME NEW s, Inv(s), NEW u \in Uids, NEW r \in BOOLEAN
  PROVE  LET t == WithRest(s, u, r) IN
         /\ Steps(s, t) /\ t \in States(s) /\ t.zone = s.zone /\ t.def = s.def /\ t.list = s.list
         /\ t.pair = s.pair
  <1> DEFINE f == [s.rested EXCEPT ![u] = r]
  <1>1. s.rested \in [Uids -> BOOLEAN]
    BY Fields DEF Inv, Whole
  <1>2. f \in [Uids -> BOOLEAN]
    BY <1>1
  <1>3. WithRest(s, u, r) = touch([s EXCEPT !.rested = f])
    BY DEF WithRest
  <1> HIDE DEF f
  <1> QED BY <1>2, <1>3, TurnBits

\* turn_resources turns some.
LEMMA RestSome ==
  ASSUME NEW s, Inv(s), NEW us, NEW r \in BOOLEAN
  PROVE  Steps(s, turn_resources(s, us, r))
  <1> DEFINE f == [u \in Uids |-> IF u \in us THEN r ELSE s.rested[u]]
  <1>1. s.rested \in [Uids -> BOOLEAN]
    BY Fields DEF Inv, Whole
  <1>2. f \in [Uids -> BOOLEAN]
    BY <1>1
  <1>3. turn_resources(s, us, r) = touch([s EXCEPT !.rested = f])
    BY DEF turn_resources
  <1> HIDE DEF f
  <1> QED BY <1>2, <1>3, TurnBits

\* More may get known of any card, and less of a card that nobody need know.
LEMMA Knows ==
  ASSUME NEW s, Inv(s), NEW known \in [Uids -> SUBSET Players],
         \A u \in Uids : s.known[u] \subseteq known[u] \/ s.zone[u] \in {"Deck", "Shield", "none"}
  PROVE  LET t == [s EXCEPT !.known = known] IN
         /\ Steps(s, t) /\ t.zone = s.zone /\ t.def = s.def /\ t.list = s.list /\ t.pair = s.pair
         /\ t.rested = s.rested /\ t.cache = s.cache /\ t.history = s.history
  <1> DEFINE t == [s EXCEPT !.known = known]
  <1>1. Typed(s) /\ Whole(s) /\ Fresh(s)
    BY DEF Inv, Whole
  <1>2. /\ t \in States(s) /\ t.zone = s.zone /\ t.def = s.def /\ t.list = s.list
        /\ t.pair = s.pair /\ t.rested = s.rested /\ t.cache = s.cache /\ t.history = s.history
        /\ t.damage = s.damage /\ t.known = known /\ t.phase = s.phase /\ t.task = s.task
        /\ t.battle = s.battle /\ t.lasting = s.lasting /\ t.turn = s.turn
    BY <1>1 DEF Typed, States
  <1> HIDE DEF t
  <1>3. Typed(t) /\ Where(t) /\ Pairs(t)
    BY <1>1, <1>2, StatesTrans DEF Typed, Whole, Where, Pairs, PairOf
  <1>4. Fit(t)
    <2> SUFFICES ASSUME NEW u \in Uids
                 PROVE  /\ FitsZone(s.def[u], s.zone[u], s.damage[u], known[u])
                        /\ IsDealt(table, u, s.def[u], s.zone[u])
      BY <1>2 DEF Fit
    <2>1. FitsZone(s.def[u], s.zone[u], s.damage[u], s.known[u]) /\ IsDealt(table, u, s.def[u], s.zone[u])
      BY <1>1 DEF Whole, Fit
    <2>2. known[u] \subseteq Players
      OBVIOUS
    <2> QED BY <2>1, <2>2 DEF FitsZone, PublicZones
  <1>5. Fresh(t)
    BY <1>1, <1>2, SameView
  <1> QED BY <1>2, <1>3, <1>4, <1>5 DEF Steps, Inv, Whole, t

\* learn only adds to what is known.
LEMMA Learns ==
  ASSUME NEW s, Inv(s), NEW us, NEW who \in SUBSET Players
  PROVE  Steps(s, learn(s, us, who))
  <1> DEFINE f == [u \in Uids |-> IF u \in us THEN s.known[u] \cup who ELSE s.known[u]]
  <1>1. s.known \in [Uids -> SUBSET Players]
    BY Fields DEF Inv, Whole
  <1>2. f \in [Uids -> SUBSET Players] /\ \A u \in Uids : s.known[u] \subseteq f[u]
    BY <1>1
  <1>3. learn(s, us, who) = [s EXCEPT !.known = f]
    BY DEF learn
  <1> HIDE DEF f
  <1> QED BY <1>2, <1>3, Knows

\* Showing one card does.
LEMMA Shows ==
  ASSUME NEW s, Inv(s), NEW u \in Uids
  PROVE  LET t == [s EXCEPT !.known[u] = Players] IN
         Steps(s, t) /\ t.zone = s.zone /\ t.def = s.def /\ t.list = s.list /\ t.pair = s.pair
         /\ t.rested = s.rested
  <1> DEFINE f == [s.known EXCEPT ![u] = Players]
  <1>1. s.known \in [Uids -> SUBSET Players]
    BY Fields DEF Inv, Whole
  <1>2. f \in [Uids -> SUBSET Players] /\ \A v \in Uids : s.known[v] \subseteq f[v]
    BY <1>1
  <1>3. [s EXCEPT !.known[u] = Players] = [s EXCEPT !.known = f]
    OBVIOUS
  <1> HIDE DEF f
  <1> QED BY <1>2, <1>3, Knows

\* A new order of the deck.
LEMMA NewOrder ==
  ASSUME NEW s, Inv(s), NEW deck \in Seq(Uids), Distinct(deck), ToSet(deck) = ToSet(s.list["Deck"])
  PROVE  LET t == touch([s EXCEPT !.list["Deck"] = deck]) IN
         Steps(s, t) /\ t.zone = s.zone /\ t.def = s.def /\ t.known = s.known
  <1> DEFINE f == [s.list EXCEPT !["Deck"] = deck]
             t == touch([s EXCEPT !.list = f])
  <1>1. Typed(s) /\ Whole(s) /\ s.list \in [ListedZones -> Seq(Uids)]
    BY Fields DEF Inv, Whole
  <1>2. "Deck" \in ListedZones
    BY DEF ListedZones, HiddenZones
  <1>3. f \in [ListedZones -> Seq(Uids)] /\ Lists(f, s.zone, Uids)
    <2>1. f \in [ListedZones -> Seq(Uids)]
      BY <1>1, <1>2
    <2>2. ASSUME NEW z \in ListedZones PROVE Distinct(f[z]) /\ ToSet(f[z]) = {u \in Uids : s.zone[u] = z}
      <3>1. Distinct(s.list[z]) /\ ToSet(s.list[z]) = {u \in Uids : s.zone[u] = z}
        BY <1>1 DEF Whole, Where, Lists
      <3>2. f[z] = IF z = "Deck" THEN deck ELSE s.list[z]
        BY <1>1, <1>2
      <3> QED BY <3>1, <3>2
    <2> QED BY <2>1, <2>2 DEF Lists
  <1>4. touch([s EXCEPT !.list["Deck"] = deck]) = t
    OBVIOUS
  <1> HIDE DEF f
  <1>5. /\ t \in States(s) /\ t.zone = s.zone /\ t.def = s.def /\ t.list = f /\ t.pair = s.pair
        /\ t.cache = {} /\ t.damage = s.damage /\ t.known = s.known /\ t.phase = s.phase /\ t.task = s.task
    BY <1>1, <1>3 DEF Typed, States, touch
  <1> HIDE DEF t
  <1>6. Whole(t)
    BY <1>1, <1>3, <1>5, StatesTrans DEF Typed, Whole, Where, Fit, Pairs, PairOf
  <1> QED BY <1>4, <1>5, <1>6, NoView DEF Steps, Inv

\* shuffle_deck: the deck in any order, known to nobody.
LEMMA Shuffles ==
  ASSUME NEW s, Inv(s), NEW order \in SetToSeqs(InZone(s, "Deck"))
  PROVE  Steps(s, shuffle_deck(s, order))
  <1> DEFINE t == touch([s EXCEPT !.list["Deck"] = order])
             f == [u \in Uids |-> IF s.zone[u] = "Deck" THEN {} ELSE s.known[u]]
  <1>1. Typed(s) /\ s.list["Deck"] \in Seq(Uids) /\ s.known \in [Uids -> SUBSET Players]
    BY Fields DEF Inv, Whole, ListedZones, HiddenZones
  <1>2. IsFiniteSet(InZone(s, "Deck"))
    BY <1>1, FewElements DEF InZone
  <1>3. order \in Seq(Uids) /\ Distinct(order) /\ ToSet(order) = ToSet(s.list["Deck"])
    <2>1. order \in Seq(InZone(s, "Deck")) /\ Distinct(order) /\ ToSet(order) = InZone(s, "Deck")
      BY <1>2, OrderIs
    <2>2. InZone(s, "Deck") \subseteq Uids
      BY <1>1, Elements DEF InZone
    <2> QED BY <2>1, <2>2, SeqMonotonic DEF InZone
  <1>4. Steps(s, t) /\ t.zone = s.zone /\ t.known = s.known
    BY <1>3, NewOrder
  <1>5. shuffle_deck(s, order) = [t EXCEPT !.known = f]
    BY <1>1 DEF shuffle_deck, touch, Typed, States
  <1> HIDE DEF t
  <1>6. f \in [Uids -> SUBSET Players]
    BY <1>1
  <1>7. \A u \in Uids : t.known[u] \subseteq f[u] \/ t.zone[u] \in {"Deck", "Shield", "none"}
    BY <1>4
  <1> HIDE DEF f
  <1>8. Steps(t, [t EXCEPT !.known = f])
    BY <1>4, <1>6, <1>7, Knows DEF Steps
  <1> QED BY <1>4, <1>5, <1>8, StepsTrans

\* remove_from_game takes an EX Resource, or a card that left before, out of its list.
LEMMA RemovesFromGame ==
  ASSUME NEW s, Whole(s), NEW u \in Uids, s.def[u] = ExResource, s.zone[u] \in {"ResourceArea", "Outside"}
  PROVE  LET t == remove_from_game(s, u) IN
         /\ Whole(t) /\ t \in States(s) /\ t.cache = {} /\ t.def = s.def /\ t.pair = s.pair
         /\ t.zone = [s.zone EXCEPT ![u] = "Outside"] /\ t.history = s.history
  <1> DEFINE src == s.zone[u]
             list1 == IF src = "Outside" THEN s.list
                      ELSE [s.list EXCEPT ![src] = RemoveFirst(@, u)]
             zone2 == [s.zone EXCEPT ![u] = "Outside"]
             known2 == [s.known EXCEPT ![u] = Players]
             t == touch([s EXCEPT !.list = list1, !.zone = zone2, !.known = known2])
  <1>1. /\ s.def \in [Uids -> Defs] /\ s.zone \in [Uids -> Zones] /\ s.rested \in [Uids -> BOOLEAN]
        /\ s.damage \in [Uids -> Nat] /\ s.pair \in [Uids -> Uids \cup {NoUid}]
        /\ s.known \in [Uids -> SUBSET Players] /\ s.list \in [ListedZones -> Seq(Uids)]
        /\ Typed(s) /\ Where(s) /\ Fit(s) /\ Pairs(s)
    BY Fields DEF Whole
  <1>2. remove_from_game(s, u) = t
    BY <1>1 DEF remove_from_game, remove_from_zone, Typed, States, touch
  <1>3. "ResourceArea" \in ListedZones /\ "Outside" \notin ListedZones
    BY DEF ListedZones, HiddenZones, PublicZones
  <1>4. list1 \in [ListedZones -> Seq(Uids)] /\ Lists(list1, s.zone, Uids \ {u})
    <2>1. CASE src = "Outside"
      BY <1>1, <1>3, <2>1 DEF Where, Lists
    <2>2. CASE src # "Outside"
      <3>1. src \in ListedZones
        BY <1>3, <2>2
      <3> QED BY <1>1, <2>2, <3>1, TakenOut DEF Where
    <2> QED BY <2>1, <2>2
  <1> HIDE DEF list1
  <1>5. Lists(list1, zone2, Uids)
    <2>1. \A z \in ListedZones : {v \in Uids : zone2[v] = z} = {v \in Uids \ {u} : s.zone[v] = z}
      BY <1>1, <1>3
    <2> QED BY <1>4, <2>1 DEF Lists
  <1>6. zone2 \in [Uids -> Zones] /\ known2 \in [Uids -> SUBSET Players]
    BY <1>1 DEF Zones
  <1>7. \A v \in Uids : v # u => zone2[v] = s.zone[v] /\ known2[v] = s.known[v]
    BY <1>1
  <1>8. zone2[u] = "Outside" /\ known2[u] = Players
    BY <1>1
  <1> HIDE DEF zone2, known2
  <1>9. /\ t \in States(s) /\ t.cache = {} /\ t.def = s.def /\ t.pair = s.pair /\ t.damage = s.damage
        /\ t.zone = zone2 /\ t.known = known2 /\ t.list = list1 /\ t.history = s.history
    BY <1>1, <1>4, <1>6 DEF Typed, States, touch
  <1> HIDE DEF t
  <1>10. Typed(t) /\ Where(t)
    BY <1>1, <1>5, <1>9, StatesTrans DEF Typed, Where
  <1>11. Fit(t)
    <2> SUFFICES ASSUME NEW v \in Uids
                 PROVE  /\ FitsZone(s.def[v], zone2[v], s.damage[v], known2[v])
                        /\ IsDealt(table, v, s.def[v], zone2[v])
      BY <1>9 DEF Fit
    <2>1. FitsZone(s.def[v], s.zone[v], s.damage[v], s.known[v]) /\ IsDealt(table, v, s.def[v], s.zone[v])
      BY <1>1 DEF Fit
    <2>2. CASE v = u
      BY <1>8, <2>1, <2>2 DEF FitsZone, IsDealt, Tokens, Players, Resource, ExResource
    <2>3. CASE v # u
      BY <1>7, <2>1, <2>3
    <2> QED BY <2>2, <2>3
  <1>12. Pairs(t)
    <2> SUFFICES ASSUME NEW v \in Uids PROVE PairOf(t, v)
      BY DEF Pairs
    <2>1. PairOf(s, v) /\ PairOf(s, u)
      BY <1>1 DEF Pairs
    <2>2. s.pair[u] = NoUid
      BY <2>1 DEF PairOf
    <2>3. CASE v = u
      BY <1>8, <1>9, <2>2, <2>3 DEF PairOf
    <2>4. CASE v # u
      <3>1. s.pair[v] # NoUid => s.pair[v] \in Uids /\ s.pair[v] # u
        BY <1>1, <2>1 DEF PairOf
      <3> QED BY <1>7, <1>9, <2>1, <2>4, <3>1 DEF PairOf
    <2> QED BY <2>3, <2>4
  <1> QED BY <1>2, <1>9, <1>10, <1>11, <1>12 DEF Whole, zone2

\* What is turned, and what is recorded, leaves the cards as they were.
LEMMA StaysWhole ==
  ASSUME NEW s, Whole(s), NEW rested \in [Uids -> BOOLEAN], NEW u \in Uids
  PROVE  /\ LET t == [s EXCEPT !.rested = rested] IN
            Whole(t) /\ t \in States(s) /\ t.def = s.def /\ t.zone = s.zone /\ t.pair = s.pair /\ t.list = s.list
         /\ LET t == record(s, u) IN
            Whole(t) /\ t \in States(s) /\ t.def = s.def /\ t.zone = s.zone /\ t.pair = s.pair /\ t.list = s.list
  <1> DEFINE e == [uid |-> u, def |-> s.def[u]]
             h == Append(s.history, e)
             a == [s EXCEPT !.rested = rested]
             b == [s EXCEPT !.history = h]
  <1>1. Typed(s) /\ s.def \in [Uids -> Defs] /\ s.history \in Seq(Events)
    BY Fields DEF Whole
  <1>2. e \in Events
    BY <1>1 DEF Events
  <1> HIDE DEF e
  <1>3. h \in Seq(Events)
    BY <1>1, <1>2
  <1>4. record(s, u) = b
    BY DEF record, e
  <1> HIDE DEF h
  <1>5. /\ a \in States(s) /\ a.def = s.def /\ a.zone = s.zone /\ a.damage = s.damage
        /\ a.known = s.known /\ a.pair = s.pair /\ a.list = s.list
    BY <1>1 DEF Typed, States
  <1>6. /\ b \in States(s) /\ b.def = s.def /\ b.zone = s.zone /\ b.damage = s.damage
        /\ b.known = s.known /\ b.pair = s.pair /\ b.list = s.list
    BY <1>1, <1>3 DEF Typed, States
  <1> HIDE DEF a, b
  <1>7. Whole(a)
    BY <1>1, <1>5, SameCards, StatesTrans DEF Typed
  <1>8. Whole(b)
    BY <1>1, <1>6, SameCards, StatesTrans DEF Typed
  <1> QED BY <1>4, <1>5, <1>6, <1>7, <1>8 DEF a, b

\* new_card puts a card where none was.
LEMMA NewCardIs ==
  ASSUME NEW s, Inv(s), NEW u \in Uids, s.zone[u] = "none", NEW d, NEW dst,
         (d = UnitToken /\ dst = "Battle") \/ (d = ExResource /\ dst = "ResourceArea"), NEW rested \in BOOLEAN
  PROVE  LET t == new_card(s, u, d, dst, rested) IN
         Inv(t) /\ t.phase = s.phase /\ t.task = s.task
  <1> DEFINE def2 == [s.def EXCEPT ![u] = d]
             zone2 == [s.zone EXCEPT ![u] = dst]
             rested2 == [s.rested EXCEPT ![u] = rested]
             known2 == [s.known EXCEPT ![u] = Players]
             list2 == [s.list EXCEPT ![dst] = Append(@, u)]
             t == touch([s EXCEPT !.def = def2, !.zone = zone2, !.rested = rested2, !.known = known2,
                                  !.list = list2])
  <1>1. /\ s.def \in [Uids -> Defs] /\ s.zone \in [Uids -> Zones] /\ s.rested \in [Uids -> BOOLEAN]
        /\ s.damage \in [Uids -> Nat] /\ s.pair \in [Uids -> Uids \cup {NoUid}]
        /\ s.known \in [Uids -> SUBSET Players] /\ s.list \in [ListedZones -> Seq(Uids)]
        /\ Typed(s) /\ Where(s) /\ Fit(s) /\ Pairs(s)
    BY Fields DEF Inv, Whole
  <1>2. new_card(s, u, d, dst, rested) = t
    BY DEF new_card
  <1>3. /\ dst \in {"Battle", "ResourceArea"} /\ dst \in ListedZones /\ "none" \notin ListedZones
        /\ dst \in Zones /\ d \in Defs /\ IsUnit(UnitToken) /\ d \in {UnitToken, ExResource}
        /\ dst = "Battle" => d = UnitToken
        /\ dst = "ResourceArea" => d = ExResource
    BY DEF ListedZones, HiddenZones, PublicZones, Zones, Defs, IsUnit, UnitToken, ExResource
  <1>4. list2 = Placed(s.list, u, dst, TRUE)
    BY DEF Placed
  <1>5. Lists(s.list, s.zone, Uids \ {u})
    <2>1. \A z \in ListedZones : {v \in Uids : s.zone[v] = z} = {v \in Uids \ {u} : s.zone[v] = z}
      BY <1>3
    <2> QED BY <1>1, <2>1 DEF Where, Lists
  <1>6. list2 \in [ListedZones -> Seq(Uids)] /\ Lists(list2, zone2, Uids)
    <2> HIDE DEF list2, zone2
    <2>1. zone2 = [s.zone EXCEPT ![u] = dst] /\ TRUE \in BOOLEAN
      BY DEF zone2
    <2>2. /\ Placed(s.list, u, dst, TRUE) \in [ListedZones -> Seq(Uids)]
          /\ Lists(Placed(s.list, u, dst, TRUE), zone2, Uids)
      BY <1>1, <1>3, <1>5, <2>1, PutIn
    <2> QED BY <1>4, <2>2
  <1>7. /\ def2 \in [Uids -> Defs] /\ zone2 \in [Uids -> Zones] /\ rested2 \in [Uids -> BOOLEAN]
        /\ known2 \in [Uids -> SUBSET Players]
    BY <1>1, <1>3
  <1>8. \A v \in Uids : v # u => def2[v] = s.def[v] /\ zone2[v] = s.zone[v] /\ known2[v] = s.known[v]
    BY <1>1
  <1>9. def2[u] = d /\ zone2[u] = dst /\ known2[u] = Players
    BY <1>1
  <1> HIDE DEF def2, zone2, rested2, known2, list2
  <1>10. /\ t \in States(s) /\ t.cache = {} /\ t.def = def2 /\ t.pair = s.pair /\ t.damage = s.damage
         /\ t.zone = zone2 /\ t.known = known2 /\ t.list = list2 /\ t.phase = s.phase /\ t.task = s.task
    BY <1>1, <1>6, <1>7 DEF Typed, States, touch
  <1> HIDE DEF t
  <1>11. Typed(t) /\ Where(t)
    BY <1>1, <1>6, <1>10, StatesTrans DEF Typed, Where
  <1>12. Fit(t)
    <2> SUFFICES ASSUME NEW v \in Uids
                 PROVE  /\ FitsZone(def2[v], zone2[v], s.damage[v], known2[v])
                        /\ IsDealt(table, v, def2[v], zone2[v])
      BY <1>10 DEF Fit
    <2>1. FitsZone(s.def[v], s.zone[v], s.damage[v], s.known[v]) /\ IsDealt(table, v, s.def[v], s.zone[v])
      BY <1>1 DEF Fit
    <2>2. CASE v = u
      <3>1. s.damage[u] = 0
        BY <1>1, <2>1, <2>2 DEF FitsZone
      <3>2. u \notin Main(table) \cup Resources(table)
        BY <2>1, <2>2 DEF IsDealt
      <3>3. d \in Tokens /\ d # Resource
        BY <1>3 DEF Tokens, UnitToken, ExResource, Resource
      <3>4. IsDealt(table, u, d, dst)
        BY <3>2, <3>3 DEF IsDealt
      <3>5. FitsZone(d, dst, s.damage[u], Players)
        BY <1>3, <3>1, <3>3 DEF FitsZone, Players
      <3> QED BY <1>9, <2>2, <3>4, <3>5
    <2>3. CASE v # u
      BY <1>8, <2>1, <2>3
    <2> QED BY <2>2, <2>3
  <1>13. Pairs(t)
    <2> SUFFICES ASSUME NEW v \in Uids PROVE PairOf(t, v)
      BY DEF Pairs
    <2>1. PairOf(s, v) /\ PairOf(s, u)
      BY <1>1 DEF Pairs
    <2>2. s.pair[u] = NoUid
      BY <2>1 DEF PairOf
    <2>3. CASE v = u
      BY <1>3, <1>9, <1>10, <2>2, <2>3 DEF PairOf
    <2>4. CASE v # u
      <3>1. s.pair[v] # NoUid => s.pair[v] \in Uids /\ s.pair[v] # u
        BY <1>1, <2>1 DEF PairOf
      <3> QED BY <1>8, <1>10, <2>1, <2>4, <3>1 DEF PairOf
    <2> QED BY <2>3, <2>4
  <1> QED BY <1>2, <1>10, <1>11, <1>12, <1>13, NoView DEF Whole, Inv

\* A Pilot off the field is deployed as a Unit.
LEMMA VariantIs ==
  ASSUME NEW s, Inv(s), NEW u \in Uids, s.def[u] = Pilot,
         s.zone[u] \in {"Hand", "Trash", "Deck", "Shield", "Resolving"}
  PROVE  LET t == touch([s EXCEPT !.def[u] = Variant]) IN
         /\ Steps(s, t) /\ t.zone = s.zone /\ t.def = [s.def EXCEPT ![u] = Variant] /\ t.pair = s.pair
         /\ t.list = s.list
  <1> DEFINE def2 == [s.def EXCEPT ![u] = Variant]
             t == touch([s EXCEPT !.def = def2])
  <1>1. s.def \in [Uids -> Defs] /\ Typed(s) /\ Whole(s) /\ Fit(s)
    BY Fields DEF Inv, Whole
  <1>2. def2 \in [Uids -> Defs] /\ def2[u] = Variant /\ \A v \in Uids : v # u => def2[v] = s.def[v]
    BY <1>1 DEF Defs, Variant
  <1> HIDE DEF def2
  <1>3. /\ t \in States(s) /\ t.cache = {} /\ t.def = def2 /\ t.pair = s.pair /\ t.damage = s.damage
        /\ t.zone = s.zone /\ t.known = s.known /\ t.list = s.list /\ t.phase = s.phase /\ t.task = s.task
    BY <1>1, <1>2 DEF Typed, States, touch
  <1> HIDE DEF t
  <1>4. Typed(t) /\ Where(t) /\ Pairs(t)
    BY <1>1, <1>3, StatesTrans DEF Typed, Whole, Where, Pairs, PairOf
  <1>5. Fit(t)
    <2> SUFFICES ASSUME NEW v \in Uids
                 PROVE  /\ FitsZone(def2[v], s.zone[v], s.damage[v], s.known[v])
                        /\ IsDealt(table, v, def2[v], s.zone[v])
      BY <1>3 DEF Fit
    <2>1. FitsZone(s.def[v], s.zone[v], s.damage[v], s.known[v]) /\ IsDealt(table, v, s.def[v], s.zone[v])
      BY <1>1 DEF Fit
    <2>2. CASE v = u
      <3>1. FitsZone(Variant, s.zone[v], s.damage[v], s.known[v])
        BY <2>1, <2>2 DEF FitsZone, Tokens, UnitToken, ExResource, Resource, Variant, IsUnit
      <3>2. Variant \in Defs /\ Pilot \in Defs /\ base_def_id(Variant) = base_def_id(Pilot)
        BY DEF base_def_id, Variant, Pilot, Defs
      <3>3. IsDealt(table, v, Variant, s.zone[v])
        BY <2>1, <2>2, <3>2, StaysDealt
      <3> QED BY <1>2, <2>2, <3>1, <3>3
    <2>3. CASE v # u
      BY <1>2, <2>1, <2>3
    <2> QED BY <2>2, <2>3
  <1> QED BY <1>3, <1>4, <1>5, NoView DEF Whole, Inv, Steps, t, def2
\* pair: a Pilot card comes to a Unit that has none.
LEMMA PairsUp ==
  ASSUME NEW s, Inv(s), NEW pilot \in Uids, NEW unit \in Uids, can_pair(s, unit),
         s.zone[pilot] \notin {"none", "Outside"}, s.def[pilot] = Pilot
  PROVE  Steps(s, pair(s, pilot, unit))
  <1> DEFINE m == move_card(s, pilot, "Paired", Plain)
             f == [v \in Uids |-> IF v = pilot THEN unit ELSE IF v = unit THEN pilot ELSE m.pair[v]]
             t == touch([m EXCEPT !.pair = f])
  <1>1. /\ s.zone \in [Uids -> Zones] /\ s.pair \in [Uids -> Uids \cup {NoUid}]
        /\ Typed(s) /\ Whole(s) /\ Fit(s) /\ Pairs(s)
    BY Fields DEF Inv, Whole
  <1>2. s.zone[pilot] # "Battle" /\ s.zone[unit] = "Battle" /\ s.pair[unit] = NoUid /\ unit # pilot
    <2>1. s.zone[pilot] # "Battle"
      BY <1>1 DEF Fit, FitsZone, IsUnit, Pilot, Unit, Variant, UnitToken
    <2> QED BY <2>1 DEF can_pair
  <1>3. s.pair[pilot] # unit
    BY <1>1, <1>2, NoUidIs DEF Pairs, PairOf
  <1>4. MayMove(s, pilot, "Paired")
    BY <1>2 DEF MayMove, MayCome, ListedZones, PublicZones, Pilot, Resource
  <1>5. Plain \in Options
    BY DEF Plain, Options
  <1>6. Moved(s, m, pilot, "Paired")
    BY <1>1, <1>4, <1>5, MoveCard
  <1> HIDE DEF m
  <1>7. /\ m \in States(s) /\ Where(m) /\ Fit(m) /\ Typed(m) /\ m.cache = {}
        /\ m.phase = s.phase /\ m.task = s.task
        /\ m.zone[unit] = "Battle" /\ m.pair[unit] = NoUid /\ m.pair[pilot] = NoUid
        /\ \A v \in Uids \ {pilot} : PairOf(m, v)
        /\ \A v \in Uids : m.zone[v] = "none" <=> s.zone[v] = "none"
    <2>1. m \in States(s) /\ Where(m) /\ Fit(m) /\ m.cache = {} /\ m.pair[pilot] = NoUid
      BY <1>6 DEF Moved
    <2>2. Typed(m) /\ m.phase = s.phase /\ m.task = s.task
      BY <1>1, <2>1, StatesTrans DEF Typed, States
    <2>3. m.zone[unit] = s.zone[unit] /\ m.pair[unit] = s.pair[unit]
      BY <1>2, <1>3, <1>6 DEF Moved
    <2>4. \A v \in Uids \ {pilot} : PairOf(m, v)
      BY <1>6 DEF Moved
    <2>5. \A v \in Uids : m.zone[v] = "none" <=> s.zone[v] = "none"
      BY <1>6 DEF Moved
    <2> QED BY <1>2, <2>1, <2>2, <2>3, <2>4, <2>5
  <1>8. m.zone[pilot] = "Paired"
    <2>1. /\ m.zone[pilot] \in {"Paired", "Outside"}
          /\ m.zone[pilot] = "Outside" => base_def_id(s.def[pilot]) \in Tokens
      BY <1>6 DEF Moved
    <2>2. base_def_id(Pilot) \notin Tokens
      BY DEF base_def_id, Pilot, Variant, Tokens, UnitToken, ExResource
    <2> QED BY <2>1, <2>2
  <1>9. m.pair \in [Uids -> Uids \cup {NoUid}]
    BY <1>7, Fields
  <1>10. [[m.pair EXCEPT ![pilot] = unit] EXCEPT ![unit] = pilot] = f
    BY <1>2, <1>9
  <1>11. touch([m EXCEPT !.pair[pilot] = unit, !.pair[unit] = pilot]) = t
    BY <1>10
  <1>12. f \in [Uids -> Uids \cup {NoUid}] /\ f[pilot] = unit /\ f[unit] = pilot
         /\ \A v \in Uids \ {pilot, unit} : f[v] = m.pair[v]
    BY <1>2, <1>9
  <1> HIDE DEF f
  <1>13. /\ t \in States(m) /\ t.cache = {} /\ t.def = m.def /\ t.zone = m.zone /\ t.pair = f
         /\ t.damage = m.damage /\ t.known = m.known /\ t.list = m.list
         /\ t.phase = m.phase /\ t.task = m.task
    BY <1>7, <1>12 DEF Typed, States, touch
  <1> HIDE DEF t
  <1>14. Typed(t) /\ Where(t) /\ Fit(t)
    BY <1>7, <1>13, StatesTrans DEF Typed, Where, Fit
  <1>15. Pairs(t)
    <2> SUFFICES ASSUME NEW v \in Uids PROVE PairOf(t, v)
      BY DEF Pairs
    <2>1. CASE v \in {pilot, unit}
      BY <1>2, <1>7, <1>8, <1>12, <1>13, <2>1, NoUidIs DEF PairOf
    <2>2. CASE v \notin {pilot, unit}
      <3>1. PairOf(m, v) /\ f[v] = m.pair[v] /\ t.zone = m.zone
        BY <1>7, <1>12, <1>13, <2>2
      <3>2. m.pair[v] # NoUid => m.pair[v] \in Uids \ {pilot, unit}
        BY <1>7, <1>9, <3>1, NoUidIs DEF PairOf
      <3>3. m.pair[v] # NoUid => f[m.pair[v]] = m.pair[m.pair[v]]
        BY <1>12, <3>2
      <3> QED BY <1>13, <3>1, <3>3 DEF PairOf
    <2> QED BY <2>1, <2>2
  <1>16. Steps(s, t)
    BY <1>7, <1>13, <1>14, <1>15, NoView DEF Steps, Inv, Whole
  <1>17. Steps(t, record(t, pilot))
    BY <1>16, Records DEF Steps
  <1>18. Steps(record(t, pilot), derived(record(t, pilot)))
    BY <1>17, Derives DEF Steps
  <1>19. pair(s, pilot, unit) = derived(record(t, pilot))
    BY <1>11 DEF pair, m
  <1> QED BY <1>16, <1>17, <1>18, <1>19, StepsTrans
-----------------------------------------------------------------------------
(* Operations on one card after another.                                   *)

\* A fold over the places of a list, the last one outermost.
LastOut(h, n, G, base) ==
  h = [T \in SUBSET (1 .. n) |-> IF T = {} THEN base ELSE G[<<Max(T), h[T \ {Max(T)}]>>]]

\* There is one with values in X.
LEMMA FoldIn ==
  ASSUME NEW n \in Nat, NEW X, NEW base \in X, NEW G \in [(1 .. n) \X X -> X]
  PROVE  \E h \in [SUBSET (1 .. n) -> X] : LastOut(h, n, G, base)
  <1> DEFINE S == 1 .. n
             c == [T \in SUBSET S |-> Max(T)]
  <1>1. IsFiniteSet(S)
    BY FS_Interval
  <1>2. \A T \in SUBSET S : T # {} => c[T] \in T
    BY Greatest
  <1> HIDE DEF c
  <1>3. PICK h : h = Folded(h, S, c, G, base)
    BY <1>1, <1>2, FoldExists
  <1>4. /\ DOMAIN h = SUBSET S /\ h[{}] = base
        /\ \A T \in SUBSET S : T # {} => h[T] = G[<<c[T], h[T \ {c[T]}]>>]
    BY <1>3 DEF Folded
  <1> DEFINE Y == {T \in SUBSET S : h[T] \in X}
  <1>5. ASSUME NEW T \in SUBSET S, \A y \in T : T \ {y} \in Y PROVE T \in Y
    <2>1. CASE T = {}
      BY <1>4, <2>1
    <2>2. CASE T # {}
      <3>1. c[T] \in T /\ c[T] \in 1 .. n /\ h[T \ {c[T]}] \in X
        BY <1>2, <1>5, <2>2
      <3> QED BY <1>4, <2>2, <3>1
    <2> QED BY <2>1, <2>2
  <1>6. SUBSET S \subseteq Y
    <2> HIDE DEF Y, S
    <2> QED BY <1>1, <1>5, AllSubsets
  <1>7. h \in [SUBSET S -> X]
    BY <1>3, <1>6 DEF Folded
  <1>8. LastOut(h, n, G, base)
    BY <1>3 DEF Folded, c, LastOut
  <1> QED BY <1>7, <1>8

\* What each step keeps, the whole fold keeps.
LEMMA FoldValue ==
  ASSUME NEW n \in Nat, NEW X, NEW g, g[{}] \in X,
         \A T \in SUBSET (1 .. n) : T # {} /\ g[T \ {Max(T)}] \in X => g[T] \in X
  PROVE  g[1 .. n] \in X
  <1> DEFINE S == 1 .. n
             Y == {T \in SUBSET S : g[T] \in X}
  <1>1. IsFiniteSet(S)
    BY FS_Interval
  <1>2. ASSUME NEW T \in SUBSET S, \A y \in T : T \ {y} \in Y PROVE T \in Y
    <2>1. CASE T = {}
      BY <2>1
    <2>2. CASE T # {}
      <3>1. Max(T) \in T
        BY <2>2, Greatest
      <3> QED BY <1>2, <2>2, <3>1
    <2> QED BY <2>1, <2>2
  <1>3. SUBSET S \subseteq Y
    <2> HIDE DEF Y, S
    <2> QED BY <1>1, <1>2, AllSubsets
  <1> QED BY <1>3

\* The states after some steps.
After(s) == {t \in States(s) : Steps(s, t)}

\* A card dealt or made that is no Resource may come to zone dst.
Movable(s, u, dst) ==
  s.zone[u] # "none" /\ u \notin Resources(table) /\ (dst = "Shield" => u \in Main(table))

\* Every card that is not among the Resources, and not on the field if it is to be a Shield.
LEMMA MovableIs ==
  ASSUME NEW s, Inv(s), NEW u \in Uids, s.zone[u] \notin {"none", "ResourceArea", "ResourceDeck"}, NEW dst,
         dst = "Shield" => s.zone[u] \notin {"Battle", "Outside"}
  PROVE  Movable(s, u, dst)
  <1>1. FitsZone(s.def[u], s.zone[u], s.damage[u], s.known[u]) /\ IsDealt(table, u, s.def[u], s.zone[u])
    BY DEF Inv, Whole, Fit
  <1>2. s.def[u] # Resource
    BY <1>1 DEF FitsZone
  <1>3. dst = "Shield" => s.def[u] \notin Tokens
    BY <1>1 DEF FitsZone
  <1> QED BY <1>1, <1>2, <1>3 DEF Movable, IsDealt

\* Cards that leave the field or their list for one of these zones may move.
LEMMA MayLeave ==
  ASSUME NEW s, Inv(s), NEW u \in Uids,
         NEW dst \in {"Hand", "Deck", "Shield", "Trash", "Resolving"}, Movable(s, u, dst)
  PROVE  MayMove(s, u, dst) /\ dst # "Paired"
  <1>1. IsDealt(table, u, s.def[u], s.zone[u])
    BY DEF Inv, Whole, Fit
  <1>2. s.def[u] # Resource /\ (dst = "Shield" => s.def[u] \notin Tokens)
    BY <1>1 DEF IsDealt, Movable, Resource, Tokens, UnitToken, ExResource
  <1> QED BY <1>2 DEF Movable, MayMove, MayCome, ListedZones, HiddenZones, PublicZones

\* A card that moves in a state after some.
LEMMA MovesAfter ==
  ASSUME NEW s, Inv(s), NEW t \in After(s), NEW u \in Uids,
         NEW dst \in {"Hand", "Deck", "Shield", "Trash", "Resolving"}, Movable(s, u, dst), NEW o \in Options
  PROVE  move_card(t, u, dst, o) \in After(s)
  <1> DEFINE r == move_card(t, u, dst, o)
  <1>1. Inv(t) /\ Movable(t, u, dst) /\ t \in States(s) /\ Steps(s, t)
    BY DEF After, Steps, Movable
  <1>2. Steps(t, r) /\ r \in States(t)
    BY <1>1, MayLeave, Moves1
  <1> HIDE DEF r
  <1>3. Steps(s, r) /\ r \in States(s)
    BY <1>1, <1>2, StepsTrans, StatesTrans
  <1> QED BY <1>3 DEF After, r

\* A card is recorded in a state after some.
LEMMA RecordsAfter ==
  ASSUME NEW s, Inv(s), NEW t \in After(s), NEW u \in Uids
  PROVE  record(t, u) \in After(s)
  <1> DEFINE r == record(t, u)
  <1>1. Inv(t) /\ t \in States(s) /\ Steps(s, t)
    BY DEF After, Steps
  <1>2. Steps(t, r) /\ r \in States(t)
    BY <1>1, Records
  <1> HIDE DEF r
  <1>3. Steps(s, r) /\ r \in States(s)
    BY <1>1, <1>2, StepsTrans, StatesTrans
  <1> QED BY <1>3 DEF After, r

\* Every good state is after itself.
LEMMA AfterSelf == ASSUME NEW s, Inv(s) PROVE s \in After(s)
  BY StepsSelf DEF After, Inv, Whole, Typed

\* move_all moves the cards of a list.
LEMMA MovesAll ==
  ASSUME NEW s, Inv(s), NEW us \in Seq(Uids), NEW dst \in {"Hand", "Deck", "Shield", "Trash"},
         \A i \in 1 .. Len(us) : Movable(s, us[i], dst), NEW o \in Options
  PROVE  Steps(s, move_all(s, us, dst, o))
  <1> DEFINE n == Len(us)
             X == After(s)
             It(h) == [T \in SUBSET (1 .. n) |-> IF T = {} THEN s
                         ELSE move_card(h[T \ {Max(T)}], us[Max(T)], dst, o)]
             g == CHOOSE h : h = It(h)
             G == [p \in (1 .. n) \X X |-> move_card(p[2], us[p[1]], dst, o)]
  <1>1. n \in Nat /\ DOMAIN us = 1 .. n /\ s \in X
    BY AfterSelf
  <1>2. move_all(s, us, dst, o) = g[1 .. n]
    BY <1>1 DEF move_all, FoldLeft, MapThenFoldSet
  <1>3. \A i \in 1 .. n : \A t \in X : move_card(t, us[i], dst, o) \in X
    BY MovesAfter
  <1> HIDE DEF X
  <1>4. G \in [(1 .. n) \X X -> X]
    BY <1>3
  <1>5. \E h : h = It(h)
    <2>1. PICK h \in [SUBSET (1 .. n) -> X] : LastOut(h, n, G, s)
      <3> HIDE DEF G
      <3> QED BY <1>1, <1>4, FoldIn
    <2>2. ASSUME NEW T \in SUBSET (1 .. n), T # {}
          PROVE  G[<<Max(T), h[T \ {Max(T)}]>>] = move_card(h[T \ {Max(T)}], us[Max(T)], dst, o)
      <3>1. Max(T) \in 1 .. n /\ h[T \ {Max(T)}] \in X
        BY <2>2, <1>1, Greatest
      <3> QED BY <3>1
    <2> HIDE DEF G
    <2>3. h = It(h)
      BY <2>1, <2>2 DEF LastOut
    <2> QED BY <2>3
  <1>6. g = It(g)
    <2> HIDE DEF It
    <2> QED BY <1>5
  <1> HIDE DEF g
  <1>7. g[{}] \in X
    BY <1>1, <1>6
  <1>8. ASSUME NEW T \in SUBSET (1 .. n), T # {}, g[T \ {Max(T)}] \in X PROVE g[T] \in X
    <2>1. Max(T) \in 1 .. n
      BY <1>1, <1>8, Greatest
    <2> QED BY <1>3, <1>6, <1>8, <2>1
  <1>9. g[1 .. n] \in X
    BY <1>1, <1>7, <1>8, FoldValue
  <1> QED BY <1>2, <1>9 DEF X, After

\* move_recorded moves and records them.
LEMMA MovesRecorded ==
  ASSUME NEW s, Inv(s), NEW us \in Seq(Uids), NEW dst \in {"Hand", "Deck", "Shield", "Trash", "Resolving"},
         \A i \in 1 .. Len(us) : Movable(s, us[i], dst), NEW o \in Options
  PROVE  Steps(s, move_recorded(s, us, dst, o))
  <1> DEFINE n == Len(us)
             X == After(s)
             Op(t, u) == record(move_card(t, u, dst, o), u)
             It(h) == [T \in SUBSET (1 .. n) |-> IF T = {} THEN s ELSE Op(h[T \ {Max(T)}], us[Max(T)])]
             g == CHOOSE h : h = It(h)
             G == [p \in (1 .. n) \X X |-> Op(p[2], us[p[1]])]
  <1>1. n \in Nat /\ DOMAIN us = 1 .. n /\ s \in X
    BY AfterSelf
  <1>2. move_recorded(s, us, dst, o) = g[1 .. n]
    BY <1>1 DEF move_recorded, FoldLeft, MapThenFoldSet
  <1>3. \A i \in 1 .. n : \A t \in X : Op(t, us[i]) \in X
    BY MovesAfter, RecordsAfter
  <1> HIDE DEF X, Op
  <1>4. G \in [(1 .. n) \X X -> X]
    BY <1>3
  <1>5. \E h : h = It(h)
    <2>1. PICK h \in [SUBSET (1 .. n) -> X] : LastOut(h, n, G, s)
      <3> HIDE DEF G
      <3> QED BY <1>1, <1>4, FoldIn
    <2>2. ASSUME NEW T \in SUBSET (1 .. n), T # {}
          PROVE  G[<<Max(T), h[T \ {Max(T)}]>>] = Op(h[T \ {Max(T)}], us[Max(T)])
      <3>1. Max(T) \in 1 .. n /\ h[T \ {Max(T)}] \in X
        BY <2>2, <1>1, Greatest
      <3> QED BY <3>1
    <2> HIDE DEF G
    <2>3. h = It(h)
      BY <2>1, <2>2 DEF LastOut
    <2> QED BY <2>3
  <1>6. g = It(g)
    <2> HIDE DEF It
    <2> QED BY <1>5
  <1> HIDE DEF g
  <1>7. g[{}] \in X
    BY <1>1, <1>6
  <1>8. ASSUME NEW T \in SUBSET (1 .. n), T # {}, g[T \ {Max(T)}] \in X PROVE g[T] \in X
    <2>1. Max(T) \in 1 .. n
      BY <1>1, <1>8, Greatest
    <2> QED BY <1>3, <1>6, <1>8, <2>1
  <1>9. g[1 .. n] \in X
    BY <1>1, <1>7, <1>8, FoldValue
  <1> QED BY <1>2, <1>9 DEF X, After
\* Cards recorded in any order.
LEMMA RecordsAll ==
  ASSUME NEW s, Inv(s), NEW us \in SUBSET Uids, IsFiniteSet(us)
  PROVE  Steps(s, FoldSet(LAMBDA u, acc : record(acc, u), s, us))
  <1> DEFINE X == After(s)
             It(h) == [T \in SUBSET us |-> IF T = {} THEN s
                         ELSE record(h[T \ {CHOOSE x \in T : TRUE}], CHOOSE x \in T : TRUE)]
             g == CHOOSE h : h = It(h)
             c == [T \in SUBSET us |-> CHOOSE x \in T : TRUE]
             G == [p \in us \X X |-> record(p[2], p[1])]
  <1>1. s \in X
    BY AfterSelf
  <1>2. FoldSet(LAMBDA u, acc : record(acc, u), s, us) = g[us]
    BY DEF FoldSet, MapThenFoldSet
  <1>3. \A u \in us : \A t \in X : record(t, u) \in X
    BY RecordsAfter
  <1>4. \A T \in SUBSET us : T # {} => c[T] \in T /\ c[T] = CHOOSE x \in T : TRUE
    OBVIOUS
  <1> HIDE DEF X
  <1>5. \E h : h = It(h)
    <2>1. PICK h : h = Folded(h, us, c, G, s)
      <3> HIDE DEF c, G
      <3> QED BY <1>4, FoldExists
    <2> HIDE DEF c, G
    <2>2. /\ DOMAIN h = SUBSET us /\ h[{}] = s
          /\ \A T \in SUBSET us : T # {} => h[T] = G[<<c[T], h[T \ {c[T]}]>>]
      BY <2>1 DEF Folded
    <2> DEFINE Y == {T \in SUBSET us : h[T] \in X}
    <2>3. ASSUME NEW T \in SUBSET us, T # {}, h[T \ {c[T]}] \in X
          PROVE  h[T] = record(h[T \ {c[T]}], c[T])
      <3>1. c[T] \in us
        BY <1>4, <2>3
      <3> QED BY <2>2, <2>3, <3>1 DEF G
    <2>4. ASSUME NEW T \in SUBSET us, \A y \in T : T \ {y} \in Y PROVE T \in Y
      <3>1. CASE T = {}
        BY <1>1, <2>2, <3>1
      <3>2. CASE T # {}
        <4>1. c[T] \in T
          BY <1>4, <3>2
        <4>2. h[T \ {c[T]}] \in X
          BY <2>4, <4>1
        <4> QED BY <1>3, <2>3, <3>2, <4>1, <4>2
      <3> QED BY <3>1, <3>2
    <2>5. SUBSET us \subseteq Y
      <3> HIDE DEF Y
      <3> QED BY <2>4, AllSubsets
    <2>6. ASSUME NEW T \in SUBSET us, T # {} PROVE h[T] = record(h[T \ {c[T]}], c[T])
      BY <2>3, <2>5, <2>6
    <2>7. h = It(h)
      <3>1. ASSUME NEW T \in SUBSET us PROVE h[T] = It(h)[T]
        BY <1>4, <2>2, <2>6
      <3>2. h = [T \in SUBSET us |-> h[T]]
        BY <2>1 DEF Folded
      <3>3. It(h) = [T \in SUBSET us |-> It(h)[T]]
        OBVIOUS
      <3> HIDE DEF It
      <3> QED BY <3>1, <3>2, <3>3
    <2> QED BY <2>7
  <1>6. g = It(g)
    <2> HIDE DEF It
    <2> QED BY <1>5
  <1> HIDE DEF g
  <1>7. g[{}] = s /\ \A T \in SUBSET us : T # {} => g[T] = record(g[T \ {c[T]}], c[T])
    BY <1>4, <1>6
  <1> DEFINE Y == {T \in SUBSET us : g[T] \in X}
  <1>8. ASSUME NEW T \in SUBSET us, \A y \in T : T \ {y} \in Y PROVE T \in Y
    <2> HIDE DEF c
    <2>1. CASE T = {}
      BY <1>1, <1>7, <2>1
    <2>2. CASE T # {}
      <3>1. c[T] \in T
        BY <1>4, <2>2
      <3> QED BY <1>3, <1>7, <1>8, <2>2, <3>1
    <2> QED BY <2>1, <2>2
  <1>9. SUBSET us \subseteq Y
    <2> HIDE DEF Y
    <2> QED BY <1>8, AllSubsets
  <1>10. g[us] \in X
    BY <1>9
  <1> QED BY <1>2, <1>10 DEF X, After

\* Payable: Resources of one kind in their area.
LEMMA PayableIs ==
  ASSUME NEW s, Inv(s), NEW d
  PROVE  Payable(s, d) \in Seq({u \in Uids : s.zone[u] = "ResourceArea" /\ s.def[u] = d})
  <1> DEFINE l == s.list["ResourceArea"]
             n == Len(l)
             E == {u \in Uids : s.zone[u] = "ResourceArea" /\ s.def[u] = d}
             X == Seq(E)
             Op(us, u) == IF s.def[u] = d /\ ~s.rested[u] THEN Append(us, u) ELSE us
             It(h) == [T \in SUBSET (1 .. n) |-> IF T = {} THEN <<>> ELSE Op(h[T \ {Max(T)}], l[Max(T)])]
             g == CHOOSE h : h = It(h)
             G == [p \in (1 .. n) \X X |-> Op(p[2], l[p[1]])]
  <1>1. l \in Seq(Uids) /\ ToSet(l) = {u \in Uids : s.zone[u] = "ResourceArea"}
    BY Fields DEF Inv, Whole, Where, Lists, ListedZones, PublicZones
  <1>2. n \in Nat /\ DOMAIN l = 1 .. n /\ <<>> \in X
    BY <1>1
  <1>3. Payable(s, d) = g[1 .. n]
    BY <1>2 DEF Payable, FoldLeft, MapThenFoldSet
  <1>4. \A i \in 1 .. n : \A us \in X : Op(us, l[i]) \in X
    <2> SUFFICES ASSUME NEW i \in 1 .. n, NEW us \in X PROVE Op(us, l[i]) \in X
      OBVIOUS
    <2>1. l[i] \in Uids /\ s.zone[l[i]] = "ResourceArea"
      BY <1>1, Elements
    <2>2. s.def[l[i]] = d => l[i] \in E
      BY <2>1
    <2> HIDE DEF E
    <2> QED BY <2>2
  <1> HIDE DEF X, Op, l, E
  <1>5. G \in [(1 .. n) \X X -> X]
    BY <1>4
  <1>6. \E h : h = It(h)
    <2>1. PICK h \in [SUBSET (1 .. n) -> X] : LastOut(h, n, G, <<>>)
      <3> HIDE DEF G
      <3> QED BY <1>2, <1>5, FoldIn
    <2>2. ASSUME NEW T \in SUBSET (1 .. n), T # {}
          PROVE  G[<<Max(T), h[T \ {Max(T)}]>>] = Op(h[T \ {Max(T)}], l[Max(T)])
      <3>1. Max(T) \in 1 .. n /\ h[T \ {Max(T)}] \in X
        BY <2>2, <1>2, Greatest
      <3> QED BY <3>1
    <2> HIDE DEF G
    <2>3. h = It(h)
      BY <2>1, <2>2 DEF LastOut
    <2> QED BY <2>3
  <1>7. g = It(g)
    <2> HIDE DEF It
    <2> QED BY <1>6
  <1> HIDE DEF g
  <1>8. g[{}] \in X
    BY <1>2, <1>7
  <1>9. ASSUME NEW T \in SUBSET (1 .. n), T # {}, g[T \ {Max(T)}] \in X PROVE g[T] \in X
    <2>1. Max(T) \in 1 .. n
      BY <1>2, <1>9, Greatest
    <2> QED BY <1>4, <1>7, <1>9, <2>1
  <1>10. g[1 .. n] \in X
    BY <1>2, <1>8, <1>9, FoldValue
  <1> QED BY <1>3, <1>10 DEF X, E

\* pay_generic: Resources rest, EX Resources leave.
LEMMA Pays ==
  ASSUME NEW s, Inv(s), NEW normal \in 0 .. Len(Payable(s, Resource)),
         NEW ex \in 0 .. Len(Payable(s, ExResource))
  PROVE  LET t == pay_generic(s, normal, ex) IN
         /\ Steps(s, t) /\ t.def = s.def /\ t.pair = s.pair
         /\ \A v \in Uids : s.def[v] # ExResource => t.zone[v] = s.zone[v]
  <1> DEFINE first == ToSet(SubSeq(Payable(s, Resource), 1, normal))
             f == [u \in Uids |-> u \in first \/ s.rested[u]]
             laid == [s EXCEPT !.rested = f]
             us == SubSeq(Payable(s, ExResource), 1, ex)
             n == Len(us)
             E == {u \in Uids : s.zone[u] = "ResourceArea" /\ s.def[u] = ExResource}
             X == {t \in States(s) : /\ Whole(t) /\ t.def = s.def /\ t.pair = s.pair
                                     /\ \A v \in Uids \ E : t.zone[v] = s.zone[v]
                                     /\ \A v \in E : t.zone[v] \in {"ResourceArea", "Outside"}}
             Op(acc, u) == record(remove_from_game([acc EXCEPT !.rested[u] = TRUE], u), u)
             It(h) == [T \in SUBSET (1 .. n) |-> IF T = {} THEN laid ELSE Op(h[T \ {Max(T)}], us[Max(T)])]
             g == CHOOSE h : h = It(h)
             G == [p \in (1 .. n) \X X |-> Op(p[2], us[p[1]])]
  <1>1. Whole(s) /\ Typed(s) /\ s.rested \in [Uids -> BOOLEAN] /\ s.def \in [Uids -> Defs]
    BY Fields DEF Inv, Whole
  <1>2. us \in Seq(E)
    BY PayableIs, FirstIs
  <1>3. n \in Nat /\ DOMAIN us = 1 .. n /\ \A i \in 1 .. n : us[i] \in E
    BY <1>2
  <1>4. f \in [Uids -> BOOLEAN]
    BY <1>1
  <1> HIDE DEF us, f
  <1>5. laid \in X
    <2>1. /\ Whole(laid) /\ laid \in States(s) /\ laid.def = s.def /\ laid.zone = s.zone /\ laid.pair = s.pair
      <3>1. CASE Uids = {}
        BY <1>1, <1>4, <3>1, SameCards, StatesTrans DEF Typed, States
      <3>2. CASE Uids # {}
        BY <1>1, <1>4, <3>2, StaysWhole
      <3> QED BY <3>1, <3>2
    <2> HIDE DEF laid
    <2> QED BY <2>1
  <1> DEFINE out == FoldLeft(LAMBDA acc, u : record(remove_from_game([acc EXCEPT !.rested[u] = TRUE], u), u),
                             laid, us)
  <1>6. pay_generic(s, normal, ex) = IF normal + ex = 0 THEN s ELSE touch(out)
    BY DEF pay_generic, us, f
  <1>7. out = g[1 .. n]
    BY <1>3 DEF FoldLeft, MapThenFoldSet
  <1>8. \A i \in 1 .. n : \A t \in X : Op(t, us[i]) \in X
    <2> SUFFICES ASSUME NEW u \in E, NEW t \in X PROVE Op(t, u) \in X
      BY <1>3
    <2> DEFINE a == [t EXCEPT !.rested[u] = TRUE]
               b == remove_from_game(a, u)
               r == record(b, u)
               f2 == [t.rested EXCEPT ![u] = TRUE]
    <2>1. Whole(t) /\ Typed(t) /\ t.rested \in [Uids -> BOOLEAN] /\ t \in States(s)
      BY <1>1, StatesTrans, Fields DEF Whole
    <2>2. f2 \in [Uids -> BOOLEAN] /\ a = [t EXCEPT !.rested = f2]
      BY <2>1
    <2> HIDE DEF a, f2
    <2>3. Whole(a) /\ a \in States(t) /\ a.def = t.def /\ a.zone = t.zone /\ a.pair = t.pair
      BY <2>1, <2>2, StaysWhole
    <2>4. u \in Uids /\ a.def[u] = ExResource /\ a.zone[u] \in {"ResourceArea", "Outside"}
      BY <2>3
    <2>5. Whole(b) /\ b \in States(a) /\ b.def = a.def /\ b.pair = a.pair
          /\ b.zone = [a.zone EXCEPT ![u] = "Outside"]
      BY <2>3, <2>4, RemovesFromGame
    <2> HIDE DEF b
    <2>6. Whole(r) /\ r \in States(b) /\ r.def = b.def /\ r.pair = b.pair /\ r.zone = b.zone
      BY <1>1, <2>4, <2>5, StaysWhole
    <2> HIDE DEF r
    <2>7. r \in States(s)
      BY <2>1, <2>3, <2>5, <2>6, StatesTrans
    <2>8. a.zone \in [Uids -> Zones]
      BY <2>3, Fields DEF Whole
    <2>9. \A v \in Uids \ E : r.zone[v] = s.zone[v]
      BY <2>3, <2>5, <2>6, <2>8
    <2>10. \A v \in E : r.zone[v] \in {"ResourceArea", "Outside"}
      BY <2>3, <2>5, <2>6, <2>8
    <2>11. r.def = s.def /\ r.pair = s.pair
      BY <2>3, <2>5, <2>6
    <2> HIDE DEF E
    <2> QED BY <2>6, <2>7, <2>9, <2>10, <2>11 DEF r, b, a
  <1> HIDE DEF X, Op, out, laid
  <1>9. G \in [(1 .. n) \X X -> X]
    BY <1>8
  <1>10. \E h : h = It(h)
    <2>1. PICK h \in [SUBSET (1 .. n) -> X] : LastOut(h, n, G, laid)
      <3> HIDE DEF G
      <3> QED BY <1>3, <1>5, <1>9, FoldIn
    <2>2. ASSUME NEW T \in SUBSET (1 .. n), T # {}
          PROVE  G[<<Max(T), h[T \ {Max(T)}]>>] = Op(h[T \ {Max(T)}], us[Max(T)])
      <3>1. Max(T) \in 1 .. n /\ h[T \ {Max(T)}] \in X
        BY <2>2, <1>3, Greatest
      <3> QED BY <3>1
    <2> HIDE DEF G
    <2>3. h = It(h)
      BY <2>1, <2>2 DEF LastOut
    <2> QED BY <2>3
  <1>11. g = It(g)
    <2> HIDE DEF It
    <2> QED BY <1>10
  <1> HIDE DEF g
  <1>12. g[{}] \in X
    BY <1>5, <1>11
  <1>13. ASSUME NEW T \in SUBSET (1 .. n), T # {}, g[T \ {Max(T)}] \in X PROVE g[T] \in X
    <2>1. Max(T) \in 1 .. n
      BY <1>3, <1>13, Greatest
    <2> QED BY <1>8, <1>11, <1>13, <2>1
  <1>14. out \in X
    BY <1>3, <1>7, <1>12, <1>13, FoldValue
  <1>15. CASE normal + ex = 0
    BY <1>6, <1>15, StepsSelf
  <1>16. CASE normal + ex # 0
    <2> DEFINE t == touch(out)
    <2>1. /\ out \in States(s) /\ Whole(out) /\ out.def = s.def /\ out.pair = s.pair /\ Typed(out)
          /\ \A v \in Uids \ E : out.zone[v] = s.zone[v]
          /\ \A v \in E : out.zone[v] \in {"ResourceArea", "Outside"}
      BY <1>14 DEF X, Whole
    <2>2. /\ t \in States(out) /\ t.cache = {} /\ t.def = out.def /\ t.zone = out.zone /\ t.pair = out.pair
          /\ t.damage = out.damage /\ t.known = out.known /\ t.list = out.list
      BY <2>1, Touched
    <2>3. pay_generic(s, normal, ex) = t
      BY <1>6, <1>16
    <2> HIDE DEF t
    <2>4. Typed(t) /\ t \in States(s)
      BY <2>1, <2>2, StatesTrans
    <2>5. Whole(t)
      BY <2>1, <2>2, <2>4, SameCards
    <2>6. t.phase = s.phase /\ t.task = s.task
      BY <2>4 DEF States
    <2>7. \A v \in Uids : t.zone[v] = "none" <=> s.zone[v] = "none"
      BY <2>1, <2>2
    <2> QED BY <2>1, <2>2, <2>3, <2>5, <2>6, <2>7, NoView DEF Steps, Inv
  <1> QED BY <1>15, <1>16

\* A list without the cards of another.
LEMMA WithoutThem ==
  ASSUME NEW deck \in Seq(Uids), Distinct(deck), NEW order \in Seq(Uids)
  PROVE  LET m == FoldLeft(RemoveFirst, deck, order) IN
         m \in Seq(Uids) /\ Distinct(m) /\ ToSet(m) = ToSet(deck) \ ToSet(order)
  <1> DEFINE n == Len(order)
             X == {m \in Seq(Uids) : Distinct(m)}
             It(h) == [T \in SUBSET (1 .. n) |-> IF T = {} THEN deck
                         ELSE RemoveFirst(h[T \ {Max(T)}], order[Max(T)])]
             g == CHOOSE h : h = It(h)
             G == [p \in (1 .. n) \X X |-> RemoveFirst(p[2], order[p[1]])]
             S == 1 .. n
             gone(T) == {order[i] : i \in T}
             Y == {T \in SUBSET S : g[T] \in X /\ ToSet(g[T]) = ToSet(deck) \ gone(T)}
  <1>1. n \in Nat /\ DOMAIN order = 1 .. n /\ deck \in X /\ IsFiniteSet(S)
    BY FS_Interval
  <1>2. FoldLeft(RemoveFirst, deck, order) = g[1 .. n]
    BY <1>1 DEF FoldLeft, MapThenFoldSet
  <1>3. \A m \in X : \A u : RemoveFirst(m, u) \in X /\ ToSet(RemoveFirst(m, u)) = ToSet(m) \ {u}
    BY RemoveFirstIs
  <1> HIDE DEF X
  <1>4. G \in [(1 .. n) \X X -> X]
    BY <1>3
  <1>5. \E h : h = It(h)
    <2>1. PICK h \in [SUBSET (1 .. n) -> X] : LastOut(h, n, G, deck)
      <3> HIDE DEF G
      <3> QED BY <1>1, <1>4, FoldIn
    <2>2. ASSUME NEW T \in SUBSET (1 .. n), T # {}
          PROVE  G[<<Max(T), h[T \ {Max(T)}]>>] = RemoveFirst(h[T \ {Max(T)}], order[Max(T)])
      <3>1. Max(T) \in 1 .. n /\ h[T \ {Max(T)}] \in X
        BY <2>2, <1>1, Greatest
      <3> QED BY <3>1
    <2> HIDE DEF G
    <2>3. h = It(h)
      BY <2>1, <2>2 DEF LastOut
    <2> QED BY <2>3
  <1>6. g = It(g)
    <2> HIDE DEF It
    <2> QED BY <1>5
  <1> HIDE DEF g
  <1>7. ASSUME NEW T \in SUBSET S, \A y \in T : T \ {y} \in Y PROVE T \in Y
    <2>1. CASE T = {}
      <3>1. g[T] = deck
        BY <1>6, <2>1
      <3> QED BY <1>1, <2>1, <3>1
    <2>2. CASE T # {}
      <3>1. Max(T) \in T /\ Max(T) \in 1 .. n
        BY <1>1, <2>2, Greatest
      <3> DEFINE k == Max(T)
                 m == g[T \ {k}]
      <3>2. m \in X /\ ToSet(m) = ToSet(deck) \ gone(T \ {k})
        BY <1>7, <3>1
      <3>3. g[T] = RemoveFirst(m, order[k])
        BY <1>6, <2>2
      <3>4. gone(T) = gone(T \ {k}) \cup {order[k]}
        BY <3>1
      <3> HIDE DEF m, k, gone
      <3>5. g[T] \in X /\ ToSet(g[T]) = ToSet(m) \ {order[k]}
        BY <1>3, <3>2, <3>3
      <3>6. ToSet(g[T]) = ToSet(deck) \ gone(T)
        BY <3>2, <3>4, <3>5
      <3> QED BY <3>5, <3>6
    <2> QED BY <2>1, <2>2
  <1>8. SUBSET S \subseteq Y
    <2> HIDE DEF Y, S
    <2> QED BY <1>1, <1>7, AllSubsets
  <1>9. gone(S) = ToSet(order)
    BY <1>1 DEF ToSet
  <1>10. S \in Y
    BY <1>8
  <1> HIDE DEF gone
  <1> QED BY <1>2, <1>9, <1>10 DEF X

\* place_ordered puts some cards of the deck at one end.
LEMMA PlacesOrdered ==
  ASSUME NEW s, Inv(s), NEW order \in Seq(Uids), Distinct(order), ToSet(order) \subseteq InZone(s, "Deck"),
         NEW bottom \in BOOLEAN
  PROVE  LET t == place_ordered(s, order, bottom) IN
         Steps(s, t) /\ t.zone = s.zone /\ t.def = s.def /\ t.known = s.known
  <1> DEFINE deck == s.list["Deck"]
             others == FoldLeft(RemoveFirst, deck, order)
             new == IF bottom THEN others \o order ELSE order \o others
  <1>1. deck \in Seq(Uids) /\ Distinct(deck)
    BY Fields DEF Inv, Whole, Where, Lists, ListedZones, HiddenZones
  <1>2. others \in Seq(Uids) /\ Distinct(others) /\ ToSet(others) = ToSet(deck) \ ToSet(order)
    BY <1>1, WithoutThem
  <1> HIDE DEF others
  <1>3. /\ others \o order \in Seq(Uids) /\ Distinct(others \o order)
        /\ ToSet(others \o order) = ToSet(others) \cup ToSet(order)
    BY <1>2, ConcatIs
  <1>4. /\ order \o others \in Seq(Uids) /\ Distinct(order \o others)
        /\ ToSet(order \o others) = ToSet(order) \cup ToSet(others)
    BY <1>2, ConcatIs
  <1>5. ToSet(order) \subseteq ToSet(deck)
    BY DEF InZone
  <1>6. new \in Seq(Uids) /\ Distinct(new) /\ ToSet(new) = ToSet(deck)
    BY <1>2, <1>3, <1>4, <1>5
  <1>7. place_ordered(s, order, bottom) = touch([s EXCEPT !.list["Deck"] = new])
    BY DEF place_ordered, others
  <1> HIDE DEF new
  <1> QED BY <1>6, <1>7, NewOrder
-----------------------------------------------------------------------------
(* Handlers, and the decision one may wait for.                            *)

\* The decision a handler waits for is about cards that are there, and it is asked during play.
Waits(s, task, new) ==
  \/ task = NoTask
  \/ /\ s.phase = "play" /\ task.op = "deploy"
     /\ task.card \in Uids /\ s.zone[task.card] \in {"Hand", "Trash", "Deck", "Shield", "Resolving"}
     /\ IsUnit(s.def[task.card]) /\ task.as_unit \in BOOLEAN /\ task.rested \in BOOLEAN
  \/ /\ s.phase = "play" /\ task.op = "token"
     /\ \E u \in new : s.zone[u] = "none"
     /\ task.rested \in BOOLEAN
  \/ /\ s.phase = "play"
     /\ task \in [op : {"order"}, left : SUBSET Uids, picked : Seq(Uids), bottom : BOOLEAN]
     /\ Distinct(task.picked) /\ ToSet(task.picked) \cap task.left = {}
     /\ \A u \in task.left \cup ToSet(task.picked) : s.zone[u] = "Deck"

Good(s) == Inv(s) /\ Waits(s, s.task, NewCards(table))

BInv == table \in Tables /\ Good(st)

\* The cards and resources of a game are cards of its state.
LEMMA UidsAre ==
  ASSUME NEW t \in Tables
  PROVE  /\ Uids \subseteq Nat \ {0} /\ IsFiniteSet(Uids) /\ 1 .. Size(t) \subseteq Uids
         /\ Main(t) \subseteq Uids /\ Resources(t) \subseteq Uids /\ NewCards(t) \subseteq Uids
  <1> DEFINE N == {Size(x) : x \in Tables}
             max == CHOOSE n \in N : \A x \in Tables : Size(x) <= n
             Y == {T \in SUBSET Tables : T = {} \/ \E x \in T : \A y \in T : Size(y) <= Size(x)}
  <1>1. \A x \in Tables : /\ Len(x.main) \in Nat /\ x.resources \in Nat /\ x.tokens \in Nat
                          /\ Size(x) \in Nat /\ x.main \in Seq({Unit, Pilot})
    BY BoardAssumption DEF Size
  <1>2. ASSUME NEW T \in SUBSET Tables, \A y \in T : T \ {y} \in Y PROVE T \in Y
    <2>1. CASE T = {}
      BY <2>1
    <2>2. CASE T # {}
      <3>1. PICK a \in T : TRUE
        BY <2>2
      <3>2. CASE T \ {a} = {}
        <4>1. T = {a} /\ Size(a) <= Size(a)
          BY <1>1, <3>1, <3>2
        <4> QED BY <4>1
      <3>3. CASE T \ {a} # {}
        <4>1. PICK b \in T \ {a} : \A y \in T \ {a} : Size(y) <= Size(b)
          BY <1>2, <3>1, <3>3
        <4>2. CASE Size(a) <= Size(b)
          <5>1. \A y \in T : Size(y) <= Size(b)
            BY <4>1, <4>2
          <5> QED BY <5>1
        <4>3. CASE ~(Size(a) <= Size(b))
          <5>1. \A y \in T : Size(y) \in Nat /\ Size(a) \in Nat /\ Size(b) \in Nat
            BY <1>1
          <5>2. \A y \in T : Size(y) <= Size(a)
            BY <4>1, <4>3, <5>1
          <5> QED BY <3>1, <5>2
        <4> QED BY <4>2, <4>3
      <3> QED BY <3>2, <3>3
    <2> QED BY <2>1, <2>2
  <1>3. SUBSET Tables \subseteq Y
    <2> HIDE DEF Y
    <2> QED BY <1>2, AllSubsets, BoardAssumption
  <1>4. \E x \in Tables : \A y \in Tables : Size(y) <= Size(x)
    <2>1. Tables \in Y
      BY <1>3
    <2> QED BY <2>1
  <1>5. \E n \in N : \A x \in Tables : Size(x) <= n
    BY <1>4
  <1>6. max \in N /\ \A x \in Tables : Size(x) <= max
    <2> HIDE DEF N
    <2> QED BY <1>5
  <1>7. Uids = 1 .. max
    BY DEF Uids
  <1>8. max \in Nat
    BY <1>1, <1>6
  <1> HIDE DEF max
  <1>9. IsFiniteSet(Uids) /\ Uids \subseteq Nat \ {0}
    BY <1>7, <1>8, FS_Interval
  <1>10. Size(t) <= max /\ Size(t) \in Nat
    BY <1>1, <1>6
  <1>11. 1 .. Size(t) \subseteq Uids
    BY <1>7, <1>8, <1>10
  <1>12. Len(t.main) \in Nat /\ t.resources \in Nat /\ t.tokens \in Nat
         /\ Size(t) = Len(t.main) + t.resources + t.tokens
    BY <1>1 DEF Size
  <1> HIDE DEF N, Y
  <1>13. Main(t) \subseteq 1 .. Size(t) /\ Resources(t) \subseteq 1 .. Size(t)
         /\ NewCards(t) \subseteq 1 .. Size(t)
    BY <1>12 DEF Main, Resources, NewCards
  <1> QED BY <1>9, <1>11, <1>13

\* The lists of a good state.
LEMMA ListsAre ==
  ASSUME NEW s, Inv(s), NEW z \in ListedZones
  PROVE  /\ s.list[z] \in Seq(Uids) /\ Distinct(s.list[z])
         /\ InZone(s, z) = {u \in Uids : s.zone[u] = z} /\ ToSet(s.list[z]) = InZone(s, z)
         /\ IsFiniteSet(InZone(s, z))
         /\ s.list[z] # <<>> => Head(s.list[z]) \in InZone(s, z)
  <1>1. /\ s.list[z] \in Seq(Uids) /\ Distinct(s.list[z])
        /\ ToSet(s.list[z]) = {u \in Uids : s.zone[u] = z}
    BY Fields DEF Inv, Whole, Where, Lists
  <1>2. ASSUME s.list[z] # <<>> PROVE Head(s.list[z]) \in ToSet(s.list[z])
    <2>1. Head(s.list[z]) = s.list[z][1] /\ 1 \in 1 .. Len(s.list[z])
      BY <1>1, <1>2
    <2> QED BY <1>1, <2>1, Elements
  <1> QED BY <1>1, <1>2, FewElements DEF InZone

\* The top of a zone.
LEMMA TopIs ==
  ASSUME NEW s, Inv(s), NEW z \in ListedZones, NEW n \in Nat
  PROVE  /\ Top(s, z, n) \in Seq(Uids) /\ ToSet(Top(s, z, n)) \subseteq InZone(s, z)
         /\ \A i \in 1 .. Len(Top(s, z, n)) : Top(s, z, n)[i] \in InZone(s, z)
  <1> DEFINE l == s.list[z]
             m == IF n < Len(l) THEN n ELSE Len(l)
             a == SubSeq(l, 1, m)
  <1>1. l \in Seq(Uids) /\ ToSet(l) = InZone(s, z)
    BY ListsAre
  <1>2. m \in 0 .. Len(l)
    BY <1>1
  <1>3. Top(s, z, n) = a
    BY DEF Top
  <1> HIDE DEF l, m
  <1>4. a \in Seq(Uids) /\ ToSet(a) \subseteq ToSet(l)
    BY <1>1, <1>2, FirstIs
  <1> HIDE DEF a
  <1>5. \A i \in 1 .. Len(a) : a[i] \in ToSet(a)
    BY <1>4, Elements
  <1> QED BY <1>1, <1>3, <1>4, <1>5

\* The zones that have lists.
LEMMA ZonesAre ==
  /\ {"Deck", "ResourceDeck", "Shield", "Hand", "ResourceArea", "Battle", "Paired", "Trash", "Resolving"}
       \subseteq ListedZones
  /\ "none" \notin ListedZones /\ "Outside" \notin ListedZones
  BY DEF ListedZones, HiddenZones, PublicZones

\* The phase is in no view.
LEMMA OtherPhase ==
  ASSUME NEW s, Inv(s), NEW ph
  PROVE  LET t == [s EXCEPT !.phase = ph] IN Inv(t) /\ t.phase = ph /\ t.task = s.task
  <1> DEFINE t == [s EXCEPT !.phase = ph]
  <1>1. Typed(s) /\ Whole(s) /\ Fresh(s)
    BY DEF Inv, Whole
  <1>2. /\ Typed(t) /\ t.phase = ph /\ t.task = s.task /\ t.def = s.def /\ t.zone = s.zone
        /\ t.damage = s.damage /\ t.known = s.known /\ t.pair = s.pair /\ t.list = s.list
        /\ t.rested = s.rested /\ t.history = s.history /\ t.battle = s.battle
        /\ t.lasting = s.lasting /\ t.turn = s.turn /\ t.cache = s.cache
    BY <1>1 DEF Typed, States
  <1> HIDE DEF t
  <1>3. Inv(t)
    BY <1>1, <1>2, SameCards, SameView DEF Inv
  <1> QED BY <1>2, <1>3 DEF t

\* The decision waited for is in no view.
LEMMA OtherTask ==
  ASSUME NEW s, Inv(s), NEW task
  PROVE  LET t == [s EXCEPT !.task = task] IN
         /\ Inv(t) /\ t.phase = s.phase /\ t.task = task /\ t.zone = s.zone /\ t.def = s.def
         /\ t.pair = s.pair /\ t.list = s.list /\ t.rested = s.rested
  <1> DEFINE t == [s EXCEPT !.task = task]
  <1>1. Typed(s) /\ Whole(s) /\ Fresh(s)
    BY DEF Inv, Whole
  <1>2. /\ Typed(t) /\ t.phase = s.phase /\ t.task = task /\ t.def = s.def /\ t.zone = s.zone
        /\ t.damage = s.damage /\ t.known = s.known /\ t.pair = s.pair /\ t.list = s.list
        /\ t.rested = s.rested /\ t.history = s.history /\ t.battle = s.battle
        /\ t.lasting = s.lasting /\ t.turn = s.turn /\ t.cache = s.cache
    BY <1>1 DEF Typed, States
  <1> HIDE DEF t
  <1>3. Inv(t)
    BY <1>1, <1>2, SameCards, SameView DEF Inv
  <1> QED BY <1>2, <1>3 DEF t

\* Battles, lasting effects and turns drop the kept view.
Ruled(s, battle, lasting, turn, history, ph) ==
  touch([s EXCEPT !.battle = battle, !.lasting = lasting, !.turn = turn, !.history = history, !.phase = ph])

\* They leave the cards as they are.
LEMMA OtherRules ==
  ASSUME NEW s, Inv(s), NEW battle, NEW lasting, NEW turn, NEW history \in Seq(Events), NEW ph
  PROVE  LET t == Ruled(s, battle, lasting, turn, history, ph) IN
         /\ Inv(t) /\ t.phase = ph /\ t.task = s.task /\ t.zone = s.zone /\ t.def = s.def
         /\ t.pair = s.pair /\ t.list = s.list /\ t.rested = s.rested
  <1> DEFINE t == Ruled(s, battle, lasting, turn, history, ph)
  <1>1. Typed(s) /\ Whole(s)
    BY DEF Inv, Whole
  <1>2. /\ Typed(t) /\ t.phase = ph /\ t.task = s.task /\ t.def = s.def /\ t.zone = s.zone
        /\ t.damage = s.damage /\ t.known = s.known /\ t.pair = s.pair /\ t.list = s.list
        /\ t.rested = s.rested /\ t.cache = {}
    BY <1>1 DEF Typed, States, touch, Ruled
  <1> HIDE DEF t
  <1>3. Inv(t)
    BY <1>1, <1>2, SameCards, NoView DEF Inv
  <1> QED BY <1>2, <1>3 DEF t
\* Operations while no decision is waited for.
LEMMA NothingWaits ==
  ASSUME NEW s, NEW t, Steps(s, t), s.task = NoTask
  PROVE  Good(t)
  BY DEF Steps, Good, Waits

\* A good next state keeps the invariant.
LEMMA Ends ==
  ASSUME BInv, NEW t, Good(t), Do(t)
  PROVE  BInv'
  <1>1. st' = t /\ table' = table
    BY DEF Do
  <1> QED BY <1>1 DEF BInv, Good, Inv, Whole, Fit

\* The same after operations while no decision is waited for.
LEMMA EndsFree ==
  ASSUME BInv, NEW t, Free, Steps(st, t), Do(t)
  PROVE  BInv'
  <1>1. Good(t)
    BY NothingWaits DEF Free
  <1> QED BY <1>1, Ends

\* enter_rested may turn the card.
LEMMA Enters ==
  ASSUME NEW s, Inv(s), NEW u \in Uids, NEW rule \in BOOLEAN
  PROVE  Steps(s, enter_rested(s, u, rule))
  <1>1. Steps(s, derived(s)) /\ Inv(derived(s))
    BY Derives DEF Steps
  <1>2. Steps(derived(s), WithRest(derived(s), u, TRUE))
    BY <1>1, RestOne
  <1> QED BY <1>1, <1>2, StepsTrans DEF enter_rested

\* h_deploy_card deploys, or waits for a card to be given up.
LEMMA HDeploys ==
  ASSUME NEW s, Inv(s), s.phase = "play", NEW u \in Uids,
         s.zone[u] \in {"Hand", "Trash", "Deck", "Shield", "Resolving"},
         NEW as_unit \in BOOLEAN, NEW rested \in BOOLEAN, NEW rule \in BOOLEAN, Deployable(s.def[u], as_unit)
  PROVE  Good(h_deploy_card(s, u, as_unit, rested, rule))
  <1> DEFINE v == IF as_unit /\ s.def[u] = Pilot THEN touch([s EXCEPT !.def[u] = Variant]) ELSE s
             o == [Plain EXCEPT !.rested = rested]
             m == move_card(v, u, "Battle", o)
             d == record(m, u)
             k == [op |-> "deploy", card |-> u, as_unit |-> as_unit, rested |-> rested]
             w == [v EXCEPT !.task = k]
             e == [d EXCEPT !.task = NoTask]
             t == enter_rested(e, u, rule)
  <1>1. h_deploy_card(s, u, as_unit, rested, rule) = IF Len(v.list["Battle"]) + 1 > BattleLimit THEN w ELSE t
    BY DEF h_deploy_card
  <1>2. Steps(s, v) /\ v.zone = s.zone /\ IsUnit(v.def[u]) /\ v.phase = "play" /\ Inv(v)
    <2>1. CASE as_unit /\ s.def[u] = Pilot
      <3>1. v = touch([s EXCEPT !.def[u] = Variant])
        BY <2>1
      <3> HIDE DEF v
      <3>2. Steps(s, v) /\ v.zone = s.zone /\ v.def = [s.def EXCEPT ![u] = Variant]
        BY <2>1, <3>1, VariantIs
      <3>3. s.def \in [Uids -> Defs]
        BY Fields DEF Inv, Whole
      <3> QED BY <3>2, <3>3 DEF Steps, IsUnit
    <2>2. CASE ~(as_unit /\ s.def[u] = Pilot)
      <3>1. v = s
        BY <2>2
      <3>2. IsUnit(s.def[u])
        BY <2>2 DEF Deployable
      <3> HIDE DEF v
      <3> QED BY <3>1, <3>2, StepsSelf
    <2> QED BY <2>1, <2>2
  <1> HIDE DEF v
  <1>3. Good(w)
    <2> HIDE DEF k
    <2>0. Inv(v)
      BY <1>2
    <2>1. Inv(w) /\ w.phase = v.phase /\ w.zone = v.zone /\ w.def = v.def /\ w.task = k
      BY <2>0, OtherTask
    <2> HIDE DEF w
    <2>2. k.op = "deploy" /\ k.card = u /\ k.as_unit \in BOOLEAN /\ k.rested \in BOOLEAN
      BY DEF k
    <2> QED BY <1>2, <2>1, <2>2 DEF Good, Waits
  <1>4. Good(t)
    <2>1. o \in Options
      BY DEF Plain, Options
    <2>2. MayMove(v, u, "Battle") /\ "Battle" # "Paired"
      BY <1>2, ZonesAre DEF MayMove, MayCome, IsUnit, Unit, Variant, UnitToken, Resource
    <2> HIDE DEF o
    <2>3. Steps(v, m)
      BY <1>2, <2>1, <2>2, Moves1
    <2> HIDE DEF m
    <2>4. Steps(m, d)
      BY <2>3, Records DEF Steps
    <2> HIDE DEF d
    <2>5. Inv(d)
      BY <2>4 DEF Steps
    <2>6. Inv(e) /\ e.task = NoTask
      BY <2>5, OtherTask
    <2> HIDE DEF e
    <2>7. Steps(e, t)
      BY <2>6, Enters
    <2> QED BY <2>6, <2>7, NothingWaits
  <1> HIDE DEF w, t
  <1> QED BY <1>1, <1>3, <1>4

\* The next new card.
LEMMA NewUidIs ==
  ASSUME BInv, NEW s, Inv(s), \E u \in NewCards(table) : s.zone[u] = "none"
  PROVE  NewUid(s) \in Uids /\ s.zone[NewUid(s)] = "none"
  <1>1. NewUid(s) \in NewCards(table) /\ s.zone[NewUid(s)] = "none"
    BY DEF NewUid
  <1>2. NewCards(table) \subseteq Uids
    BY UidsAre DEF BInv
  <1> QED BY <1>1, <1>2

\* h_deploy_token makes a Unit token, or waits for a card to be given up.
LEMMA HDeploysToken ==
  ASSUME BInv, NEW s, Inv(s), s.phase = "play", \E u \in NewCards(table) : s.zone[u] = "none",
         NEW rested \in BOOLEAN, NEW rule \in BOOLEAN
  PROVE  Good(h_deploy_token(s, rested, rule))
  <1> DEFINE u == NewUid(s)
             c == new_card(s, u, UnitToken, "Battle", rested)
             d == record(c, u)
             k == [op |-> "token", rested |-> rested]
             w == [s EXCEPT !.task = k]
             e == [d EXCEPT !.task = NoTask]
             t == enter_rested(e, u, rule)
  <1>1. h_deploy_token(s, rested, rule)
          = IF Len(s.list["Battle"]) + 1 > BattleLimit /\ s.list["Battle"] # <<>> THEN w ELSE t
    BY DEF h_deploy_token
  <1>2. u \in Uids /\ s.zone[u] = "none"
    BY NewUidIs
  <1> HIDE DEF u
  <1>3. Good(w)
    <2> HIDE DEF k
    <2>1. Inv(w) /\ w.phase = s.phase /\ w.zone = s.zone /\ w.task = k
      BY OtherTask
    <2> HIDE DEF w
    <2>2. k.op = "token" /\ k.rested \in BOOLEAN
      BY DEF k
    <2> QED BY <2>1, <2>2 DEF Good, Waits
  <1>4. Good(t)
    <2>1. Inv(c)
      BY <1>2, NewCardIs
    <2> HIDE DEF c
    <2>2. Inv(d)
      BY <1>2, <2>1, Records DEF Steps
    <2> HIDE DEF d
    <2>3. Inv(e) /\ e.task = NoTask
      BY <2>2, OtherTask
    <2> HIDE DEF e
    <2>4. Steps(e, t)
      BY <1>2, <2>3, Enters
    <2> QED BY <2>3, <2>4, NothingWaits
  <1> HIDE DEF w, t
  <1> QED BY <1>1, <1>3, <1>4

\* play shows, pays and records; no Unit, Pilot or card in hand but the paid Resources moves.
LEMMA Plays ==
  ASSUME NEW s, Inv(s), NEW u \in Uids, NEW normal \in 0 .. Len(Payable(s, Resource)),
         NEW ex \in 0 .. Len(Payable(s, ExResource))
  PROVE  LET t == play(s, u, normal, ex) IN
         /\ Steps(s, t) /\ t.def = s.def /\ t.pair = s.pair
         /\ \A v \in Uids : s.def[v] # ExResource => t.zone[v] = s.zone[v]
  <1> DEFINE a == [s EXCEPT !.known[u] = Players]
             b == pay_generic(a, normal, ex)
             p == record(b, u)
             q == record(p, u)
  <1>1. play(s, u, normal, ex) = IF ex > 0 THEN q ELSE p
    BY DEF play
  <1>2. Steps(s, a) /\ a.zone = s.zone /\ a.def = s.def /\ a.list = s.list /\ a.pair = s.pair
        /\ a.rested = s.rested
    BY Shows
  <1> HIDE DEF a
  <1>3. \A d : Payable(a, d) = Payable(s, d)
    <2> DEFINE P(def, rested, list, d) ==
                 FoldLeft(LAMBDA us, c : IF def[c] = d /\ ~rested[c] THEN Append(us, c) ELSE us,
                          <<>>, list["ResourceArea"])
    <2>1. \A d : Payable(a, d) = P(a.def, a.rested, a.list, d)
      BY DEF Payable
    <2>2. \A d : Payable(s, d) = P(s.def, s.rested, s.list, d)
      BY DEF Payable
    <2> HIDE DEF P
    <2> QED BY <1>2, <2>1, <2>2
  <1>4. Steps(a, b) /\ b.def = s.def /\ b.pair = s.pair
        /\ \A v \in Uids : s.def[v] # ExResource => b.zone[v] = s.zone[v]
    BY <1>2, <1>3, Pays DEF Steps
  <1> HIDE DEF b
  <1>5. Steps(b, p) /\ p.def = b.def /\ p.zone = b.zone /\ p.pair = b.pair
    BY <1>4, Records DEF Steps
  <1> HIDE DEF p
  <1>6. Steps(p, q) /\ q.def = p.def /\ q.zone = p.zone /\ q.pair = p.pair
    BY <1>5, Records DEF Steps
  <1> HIDE DEF q
  <1>7. Steps(s, p) /\ Steps(s, q)
    BY <1>2, <1>4, <1>5, <1>6, StepsTrans
  <1> QED BY <1>1, <1>4, <1>5, <1>6, <1>7

\* The plain options, with a bit of them changed.
LEMMA OptionsAre ==
  /\ Plain \in Options
  /\ \A b \in BOOLEAN : /\ [Plain EXCEPT !.bottom = b] \in Options
                        /\ [Plain EXCEPT !.reveal = b] \in Options
                        /\ [Plain EXCEPT !.rested = b] \in Options
                        /\ [Plain EXCEPT !.bottom = ~b] \in Options
  BY DEF Plain, Options

\* What holds while no decision is waited for.
LEMMA FreeIs == ASSUME BInv, Free PROVE Inv(st) /\ st.phase = "play" /\ st.task = NoTask
  BY DEF BInv, Good, Free

\* A card that leaves a list moves well.
LEMMA Leaves ==
  ASSUME NEW s, Inv(s), NEW u \in Uids, NEW dst \in {"Hand", "Deck", "Shield", "Trash", "Resolving"},
         Movable(s, u, dst), NEW o \in Options
  PROVE  /\ Steps(s, move_card(s, u, dst, o)) /\ Inv(move_card(s, u, dst, o))
         /\ Steps(s, move_recorded(s, <<u>>, dst, o))
  <1>1. Steps(s, move_card(s, u, dst, o))
    BY MayLeave, Moves1
  <1>2. Steps(s, move_recorded(s, <<u>>, dst, o))
    <2>1. <<u>> \in Seq(Uids) /\ \A i \in 1 .. Len(<<u>>) : Movable(s, <<u>>[i], dst)
      OBVIOUS
    <2> QED BY <2>1, MovesRecorded
  <1> QED BY <1>1, <1>2 DEF Steps
-----------------------------------------------------------------------------
(* Every step of every game keeps the invariant.                           *)

\* The cards on top of a zone, and those of a whole zone, move well.
LEMMA ZoneMoves ==
  ASSUME NEW s, Inv(s), NEW z \in ListedZones, NEW n \in Nat,
         NEW dst \in {"Hand", "Deck", "Shield", "Trash"}, z \in {"Deck", "Hand"}, NEW o \in Options
  PROVE  Steps(s, move_all(s, Top(s, z, n), dst, o)) /\ Steps(s, move_all(s, s.list[z], dst, o))
  <1>1. InZone(s, z) = {u \in Uids : s.zone[u] = z} /\ s.list[z] \in Seq(Uids)
        /\ ToSet(s.list[z]) = InZone(s, z)
    BY ListsAre
  <1>2. Top(s, z, n) \in Seq(Uids) /\ \A i \in 1 .. Len(Top(s, z, n)) : Top(s, z, n)[i] \in InZone(s, z)
    BY TopIs
  <1>3. \A u \in InZone(s, z) : Movable(s, u, dst)
    BY <1>1, MovableIs
  <1>4. \A i \in 1 .. Len(Top(s, z, n)) : Movable(s, Top(s, z, n)[i], dst)
    BY <1>2, <1>3
  <1>5. \A i \in 1 .. Len(s.list[z]) : Movable(s, s.list[z][i], dst)
    BY <1>1, <1>3, Elements
  <1> QED BY <1>1, <1>2, <1>4, <1>5, MovesAll

\* Before play no decision is waited for.
LEMMA NotYet ==
  ASSUME BInv, st.phase # "play"
  PROVE  Inv(st) /\ st.task = NoTask
  BY DEF BInv, Good, Waits

\* No decision, whatever the phase.
LEMMA GoodPhase ==
  ASSUME NEW s, Inv(s), s.task = NoTask, NEW ph
  PROVE  Good([s EXCEPT !.phase = ph])
  <1> DEFINE t == [s EXCEPT !.phase = ph]
  <1>1. Inv(t) /\ t.task = NoTask
    BY OtherPhase
  <1> HIDE DEF t
  <1> QED BY <1>1 DEF Good, Waits, t

\* Changes of battle, lasting effects and turn, while no decision is waited for.
LEMMA GoodRules ==
  ASSUME NEW s, Inv(s), s.task = NoTask,
         NEW battle, NEW lasting, NEW turn, NEW history \in Seq(Events), NEW ph
  PROVE  Good(Ruled(s, battle, lasting, turn, history, ph))
  <1> DEFINE t == Ruled(s, battle, lasting, turn, history, ph)
  <1>1. Inv(t) /\ t.task = NoTask
    BY OtherRules
  <1> HIDE DEF t
  <1> QED BY <1>1 DEF Good, Waits, t

\* The setup.
LEMMA SetupKeeps == ASSUME BInv, Setup PROVE BInv'
  <1>0. /\ {"Deck", "Hand", "Shield"} \subseteq ListedZones /\ HandSize \in Nat /\ ShieldCount \in Nat
        /\ Plain \in Options /\ [Plain EXCEPT !.bottom = TRUE] \in Options
    BY ZonesAre, BoardAssumption, OptionsAre
  <1>1. CASE SetupDraw
    <2> DEFINE s == move_all(st, Top(st, "Deck", HandSize), "Hand", Plain)
               t == [s EXCEPT !.phase = "redraw"]
    <2>1. Inv(st) /\ st.task = NoTask /\ Do(t)
      BY <1>1, NotYet DEF SetupDraw
    <2>2. Steps(st, s)
      BY <1>0, <2>1, ZoneMoves
    <2> HIDE DEF s
    <2>3. Good(t)
      BY <2>1, <2>2, GoodPhase DEF Steps
    <2> HIDE DEF t
    <2> QED BY <2>1, <2>3, Ends
  <1>2. CASE Redraw
    <2> DEFINE back == move_all(st, st.list["Hand"], "Deck", [Plain EXCEPT !.bottom = TRUE])
               again == move_all(back, Top(back, "Deck", HandSize), "Hand", Plain)
               t(order) == [shuffle_deck(again, order) EXCEPT !.phase = "shields"]
    <2>1. Inv(st) /\ st.task = NoTask
      BY <1>2, NotYet DEF Redraw
    <2>2. PICK order \in SetToSeqs(InZone(again, "Deck")) : Do(t(order))
      BY <1>2 DEF Redraw
    <2>3. Steps(st, back)
      BY <1>0, <2>1, ZoneMoves
    <2> HIDE DEF back
    <2>4. Steps(back, again)
      <3>1. Inv(back)
        BY <2>3 DEF Steps
      <3> QED BY <1>0, <3>1, ZoneMoves
    <2> HIDE DEF again
    <2>5. Steps(again, shuffle_deck(again, order))
      BY <2>4, Shuffles DEF Steps
    <2>6. Good(t(order))
      BY <2>1, <2>3, <2>4, <2>5, GoodPhase DEF Steps
    <2> HIDE DEF t
    <2> QED BY <2>2, <2>6, Ends
  <1>3. CASE Keep
    <2> DEFINE t == [st EXCEPT !.phase = "shields"]
    <2>1. Inv(st) /\ st.task = NoTask /\ Do(t)
      BY <1>3, NotYet DEF Keep
    <2>2. Good(t)
      BY <2>1, GoodPhase
    <2> HIDE DEF t
    <2> QED BY <2>1, <2>2, Ends
  <1>4. CASE SetupShields
    <2> DEFINE s == move_all(st, Top(st, "Deck", ShieldCount), "Shield", Plain)
               n == new_card(s, NewUid(s), ExResource, "ResourceArea", FALSE)
               t(second) == IF second THEN n ELSE s
               e(x) == touch([x EXCEPT !.turn = 1, !.phase = "play", !.history = <<>>])
    <2>1. Inv(st) /\ st.task = NoTask
      BY <1>4, NotYet DEF SetupShields
    <2>2. PICK second \in {FALSE, HasNewUid} : Do(e(t(second)))
      BY <1>4 DEF SetupShields
    <2>3. Steps(st, s)
      BY <1>0, <2>1, ZoneMoves
    <2> HIDE DEF s
    <2>4. ASSUME HasNewUid PROVE Inv(n) /\ n.task = NoTask
      <3>1. \E u \in NewCards(table) : s.zone[u] = "none"
        <4>1. NewCards(table) \subseteq Uids
          BY UidsAre DEF BInv
        <4> QED BY <2>3, <2>4, <4>1 DEF Steps, HasNewUid
      <3>2. NewUid(s) \in Uids /\ s.zone[NewUid(s)] = "none"
        BY <2>3, <3>1, NewUidIs DEF Steps
      <3>3. Inv(s) /\ s.task = NoTask
        BY <2>1, <2>3 DEF Steps
      <3> DEFINE u == NewUid(s)
      <3>4. u \in Uids /\ s.zone[u] = "none"
        BY <3>2
      <3> HIDE DEF u
      <3>5. Inv(new_card(s, u, ExResource, "ResourceArea", FALSE))
            /\ new_card(s, u, ExResource, "ResourceArea", FALSE).task = s.task
        BY <3>3, <3>4, NewCardIs
      <3> QED BY <3>3, <3>5 DEF u
    <2> HIDE DEF n
    <2>5. Inv(t(second)) /\ t(second).task = NoTask
      <3>1. CASE second = FALSE
        BY <2>1, <2>3, <3>1 DEF Steps
      <3>2. CASE second # FALSE
        <4>1. second = HasNewUid /\ HasNewUid /\ second
          BY <2>2, <3>2 DEF HasNewUid
        <4> QED BY <2>4, <4>1
      <3> QED BY <3>1, <3>2
    <2> HIDE DEF t
    <2>6. ASSUME NEW x, Inv(x), x.task = NoTask PROVE Good(e(x))
      <3>1. e(x) = Ruled(x, x.battle, x.lasting, 1, <<>>, "play")
        BY <2>6 DEF Inv, Whole, Typed, States, Ruled
      <3>2. <<>> \in Seq(Events)
        OBVIOUS
      <3> HIDE DEF e
      <3> QED BY <2>6, <3>1, <3>2, GoodRules
    <2> HIDE DEF e
    <2> QED BY <2>2, <2>5, <2>6, Ends
  <1> QED BY <1>1, <1>2, <1>3, <1>4 DEF Setup
\* A card of a zone's list is there.
LEMMA Listed ==
  ASSUME NEW s, Inv(s), NEW z \in ListedZones, NEW u \in InZone(s, z)
  PROVE  /\ u \in Uids /\ s.zone[u] = z /\ s.zone[u] # "none" /\ s.zone[u] # "Outside"
         /\ z \notin {"ResourceArea", "ResourceDeck"} =>
              \A dst : (dst = "Shield" => z # "Battle") => Movable(s, u, dst)
  <1>1. InZone(s, z) = {v \in Uids : s.zone[v] = z}
    BY ListsAre
  <1> QED BY <1>1, ZonesAre, MovableIs

\* The first card of a zone's list is there.
LEMMA HeadIs ==
  ASSUME NEW s, Inv(s), NEW z \in ListedZones, s.list[z] # <<>>
  PROVE  /\ Head(s.list[z]) \in Uids /\ s.zone[Head(s.list[z])] = z
         /\ z \notin {"ResourceArea", "ResourceDeck"} =>
              \A dst : (dst = "Shield" => z # "Battle") => Movable(s, Head(s.list[z]), dst)
  <1>1. Head(s.list[z]) \in InZone(s, z)
    BY ListsAre
  <1> QED BY <1>1, Listed

\* Giving up a card lets the waiting handler run again.
LEMMA ExcessKeeps == ASSUME BInv, r_excess PROVE BInv'
  <1> DEFINE m(u) == move_card(st, u, "Trash", Plain)
             s(u) == record(m(u), u)
             k == st.task
             t(u, rule) == IF k.op = "token" THEN h_deploy_token(s(u), k.rested, rule)
                           ELSE h_deploy_card(s(u), k.card, k.as_unit, k.rested, rule)
  <1>1. PICK u \in InZone(st, "Battle"), rule \in BOOLEAN : k.op \in {"deploy", "token"} /\ Do(t(u, rule))
    BY DEF r_excess
  <1>2. Inv(st) /\ Waits(st, k, NewCards(table)) /\ Plain \in Options
    BY OptionsAre DEF BInv, Good
  <1>3. u \in Uids /\ st.zone[u] = "Battle"
    BY <1>1, <1>2, ZonesAre, Listed
  <1>4. MayMove(st, u, "Trash")
    BY <1>2, <1>3, MovableIs, MayLeave
  <1> DEFINE mu == m(u)
             su == s(u)
  <1>5. Steps(st, mu) /\ Moved(st, mu, u, "Trash")
    BY <1>2, <1>3, <1>4, Moves1
  <1> HIDE DEF mu
  <1>6. Steps(mu, su) /\ su.zone = mu.zone /\ su.def = mu.def
    <2>1. Inv(mu)
      BY <1>5 DEF Steps
    <2>2. su = record(mu, u)
      BY DEF mu
    <2> HIDE DEF su
    <2> QED BY <1>3, <2>1, <2>2, Records
  <1> HIDE DEF su
  <1>7. Inv(su) /\ su.phase = st.phase /\ \A v \in Uids : su.zone[v] = "none" <=> st.zone[v] = "none"
    BY <1>5, <1>6 DEF Steps
  <1>8. k # NoTask /\ ~(k \in [op : {"order"}, left : SUBSET Uids, picked : Seq(Uids), bottom : BOOLEAN])
    BY <1>1 DEF NoTask
  <1>9. CASE k.op = "token"
    <2>1. k.rested \in BOOLEAN /\ st.phase = "play" /\ \E v \in NewCards(table) : st.zone[v] = "none"
      BY <1>2, <1>8, <1>9 DEF Waits
    <2>2. \E v \in NewCards(table) : su.zone[v] = "none"
      <3>1. NewCards(table) \subseteq Uids
        BY UidsAre DEF BInv
      <3> QED BY <1>7, <2>1, <3>1
    <2>3. Good(h_deploy_token(su, k.rested, rule))
      BY <1>7, <2>1, <2>2, HDeploysToken
    <2>4. t(u, rule) = h_deploy_token(su, k.rested, rule)
      BY <1>9 DEF su
    <2> HIDE DEF t
    <2> QED BY <1>1, <2>3, <2>4, Ends
  <1>10. CASE k.op = "deploy"
    <2>1. /\ k.card \in Uids /\ st.zone[k.card] \in {"Hand", "Trash", "Deck", "Shield", "Resolving"}
          /\ IsUnit(st.def[k.card]) /\ k.as_unit \in BOOLEAN /\ k.rested \in BOOLEAN /\ st.phase = "play"
      BY <1>2, <1>8, <1>10 DEF Waits
    <2>2. k.card # u /\ k.card # st.pair[u]
      <3>1. PairOf(st, u)
        BY <1>2, <1>3 DEF Inv, Whole, Pairs
      <3>2. st.pair[u] # NoUid => st.zone[st.pair[u]] = "Paired"
        BY <1>3, <3>1 DEF PairOf
      <3> QED BY <1>3, <2>1, <3>2, NoUidIs
    <2>3. su.zone[k.card] = st.zone[k.card] /\ su.def[k.card] = st.def[k.card]
      BY <1>5, <1>6, <2>1, <2>2 DEF Moved
    <2>4. Deployable(su.def[k.card], k.as_unit)
      BY <2>1, <2>3 DEF Deployable
    <2>5. Good(h_deploy_card(su, k.card, k.as_unit, k.rested, rule))
      BY <1>7, <2>1, <2>3, <2>4, HDeploys
    <2>6. t(u, rule) = h_deploy_card(su, k.card, k.as_unit, k.rested, rule)
      BY <1>10 DEF su
    <2> HIDE DEF t
    <2> QED BY <1>1, <2>5, <2>6, Ends
  <1> QED BY <1>1, <1>9, <1>10

\* A card is played from the hand.
LEMMA PlayCardKeeps == ASSUME BInv, PlayCard PROVE BInv'
  <1> DEFINE d == derived(st)
             s(u, normal, ex) == play(d, u, normal, ex)
  <1>1. PICK u \in InZone(st, "Hand"), normal \in 0 .. 1, ex \in 0 .. 1 :
          /\ Free /\ normal <= Len(Payable(st, Resource)) /\ ex <= Len(Payable(st, ExResource))
          /\ \/ /\ IsUnit(st.def[u])
                /\ \E rule \in BOOLEAN : Do(h_deploy_card(s(u, normal, ex), u, FALSE, FALSE, rule))
             \/ /\ st.def[u] = Pilot
                /\ \E unit \in Uids : can_pair(st, unit) /\ Do(pair(derived(s(u, normal, ex)), u, unit))
             \/ /\ st.def[u] = Pilot
                /\ Do(record(move_card(s(u, normal, ex), u, "Resolving", [Plain EXCEPT !.reveal = TRUE]), u))
    BY DEF PlayCard
  <1>2. Inv(st) /\ st.phase = "play" /\ st.task = NoTask
    BY <1>1, FreeIs
  <1>3. u \in Uids /\ st.zone[u] = "Hand"
    BY <1>1, <1>2, ZonesAre, Listed
  <1>4. /\ Steps(st, d) /\ d.list = st.list /\ d.def = st.def /\ d.zone = st.zone /\ d.pair = st.pair
        /\ d.rested = st.rested
    BY <1>2, Derives
  <1>5. Inv(d) /\ d.phase = "play" /\ d.task = NoTask
    BY <1>2, <1>4 DEF Steps
  <1> HIDE DEF d
  <1>6. \A x : Payable(d, x) = Payable(st, x)
    <2> DEFINE P(def, rested, list, x) ==
                 FoldLeft(LAMBDA us, c : IF def[c] = x /\ ~rested[c] THEN Append(us, c) ELSE us,
                          <<>>, list["ResourceArea"])
    <2>1. \A x : Payable(d, x) = P(d.def, d.rested, d.list, x)
      BY DEF Payable
    <2>2. \A x : Payable(st, x) = P(st.def, st.rested, st.list, x)
      BY DEF Payable
    <2> HIDE DEF P
    <2> QED BY <1>4, <2>1, <2>2
  <1>7. normal \in 0 .. Len(Payable(d, Resource)) /\ ex \in 0 .. Len(Payable(d, ExResource))
    <2>1. /\ Payable(d, Resource) \in Seq({v \in Uids : d.zone[v] = "ResourceArea" /\ d.def[v] = Resource})
          /\ Payable(d, ExResource) \in Seq({v \in Uids : d.zone[v] = "ResourceArea" /\ d.def[v] = ExResource})
      BY <1>5, PayableIs
    <2>2. Len(Payable(d, Resource)) \in Nat /\ Len(Payable(d, ExResource)) \in Nat
      BY <2>1
    <2> QED BY <1>1, <1>6, <2>2
  <1> DEFINE p == s(u, normal, ex)
  <1>8. /\ Steps(d, p) /\ p.def = st.def /\ p.pair = st.pair
        /\ \A v \in Uids : st.def[v] # ExResource => p.zone[v] = st.zone[v]
    BY <1>3, <1>4, <1>5, <1>7, Plays
  <1> HIDE DEF p
  <1>9. Inv(p) /\ p.phase = "play" /\ p.task = NoTask
    BY <1>5, <1>8 DEF Steps
  <1>10. CASE /\ IsUnit(st.def[u])
              /\ \E rule \in BOOLEAN : Do(h_deploy_card(p, u, FALSE, FALSE, rule))
    <2>1. PICK rule \in BOOLEAN : Do(h_deploy_card(p, u, FALSE, FALSE, rule))
      BY <1>10
    <2>2. p.zone[u] = "Hand" /\ Deployable(p.def[u], FALSE)
      BY <1>3, <1>8, <1>10 DEF Deployable, IsUnit, Unit, Variant, UnitToken, ExResource
    <2>3. Good(h_deploy_card(p, u, FALSE, FALSE, rule))
      BY <1>3, <1>9, <2>2, HDeploys
    <2> QED BY <2>1, <2>3, Ends
  <1>11. CASE /\ st.def[u] = Pilot
              /\ \E unit \in Uids : can_pair(st, unit) /\ Do(pair(derived(p), u, unit))
    <2>1. PICK unit \in Uids : can_pair(st, unit) /\ Do(pair(derived(p), u, unit))
      BY <1>11
    <2> DEFINE e == derived(p)
    <2>2. Steps(p, e) /\ e.def = p.def /\ e.zone = p.zone /\ e.pair = p.pair
      BY <1>9, Derives
    <2> HIDE DEF e
    <2>3. IsUnit(st.def[unit])
      <3>1. FitsZone(st.def[unit], st.zone[unit], st.damage[unit], st.known[unit])
        BY <1>2 DEF Inv, Whole, Fit
      <3> QED BY <2>1, <3>1 DEF can_pair, FitsZone
    <2>4. st.def[unit] # ExResource /\ st.def[u] # ExResource
      BY <1>11, <2>3 DEF IsUnit, Unit, Variant, UnitToken, ExResource, Pilot
    <2>5. can_pair(e, unit) /\ e.zone[u] = "Hand" /\ e.def[u] = Pilot
      BY <1>3, <1>8, <1>11, <2>1, <2>2, <2>4 DEF can_pair
    <2>6. Inv(e) /\ e.task = NoTask
      BY <1>9, <2>2 DEF Steps
    <2>7. Steps(e, pair(e, u, unit))
      BY <1>3, <2>5, <2>6, PairsUp
    <2>8. Good(pair(e, u, unit))
      BY <2>6, <2>7, NothingWaits
    <2> QED BY <2>1, <2>8, Ends DEF e
  <1>12. CASE /\ st.def[u] = Pilot
              /\ Do(record(move_card(p, u, "Resolving", [Plain EXCEPT !.reveal = TRUE]), u))
    <2> DEFINE o == [Plain EXCEPT !.reveal = TRUE]
               m == move_card(p, u, "Resolving", o)
               r == record(m, u)
    <2>1. o \in Options
      BY OptionsAre
    <2>2. Movable(p, u, "Resolving")
      <3>1. p.zone[u] = "Hand"
        BY <1>3, <1>8, <1>12 DEF Pilot, ExResource
      <3> QED BY <1>3, <1>9, <3>1, MovableIs
    <2> HIDE DEF o
    <2>3. Steps(p, m) /\ Inv(m)
      BY <1>3, <1>9, <2>1, <2>2, Leaves
    <2> HIDE DEF m
    <2>4. Steps(m, r)
      BY <1>3, <2>3, Records
    <2>5. Good(r) /\ Do(r)
      BY <1>9, <1>12, <2>3, <2>4, NothingWaits, StepsTrans DEF o, m
    <2> HIDE DEF r
    <2> QED BY <2>5, Ends
  <1> QED BY <1>1, <1>10, <1>11, <1>12 DEF p
\* Cards drawn, discarded, deployed, paired and resolved.
LEMMA PlayKeeps == ASSUME BInv, Play PROVE BInv'
  <1>0. {"Deck", "Hand", "Trash", "Shield", "Resolving"} \subseteq ListedZones /\ Plain \in Options
    BY ZonesAre, OptionsAre
  <1>1. CASE draw
    <2> DEFINE u == Head(st.list["Deck"])
               m == move_card(st, u, "Hand", Plain)
               s == record(m, u)
               t(by_effect) == IF by_effect THEN record(s, u) ELSE s
    <2>1. PICK by_effect \in BOOLEAN : Free /\ st.list["Deck"] # <<>> /\ Do(t(by_effect))
      BY <1>1 DEF draw
    <2>2. Inv(st) /\ u \in Uids /\ Movable(st, u, "Hand")
      BY <1>0, <2>1, FreeIs, HeadIs
    <2> HIDE DEF u
    <2>3. Steps(st, m) /\ Inv(m)
      BY <1>0, <2>2, Leaves
    <2> HIDE DEF m
    <2>4. Steps(m, s)
      BY <2>2, <2>3, Records
    <2> HIDE DEF s
    <2>5. Steps(s, record(s, u))
      BY <2>2, <2>4, Records DEF Steps
    <2>6. Steps(st, t(by_effect))
      BY <2>3, <2>4, <2>5, StepsTrans
    <2> HIDE DEF t
    <2> QED BY <2>1, <2>6, EndsFree
  <1>2. CASE discard
    <2>1. PICK u \in InZone(st, "Hand") : Free /\ Do(move_recorded(st, <<u>>, "Trash", Plain))
      BY <1>2 DEF discard
    <2>2. Inv(st) /\ u \in Uids /\ Movable(st, u, "Trash")
      BY <1>0, <2>1, FreeIs, Listed
    <2>3. Steps(st, move_recorded(st, <<u>>, "Trash", Plain))
      BY <1>0, <2>2, Leaves
    <2> QED BY <2>1, <2>3, EndsFree
  <1>3. CASE deploy
    <2>0. PICK z \in {"Hand", "Trash", "Deck", "Shield", "Resolving"},
               as_unit \in BOOLEAN, rested \in BOOLEAN, rule \in BOOLEAN :
            \E u \in InZone(st, z) :
              Free /\ Deployable(st.def[u], as_unit) /\ Do(h_deploy_card(st, u, as_unit, rested, rule))
      BY <1>3 DEF deploy
    <2>1. PICK u \in InZone(st, z) :
            Free /\ Deployable(st.def[u], as_unit) /\ Do(h_deploy_card(st, u, as_unit, rested, rule))
      BY <2>0
    <2>2. Inv(st) /\ st.phase = "play"
      BY <2>1, FreeIs
    <2>3. u \in Uids /\ st.zone[u] = z
      BY <1>0, <2>1, <2>2, Listed
    <2>4. Good(h_deploy_card(st, u, as_unit, rested, rule))
      BY <2>1, <2>2, <2>3, HDeploys
    <2> QED BY <2>1, <2>4, Ends
  <1>4. CASE deploy_token
    <2>1. PICK rested \in BOOLEAN, rule \in BOOLEAN : Free /\ HasNewUid /\ Do(h_deploy_token(st, rested, rule))
      BY <1>4 DEF deploy_token
    <2>2. Inv(st) /\ st.phase = "play" /\ \E u \in NewCards(table) : st.zone[u] = "none"
      BY <2>1, FreeIs DEF HasNewUid
    <2>3. Good(h_deploy_token(st, rested, rule))
      BY <2>2, HDeploysToken
    <2> QED BY <2>1, <2>3, Ends
  <1>5. CASE r_excess
    BY <1>5, ExcessKeeps
  <1>6. CASE h_pair
    <2> DEFINE d == derived(st)
    <2>1. PICK pilot \in Uids, unit \in Uids :
            /\ Free /\ st.zone[pilot] \notin {"none", "Outside"} /\ st.def[pilot] = Pilot
            /\ can_pair(st, unit) /\ Do(pair(d, pilot, unit))
      BY <1>6 DEF h_pair
    <2>2. Steps(st, d) /\ d.def = st.def /\ d.zone = st.zone /\ d.pair = st.pair
      BY <2>1, FreeIs, Derives
    <2> HIDE DEF d
    <2>3. Inv(d) /\ can_pair(d, unit) /\ d.zone[pilot] \notin {"none", "Outside"} /\ d.def[pilot] = Pilot
      BY <2>1, <2>2 DEF Steps, can_pair
    <2>4. Steps(d, pair(d, pilot, unit))
      BY <2>3, PairsUp
    <2>5. Steps(st, pair(d, pilot, unit))
      BY <2>2, <2>4, StepsTrans
    <2> QED BY <2>1, <2>5, EndsFree
  <1>7. CASE PlayCard
    BY <1>7, PlayCardKeeps
  <1>8. CASE FinishResolving
    <2>1. PICK u \in InZone(st, "Resolving") : Free /\ Do(move_card(st, u, "Trash", Plain))
      BY <1>8 DEF FinishResolving
    <2>2. Inv(st) /\ u \in Uids /\ Movable(st, u, "Trash")
      BY <1>0, <2>1, FreeIs, Listed
    <2>3. Steps(st, move_card(st, u, "Trash", Plain))
      BY <1>0, <2>2, Leaves
    <2> QED BY <2>1, <2>3, EndsFree
  <1> QED BY <1>1, <1>2, <1>3, <1>4, <1>5, <1>6, <1>7, <1>8 DEF Play

\* Resources placed, cards turned.
LEMMA TurningKeeps == ASSUME BInv, Turning PROVE BInv'
  <1>0. {"ResourceDeck", "ResourceArea", "Battle"} \subseteq ListedZones
    BY ZonesAre
  <1>1. CASE place_ex_resource
    <2> DEFINE u == NewUid(st)
               n(rested) == new_card(st, u, ExResource, "ResourceArea", rested)
    <2>1. PICK rested \in BOOLEAN : Free /\ HasNewUid /\ Do(record(n(rested), u))
      BY <1>1 DEF place_ex_resource
    <2>2. Inv(st) /\ st.task = NoTask /\ u \in Uids /\ st.zone[u] = "none"
      BY <2>1, FreeIs, NewUidIs DEF HasNewUid
    <2> HIDE DEF u
    <2>3. Inv(n(rested)) /\ n(rested).task = NoTask
      BY <2>2, NewCardIs
    <2> HIDE DEF n
    <2>4. Good(record(n(rested), u))
      BY <2>2, <2>3, Records, NothingWaits
    <2> QED BY <2>1, <2>4, Ends
  <1>2. CASE place_resource
    <2> DEFINE u == Head(st.list["ResourceDeck"])
               o(rested) == [Plain EXCEPT !.rested = rested]
               m(rested) == move_card(st, u, "ResourceArea", o(rested))
    <2>1. PICK rested \in BOOLEAN : Free /\ st.list["ResourceDeck"] # <<>> /\ Do(m(rested))
      BY <1>2 DEF place_resource
    <2>2. Inv(st) /\ u \in Uids /\ st.zone[u] = "ResourceDeck"
      BY <1>0, <2>1, FreeIs, HeadIs
    <2> HIDE DEF u
    <2>3. st.def[u] \in {Resource, ExResource}
      <3>1. FitsZone(st.def[u], st.zone[u], st.damage[u], st.known[u])
        BY <2>2 DEF Inv, Whole, Fit
      <3> QED BY <2>2, <3>1 DEF FitsZone
    <2>4. MayMove(st, u, "ResourceArea") /\ "ResourceArea" # "Paired"
      BY <1>0, <2>2, <2>3 DEF MayMove, MayCome
    <2>5. o(rested) \in Options
      BY OptionsAre
    <2> HIDE DEF o
    <2>6. Steps(st, m(rested))
      BY <2>2, <2>4, <2>5, Moves1
    <2> HIDE DEF m
    <2> QED BY <2>1, <2>6, EndsFree
  <1>3. CASE set_resources_active
    <2> DEFINE r(us) == FoldSet(LAMBDA u, acc : record(acc, u), st, us)
    <2>1. PICK us \in SUBSET Turned(st, TRUE) : Free /\ Do(turn_resources(r(us), us, FALSE))
      BY <1>3 DEF set_resources_active
    <2>2. Inv(st)
      BY <2>1, FreeIs
    <2>3. us \in SUBSET Uids /\ IsFiniteSet(us)
      <3>1. InZone(st, "ResourceArea") \subseteq Uids /\ IsFiniteSet(InZone(st, "ResourceArea"))
        BY <1>0, <2>2, ListsAre
      <3>2. us \subseteq InZone(st, "ResourceArea")
        BY DEF Turned
      <3> QED BY <3>1, <3>2, FS_Subset
    <2>4. Steps(st, r(us))
      BY <2>2, <2>3, RecordsAll
    <2> HIDE DEF r
    <2>5. Steps(r(us), turn_resources(r(us), us, FALSE))
      BY <2>4, RestSome DEF Steps
    <2>6. Steps(st, turn_resources(r(us), us, FALSE))
      BY <2>4, <2>5, StepsTrans
    <2> QED BY <2>1, <2>6, EndsFree
  <1>4. CASE rest_resources
    <2>1. PICK us : Free /\ Do(turn_resources(st, us, TRUE))
      BY <1>4 DEF rest_resources
    <2>2. Steps(st, turn_resources(st, us, TRUE))
      BY <2>1, FreeIs, RestSome
    <2> QED BY <2>1, <2>2, EndsFree
  <1>5. CASE rest
    <2>1. PICK u \in InZone(st, "Battle") \cup InZone(st, "ResourceArea") : Free /\ Do(WithRest(st, u, TRUE))
      BY <1>5 DEF rest
    <2>2. Inv(st) /\ u \in Uids
      BY <1>0, <2>1, FreeIs, Listed
    <2>3. Steps(st, WithRest(st, u, TRUE))
      BY <2>2, RestOne
    <2> QED BY <2>1, <2>3, EndsFree
  <1>6. CASE set_active
    <2> DEFINE d == derived(st)
               s(u) == WithRest(d, u, FALSE)
               t(u) == IF st.zone[u] = "Battle" THEN s(u) ELSE record(s(u), u)
    <2>1. PICK u \in InZone(st, "Battle") \cup InZone(st, "ResourceArea") : Free /\ Do(t(u))
      BY <1>6 DEF set_active
    <2>2. Inv(st) /\ u \in Uids
      BY <1>0, <2>1, FreeIs, Listed
    <2>3. Steps(st, d)
      BY <2>2, Derives
    <2> HIDE DEF d
    <2>4. Steps(d, s(u))
      BY <2>2, <2>3, RestOne DEF Steps
    <2> HIDE DEF s
    <2>5. Steps(s(u), record(s(u), u))
      BY <2>2, <2>4, Records DEF Steps
    <2>6. Steps(st, t(u))
      BY <2>3, <2>4, <2>5, StepsTrans
    <2> HIDE DEF t
    <2> QED BY <2>1, <2>6, EndsFree
  <1> QED BY <1>1, <1>2, <1>3, <1>4, <1>5, <1>6 DEF Turning
\* Cards put into a deck one by one, for their owner to order.
LEMMA ToDeckKeeps == ASSUME BInv, to_deck PROVE BInv'
  <1>1. PICK us \in SUBSET Targets, bottom \in BOOLEAN : Free /\ Do(h_to_deck(st, us, bottom))
    BY DEF to_deck
  <1> DEFINE pilots == {st.pair[u] : u \in {v \in us : st.zone[v] = "Battle"}} \ {NoUid}
             moved == move_all(st, SetToSeq(us), "Deck", [Plain EXCEPT !.bottom = bottom])
             together == {u \in us \cup pilots : moved.zone[u] = "Deck"}
             f == [u \in Uids |-> IF u \in together THEN moved.known[u] \cap {Owner} ELSE moved.known[u]]
             k == [op |-> "order", left |-> together, picked |-> <<>>, bottom |-> bottom]
             a == [moved EXCEPT !.known = f]
             b == [a EXCEPT !.task = k]
  <1>2. Inv(st) /\ st.phase = "play" /\ st.task = NoTask /\ [Plain EXCEPT !.bottom = bottom] \in Options
    BY <1>1, FreeIs, OptionsAre
  <1>3. us \subseteq Uids /\ IsFiniteSet(us) /\ \A u \in us : Movable(st, u, "Deck")
    <2>1. us \subseteq Uids /\ \A u \in us : st.zone[u] \notin {"none", "ResourceArea", "ResourceDeck"}
      BY DEF Targets
    <2>2. \A u \in us : Movable(st, u, "Deck")
      BY <1>2, <2>1, MovableIs
    <2> QED BY <2>1, <2>2, UidsAre, FS_Subset DEF BInv
  <1>4. SetToSeq(us) \in Seq(Uids) /\ \A i \in 1 .. Len(SetToSeq(us)) : Movable(st, SetToSeq(us)[i], "Deck")
    <2> DEFINE l == SetToSeq(us)
    <2>1. l \in Seq(us)
      BY <1>3, SomeOrder, OrderIs
    <2> HIDE DEF l
    <2>2. l \in Seq(Uids) /\ \A i \in 1 .. Len(l) : l[i] \in us
      BY <1>3, <2>1, SeqMonotonic
    <2> QED BY <1>3, <2>2 DEF l
  <1>5. pilots \subseteq Uids
    <2>1. st.pair \in [Uids -> Uids \cup {NoUid}]
      BY <1>2, Fields DEF Inv, Whole
    <2> QED BY <1>3, <2>1
  <1>6. Steps(st, moved)
    BY <1>2, <1>4, MovesAll
  <1>7. h_to_deck(st, us, bottom) = IF Cardinality(together) <= 1 THEN moved ELSE b
    <2>1. Typed(moved)
      BY <1>6 DEF Steps, Inv, Whole
    <2> DEFINE c == [moved EXCEPT !.known = f, !.task = k]
    <2>2. h_to_deck(st, us, bottom) = IF Cardinality(together) <= 1 THEN moved ELSE c
      BY DEF h_to_deck
    <2> HIDE DEF moved, together, f, k
    <2>3. c = b
      BY <2>1 DEF Typed, States
    <2> QED BY <2>2, <2>3
  <1>8. together \subseteq Uids /\ \A u \in together : moved.zone[u] = "Deck"
    BY <1>3, <1>5
  <1> HIDE DEF moved, together, pilots
  <1>9. Inv(moved) /\ moved.phase = "play" /\ moved.known \in [Uids -> SUBSET Players]
    BY <1>2, <1>6, Fields DEF Steps, Inv, Whole
  <1>10. f \in [Uids -> SUBSET Players]
         /\ \A u \in Uids : moved.known[u] \subseteq f[u] \/ moved.zone[u] \in {"Deck", "Shield", "none"}
    BY <1>8, <1>9
  <1> HIDE DEF f
  <1>11. Steps(moved, a) /\ a.zone = moved.zone
    BY <1>9, <1>10, Knows
  <1> HIDE DEF a
  <1>12. Good(b)
    <2>1. /\ k \in [op : {"order"}, left : SUBSET Uids, picked : Seq(Uids), bottom : BOOLEAN]
          /\ k.left = together /\ k.picked = <<>>
      BY <1>8
    <2> HIDE DEF k
    <2>2. Inv(a)
      BY <1>11 DEF Steps
    <2>3. Inv(b) /\ b.phase = a.phase /\ b.task = k /\ b.zone = a.zone
      BY <2>2, OtherTask
    <2> HIDE DEF b
    <2>4. b.phase = "play" /\ b.zone = moved.zone
      BY <1>9, <1>11, <2>3 DEF Steps
    <2>5. Distinct(<<>>) /\ ToSet(<<>>) = {}
      BY DEF Distinct, ToSet
    <2>6. Waits(b, k, NewCards(table))
      BY <1>8, <2>1, <2>4, <2>5 DEF Waits
    <2> QED BY <2>3, <2>6 DEF Good
  <1>13. Good(moved)
    BY <1>2, <1>6, NothingWaits
  <1> HIDE DEF b
  <1> QED BY <1>1, <1>7, <1>12, <1>13, Ends

\* The decision in which order cards come into the deck.
OrderOf(left, picked, bottom) == [op |-> "order", left |-> left, picked |-> picked, bottom |-> bottom]

\* An order with another card picked.
PickedOne(k, left, picked) == [[k EXCEPT !.left = left] EXCEPT !.picked = picked]

\* It is the order of the rest.
LEMMA NextPick ==
  ASSUME NEW a, NEW b, NEW c, NEW x, NEW y, NEW k, k = OrderOf(a, b, c)
  PROVE  PickedOne(k, x, y) = OrderOf(x, y, c)
  <1>1. [OrderOf(a, b, c) EXCEPT !.left = x] = OrderOf(x, b, c)
    BY DEF OrderOf
  <1>2. [OrderOf(x, b, c) EXCEPT !.picked = y] = OrderOf(x, y, c)
    BY DEF OrderOf
  <1> QED BY <1>1, <1>2 DEF PickedOne

\* The owner picks the next card of those, the last one is not asked for.
LEMMA OrderKeeps == ASSUME BInv, r_to_deck PROVE BInv'
  <1> DEFINE k == st.task
             left(u) == k.left \ {u}
             picked(u) == Append(k.picked, u)
             more(u) == [st EXCEPT !.task.left = left(u), !.task.picked = picked(u)]
             last(u) == [place_ordered(st, picked(u) \o SetToSeq(left(u)), k.bottom) EXCEPT !.task = NoTask]
  <1>1. PICK u \in Uids :
          k.op = "order" /\ u \in k.left /\ Do(IF Cardinality(left(u)) > 1 THEN more(u) ELSE last(u))
    BY DEF r_to_deck
  <1>2. Inv(st) /\ Waits(st, k, NewCards(table))
    BY DEF BInv, Good
  <1>3. /\ st.phase = "play"
        /\ k \in [op : {"order"}, left : SUBSET Uids, picked : Seq(Uids), bottom : BOOLEAN]
        /\ Distinct(k.picked) /\ ToSet(k.picked) \cap k.left = {}
        /\ \A v \in k.left \cup ToSet(k.picked) : st.zone[v] = "Deck"
    BY <1>1, <1>2 DEF Waits, NoTask
  <1> DEFINE l == left(u)
             p == picked(u)
  <1>4. /\ p \in Seq(Uids) /\ Distinct(p) /\ ToSet(p) = ToSet(k.picked) \cup {u} /\ l \in SUBSET Uids
        /\ ToSet(p) \cap l = {} /\ \A v \in l \cup ToSet(p) : st.zone[v] = "Deck"
    <2>1. p \in Seq(Uids) /\ Distinct(p) /\ ToSet(p) = ToSet(k.picked) \cup {u}
      <3>1. k.picked \in Seq(Uids) /\ Distinct(k.picked) /\ u \notin ToSet(k.picked) /\ u \in Uids
        BY <1>1, <1>3
      <3> DEFINE c == k.picked
      <3>2. c \in Seq(Uids) /\ Distinct(c) /\ u \notin ToSet(c) /\ u \in Uids
        BY <3>1
      <3>3. p = Append(c, u)
        OBVIOUS
      <3> HIDE DEF c, p
      <3>4. Append(c, u) \in Seq(Uids) /\ Distinct(Append(c, u)) /\ ToSet(Append(c, u)) = ToSet(c) \cup {u}
        <4> DEFINE one == <<u>>
        <4>1. one \in Seq(Uids) /\ Distinct(one) /\ ToSet(one) = {u}
          BY <3>2, SingleIs
        <4>2. Append(c, u) = c \o one
          BY <3>2, AppendIsConcat
        <4> HIDE DEF one
        <4>3. ToSet(c) \cap ToSet(one) = {}
          BY <3>2, <4>1
        <4>4. c \o one \in Seq(Uids) /\ Distinct(c \o one) /\ ToSet(c \o one) = ToSet(c) \cup ToSet(one)
          BY <3>2, <4>1, <4>3, ConcatIs
        <4> QED BY <4>1, <4>2, <4>4
      <3> QED BY <3>3, <3>4 DEF c
    <2> QED BY <1>1, <1>3, <2>1
  <1> HIDE DEF left, picked
  <1>5. Good(more(u))
    <2> DEFINE n == OrderOf(l, p, k.bottom)
               t == [st EXCEPT !.task = n]
    <2>1. more(u) = t
      <3>1. k = OrderOf(k.left, k.picked, k.bottom)
        BY <1>3 DEF OrderOf
      <3> DEFINE x == k.left
                 y == k.picked
                 c == k.bottom
      <3>2. k = OrderOf(x, y, c)
        BY <3>1
      <3> HIDE DEF x, y, c, l, p, k
      <3>3. PickedOne(k, l, p) = OrderOf(l, p, c)
        BY <3>2, NextPick
      <3>4. [[k EXCEPT !.left = l] EXCEPT !.picked = p] = n
        BY <3>3 DEF PickedOne, c
      <3> QED BY <1>2, <3>4 DEF k, more, l, p, Inv, Whole, Typed, States
    <2>2. n \in [op : {"order"}, left : SUBSET Uids, picked : Seq(Uids), bottom : BOOLEAN]
          /\ n.left = l /\ n.picked = p
      BY <1>3, <1>4 DEF OrderOf
    <2> HIDE DEF n, l, p
    <2>3. Inv(t) /\ t.phase = st.phase /\ t.task = n /\ t.zone = st.zone
      BY <1>2, OtherTask
    <2> HIDE DEF t
    <2>4. Waits(t, n, NewCards(table))
      BY <1>3, <1>4, <2>2, <2>3 DEF Waits
    <2>5. Good(t)
      BY <2>3, <2>4 DEF Good
    <2> HIDE DEF more
    <2> QED BY <2>1, <2>5
  <1>6. Good(last(u))
    <2> DEFINE q == SetToSeq(l)
               order == p \o q
               a == place_ordered(st, order, k.bottom)
               t == [a EXCEPT !.task = NoTask]
    <2>1. IsFiniteSet(l)
      BY <1>4, UidsAre, FS_Subset DEF BInv
    <2>2. q \in Seq(Uids) /\ Distinct(q) /\ ToSet(q) = l
      <3>1. q \in Seq(l) /\ Distinct(q) /\ ToSet(q) = l
        BY <2>1, SomeOrder, OrderIs
      <3> QED BY <1>4, <3>1, SeqMonotonic
    <2> HIDE DEF q, l, p
    <2>3. order \in Seq(Uids) /\ Distinct(order) /\ ToSet(order) = ToSet(p) \cup l
      BY <1>4, <2>2, ConcatIs
    <2>4. ToSet(order) \subseteq InZone(st, "Deck")
      <3>1. InZone(st, "Deck") = {v \in Uids : st.zone[v] = "Deck"}
        BY <1>2, ListsAre, ZonesAre
      <3>2. ToSet(p) \subseteq Uids
        BY <1>4, Elements
      <3> QED BY <1>4, <2>3, <3>1, <3>2
    <2> HIDE DEF order
    <2>5. k.bottom \in BOOLEAN
      BY <1>3
    <2>6. Steps(st, a)
      BY <1>2, <2>3, <2>4, <2>5, PlacesOrdered
    <2> HIDE DEF a
    <2>7. Inv(t) /\ t.task = NoTask
      BY <2>6, OtherTask DEF Steps
    <2> HIDE DEF t
    <2>8. Good(t)
      BY <2>7 DEF Good, Waits
    <2> QED BY <2>8 DEF t, a, order, q, l, p
  <1> HIDE DEF more, last
  <1> QED BY <1>1, <1>5, <1>6, Ends

\* Cards moved by effects.
LEMMA MovesKeep == ASSUME BInv, Moves PROVE BInv'
  <1>0. /\ {"Deck", "Hand", "Trash", "Shield", "Resolving", "Battle", "Paired"} \subseteq ListedZones
        /\ Plain \in Options
    BY ZonesAre, OptionsAre
  <1>1. CASE return_to_hand
    <2> DEFINE d == derived(st)
    <2>0. PICK z \in {"Battle", "Paired", "Trash", "Resolving"} :
            \E u \in InZone(st, z) : Free /\ Do(move_card(d, u, "Hand", Plain))
      BY <1>1 DEF return_to_hand
    <2>1. PICK u \in InZone(st, z) : Free /\ Do(move_card(d, u, "Hand", Plain))
      BY <2>0
    <2>2. Inv(st) /\ u \in Uids /\ Movable(st, u, "Hand")
      BY <1>0, <2>1, FreeIs, Listed
    <2>3. Steps(st, d) /\ d.zone = st.zone /\ Inv(d)
      BY <2>2, Derives DEF Steps
    <2> HIDE DEF d
    <2>4. Steps(d, move_card(d, u, "Hand", Plain))
      BY <1>0, <2>2, <2>3, Leaves DEF Movable
    <2>5. Steps(st, move_card(d, u, "Hand", Plain))
      BY <2>3, <2>4, StepsTrans
    <2> QED BY <2>1, <2>5, EndsFree
  <1>2. CASE to_deck
    BY <1>2, ToDeckKeeps
  <1>3. CASE to_deck_shuffled
    <2> DEFINE m(u) == move_card(st, u, "Deck", Plain)
    <2>1. PICK u \in Targets : Free /\ \E order \in SetToSeqs(InZone(m(u), "Deck")) : Do(shuffle_deck(m(u), order))
      BY <1>3 DEF to_deck_shuffled
    <2>2. PICK order \in SetToSeqs(InZone(m(u), "Deck")) : Do(shuffle_deck(m(u), order))
      BY <2>1
    <2>3. Inv(st) /\ u \in Uids /\ Movable(st, u, "Deck")
      BY <2>1, FreeIs, MovableIs DEF Targets
    <2>4. Steps(st, m(u)) /\ Inv(m(u))
      BY <1>0, <2>3, Leaves
    <2> HIDE DEF m
    <2>5. Steps(m(u), shuffle_deck(m(u), order))
      BY <2>4, Shuffles
    <2>6. Steps(st, shuffle_deck(m(u), order))
      BY <2>4, <2>5, StepsTrans
    <2> QED BY <2>1, <2>2, <2>6, EndsFree
  <1>4. CASE r_to_deck
    BY <1>4, OrderKeeps
  <1>5. CASE to_trash
    <2>1. PICK u \in {v \in Uids : st.zone[v] \in {"Hand", "Deck", "Shield", "Paired", "Resolving"}} :
            Free /\ Do(move_card(st, u, "Trash", Plain))
      BY <1>5 DEF to_trash
    <2>2. Steps(st, move_card(st, u, "Trash", Plain))
      BY <1>0, <2>1, FreeIs, MovableIs, Leaves
    <2> QED BY <2>1, <2>2, EndsFree
  <1>6. CASE destroy
    <2> DEFINE d == derived(st)
    <2>1. PICK u \in {v \in Uids : st.zone[v] \in {"Battle", "Paired"}} :
            Free /\ Do(move_recorded(d, <<u>>, "Trash", Plain))
      BY <1>6 DEF destroy
    <2>2. Steps(st, d) /\ d.zone = st.zone /\ Inv(d)
      BY <2>1, FreeIs, Derives DEF Steps
    <2> HIDE DEF d
    <2>3. Steps(d, move_recorded(d, <<u>>, "Trash", Plain))
      BY <1>0, <2>1, <2>2, MovableIs, Leaves
    <2>4. Steps(st, move_recorded(d, <<u>>, "Trash", Plain))
      BY <2>2, <2>3, StepsTrans
    <2> QED BY <2>1, <2>4, EndsFree
  <1>7. CASE add_to_hand
    <2> DEFINE o(shown) == [Plain EXCEPT !.reveal = shown]
    <2>0. PICK z \in {"Deck", "Shield", "Trash"}, show \in BOOLEAN :
            \E u \in InZone(st, z) : Free /\ Do(move_card(st, u, "Hand", o(show)))
      BY <1>7 DEF add_to_hand
    <2>1. PICK u \in InZone(st, z) : Free /\ Do(move_card(st, u, "Hand", o(show)))
      BY <2>0
    <2>2. Inv(st) /\ u \in Uids /\ Movable(st, u, "Hand") /\ o(show) \in Options
      BY <1>0, <2>1, FreeIs, Listed, OptionsAre
    <2> HIDE DEF o
    <2>3. Steps(st, move_card(st, u, "Hand", o(show)))
      BY <2>2, Leaves
    <2> QED BY <2>1, <2>3, EndsFree
  <1>8. CASE shield_to_hand
    <2> DEFINE l == Top(st, "Shield", 1)
    <2>1. Free /\ Do(move_recorded(st, l, "Hand", Plain))
      BY <1>8 DEF shield_to_hand
    <2>2. Inv(st)
      BY <2>1, FreeIs
    <2>3. l \in Seq(Uids) /\ \A i \in 1 .. Len(l) : l[i] \in InZone(st, "Shield")
      BY <1>0, <2>2, TopIs
    <2> HIDE DEF l
    <2>4. \A i \in 1 .. Len(l) : Movable(st, l[i], "Hand")
      BY <1>0, <2>2, <2>3, Listed
    <2>5. Steps(st, move_recorded(st, l, "Hand", Plain))
      BY <1>0, <2>2, <2>3, <2>4, MovesRecorded
    <2> QED BY <2>1, <2>5, EndsFree
  <1>9. CASE add_to_shields
    <2> DEFINE o(top) == [Plain EXCEPT !.bottom = ~top]
    <2>1. PICK u \in InZone(st, "Hand") \cup InZone(st, "Trash") \cup ToSet(Top(st, "Deck", 1)), top \in BOOLEAN :
            Free /\ Do(move_card(st, u, "Shield", o(top)))
      BY <1>9 DEF add_to_shields
    <2>2. Inv(st) /\ o(top) \in Options
      BY <2>1, FreeIs, OptionsAre
    <2>3. ToSet(Top(st, "Deck", 1)) \subseteq InZone(st, "Deck")
      BY <1>0, <2>2, TopIs
    <2>4. u \in Uids /\ Movable(st, u, "Shield")
      BY <1>0, <2>1, <2>2, <2>3, Listed
    <2> HIDE DEF o
    <2>5. Steps(st, move_card(st, u, "Shield", o(top)))
      BY <2>2, <2>4, Leaves
    <2> QED BY <2>1, <2>5, EndsFree
  <1>10. CASE mill
    <2>1. PICK n \in 1 .. Len(st.list["Deck"]) : Free /\ Do(move_all(st, Top(st, "Deck", n), "Trash", Plain))
      BY <1>10 DEF mill
    <2>2. Inv(st)
      BY <2>1, FreeIs
    <2>3. n \in Nat
      OBVIOUS
    <2>4. Steps(st, move_all(st, Top(st, "Deck", n), "Trash", Plain))
      BY <1>0, <2>2, <2>3, ZoneMoves
    <2> QED BY <2>1, <2>4, EndsFree
  <1>11. CASE destroy_shields
    <2> DEFINE u == Head(st.list["Shield"])
               shown == [st EXCEPT !.known[u] = Players]
               dst == IF st.def[u] = Pilot THEN "Resolving" ELSE "Trash"
               o == [Plain EXCEPT !.reveal = TRUE]
    <2>1. Free /\ st.list["Shield"] # <<>> /\ Do(move_recorded(shown, <<u>>, dst, o))
      BY <1>11 DEF destroy_shields
    <2>2. Inv(st) /\ u \in Uids /\ st.zone[u] = "Shield" /\ o \in Options
      BY <1>0, <2>1, FreeIs, HeadIs, OptionsAre
    <2>3. dst \in {"Hand", "Deck", "Shield", "Trash", "Resolving"} /\ dst # "Shield"
      OBVIOUS
    <2> HIDE DEF u, dst, o
    <2>4. Steps(st, shown) /\ shown.zone = st.zone /\ Inv(shown)
      BY <2>2, Shows DEF Steps
    <2> HIDE DEF shown
    <2>5. Steps(shown, move_recorded(shown, <<u>>, dst, o))
      BY <2>2, <2>3, <2>4, MovableIs, Leaves
    <2>6. Steps(st, move_recorded(shown, <<u>>, dst, o))
      BY <2>4, <2>5, StepsTrans
    <2> QED BY <2>1, <2>6, EndsFree
  <1> QED BY <1>1, <1>2, <1>3, <1>4, <1>5, <1>6, <1>7, <1>8, <1>9, <1>10, <1>11 DEF Moves

\* Some cards of the deck in some order.
LEMMA OrderPlaces ==
  ASSUME NEW s, Inv(s), NEW us \in SUBSET InZone(s, "Deck"), NEW order \in SetToSeqs(us), NEW bottom \in BOOLEAN
  PROVE  LET t == place_ordered(s, order, bottom) IN
         Steps(s, t) /\ t.zone = s.zone /\ t.known = s.known /\ \A u \in us : s.zone[u] = "Deck"
  <1>1. /\ InZone(s, "Deck") = {u \in Uids : s.zone[u] = "Deck"} /\ IsFiniteSet(InZone(s, "Deck"))
    BY ListsAre, ZonesAre
  <1>2. us \subseteq Uids /\ IsFiniteSet(us) /\ \A u \in us : s.zone[u] = "Deck"
    BY <1>1, FS_Subset
  <1>3. order \in Seq(us) /\ Distinct(order) /\ ToSet(order) = us
    BY <1>2, OrderIs
  <1>4. order \in Seq(Uids)
    BY <1>2, <1>3, SeqMonotonic
  <1>5. ToSet(order) \subseteq InZone(s, "Deck")
    BY <1>3
  <1> QED BY <1>2, <1>3, <1>4, <1>5, PlacesOrdered

\* Cards looked at, shown, arranged and shuffled.
LEMMA KnowingKeeps == ASSUME BInv, Knowing PROVE BInv'
  <1>1. CASE Look
    <2> DEFINE d == derived(st)
               task == st.task
    <2>1. Inv(st) /\ Waits(st, task, NewCards(table)) /\ Do(d)
      BY <1>1 DEF Look, BInv, Good
    <2>2. Inv(d) /\ d.phase = st.phase /\ d.task = task /\ d.zone = st.zone /\ d.def = st.def
      BY <2>1, Derives DEF Steps
    <2> HIDE DEF d, task
    <2>3. Waits(d, task, NewCards(table))
      BY <2>1, <2>2 DEF Waits
    <2>4. Good(d)
      BY <2>2, <2>3 DEF Good
    <2> QED BY <2>1, <2>4, Ends
  <1>2. CASE look_top
    <2> DEFINE t(n, who) == learn(st, ToSet(Top(st, "Deck", n)), who)
    <2>1. PICK n \in 1 .. Len(st.list["Deck"]), who \in {{Owner}, {Opponent}, Players} : Free /\ Do(t(n, who))
      BY <1>2 DEF look_top
    <2>2. Inv(st) /\ who \in SUBSET Players
      BY <2>1, FreeIs DEF Players
    <2>3. Steps(st, t(n, who))
      BY <2>2, Learns
    <2> HIDE DEF t
    <2> QED BY <2>1, <2>3, EndsFree
  <1>3. CASE reveal
    <2>1. PICK u : Free /\ Do(learn(st, {u}, Players))
      BY <1>3 DEF reveal
    <2>2. Inv(st) /\ Players \in SUBSET Players
      BY <2>1, FreeIs
    <2>3. Steps(st, learn(st, {u}, Players))
      BY <2>2, Learns
    <2> QED BY <2>1, <2>3, EndsFree
  <1>4. CASE arrange
    <2>1. PICK who \in Players, bottom \in BOOLEAN :
            \E us \in SUBSET {u \in InZone(st, "Deck") : who \in st.known[u]} \ {{}} :
              \E order \in SetToSeqs(us) : Free /\ Do(place_ordered(st, order, bottom))
      BY <1>4 DEF arrange
    <2>2. PICK us \in SUBSET {u \in InZone(st, "Deck") : who \in st.known[u]} \ {{}} :
            \E order \in SetToSeqs(us) : Free /\ Do(place_ordered(st, order, bottom))
      BY <2>1
    <2>3. PICK order \in SetToSeqs(us) : Free /\ Do(place_ordered(st, order, bottom))
      BY <2>2
    <2>4. Inv(st) /\ us \in SUBSET InZone(st, "Deck")
      BY <2>3, FreeIs
    <2>5. Steps(st, place_ordered(st, order, bottom))
      BY <2>1, <2>3, <2>4, OrderPlaces
    <2> QED BY <2>3, <2>5, EndsFree
  <1>5. CASE return_looked_bottom
    <2> DEFINE s(order) == place_ordered(st, order, TRUE)
               f(us, order) == [u \in Uids |-> IF u \in us THEN {} ELSE s(order).known[u]]
               k(us, order) == [s(order) EXCEPT !.known = f(us, order)]
               t(us, order) == IF Len(order) = 1 THEN s(order) ELSE k(us, order)
    <2>1. PICK us \in SUBSET {u \in InZone(st, "Deck") : Owner \in st.known[u]} \ {{}} :
            \E order \in SetToSeqs(us) : Free /\ Do(t(us, order))
      BY <1>5 DEF return_looked_bottom
    <2>2. PICK order \in SetToSeqs(us) : Free /\ Do(t(us, order))
      BY <2>1
    <2>3. Inv(st) /\ us \in SUBSET InZone(st, "Deck")
      BY <2>2, FreeIs
    <2>4. Steps(st, s(order)) /\ s(order).zone = st.zone /\ \A u \in us : st.zone[u] = "Deck"
      BY <2>2, <2>3, OrderPlaces
    <2> HIDE DEF s
    <2>5. s(order).known \in [Uids -> SUBSET Players] /\ Inv(s(order))
      BY <2>4, Fields DEF Steps, Inv, Whole
    <2>6. /\ f(us, order) \in [Uids -> SUBSET Players]
          /\ \A u \in Uids : \/ s(order).known[u] \subseteq f(us, order)[u]
                             \/ s(order).zone[u] \in {"Deck", "Shield", "none"}
      BY <2>4, <2>5
    <2> HIDE DEF f
    <2>7. Steps(s(order), k(us, order))
      BY <2>5, <2>6, Knows
    <2> HIDE DEF k
    <2>8. Steps(st, t(us, order))
      BY <2>4, <2>7, StepsTrans
    <2> HIDE DEF t
    <2> QED BY <2>2, <2>8, EndsFree
  <1>6. CASE shuffle
    <2>1. PICK order \in SetToSeqs(InZone(st, "Deck")) : Free /\ Do(shuffle_deck(st, order))
      BY <1>6 DEF shuffle
    <2>2. Steps(st, shuffle_deck(st, order))
      BY <2>1, FreeIs, Shuffles
    <2> QED BY <2>1, <2>2, EndsFree
  <1> QED BY <1>1, <1>2, <1>3, <1>4, <1>5, <1>6 DEF Knowing

-----------------------------------------------------------------------------
(* Damage, battles, lasting effects and turns.                             *)

\* A card in the battle area may have damage.
LEMMA Hurts ==
  ASSUME NEW s, Inv(s), NEW u \in Uids, s.zone[u] = "Battle", NEW n \in Nat
  PROVE  Steps(s, touch([s EXCEPT !.damage[u] = n]))
  <1> DEFINE f == [s.damage EXCEPT ![u] = n]
             t == touch([s EXCEPT !.damage = f])
  <1>1. Typed(s) /\ Whole(s) /\ s.damage \in [Uids -> Nat]
    BY Fields DEF Inv, Whole
  <1>2. f \in [Uids -> Nat] /\ f[u] = n /\ \A v \in Uids \ {u} : f[v] = s.damage[v]
    BY <1>1
  <1>3. touch([s EXCEPT !.damage[u] = n]) = t
    OBVIOUS
  <1> HIDE DEF f
  <1>4. /\ t \in States(s) /\ t.def = s.def /\ t.zone = s.zone /\ t.damage = f /\ t.known = s.known
        /\ t.pair = s.pair /\ t.list = s.list /\ t.cache = {} /\ t.phase = s.phase /\ t.task = s.task
    BY <1>1, <1>2 DEF Typed, States, touch
  <1> HIDE DEF t
  <1>5. Typed(t) /\ Where(t) /\ Pairs(t)
    BY <1>1, <1>4, StatesTrans DEF Typed, Whole, Where, Pairs, PairOf
  <1>6. Fit(t)
    <2> SUFFICES ASSUME NEW v \in Uids
                 PROVE  /\ FitsZone(s.def[v], s.zone[v], f[v], s.known[v])
                        /\ IsDealt(table, v, s.def[v], s.zone[v])
      BY <1>4 DEF Fit
    <2>1. FitsZone(s.def[v], s.zone[v], s.damage[v], s.known[v]) /\ IsDealt(table, v, s.def[v], s.zone[v])
      BY <1>1 DEF Whole, Fit
    <2>2. CASE v = u
      BY <2>1, <2>2 DEF FitsZone
    <2>3. CASE v # u
      BY <1>2, <2>1, <2>3
    <2> QED BY <2>2, <2>3
  <1> QED BY <1>3, <1>4, <1>5, <1>6, NoView DEF Steps, Inv, Whole

\* touch after changes of battle and lasting effects is Ruled.
LEMMA RuledIs ==
  ASSUME NEW s, Inv(s), NEW x, NEW y
  PROVE  /\ touch([s EXCEPT !.battle = x]) = Ruled(s, x, s.lasting, s.turn, s.history, s.phase)
         /\ touch([s EXCEPT !.battle = x, !.lasting = y]) = Ruled(s, x, y, s.turn, s.history, s.phase)
         /\ touch([s EXCEPT !.lasting = y]) = Ruled(s, s.battle, y, s.turn, s.history, s.phase)
  BY DEF Inv, Whole, Typed, States, Ruled, touch

\* Changing the battle or the lasting effects, while no decision is waited for.
LEMMA FreeRules ==
  ASSUME NEW s, Inv(s), s.task = NoTask, NEW x, NEW y
  PROVE  /\ Good(touch([s EXCEPT !.battle = x])) /\ Good(touch([s EXCEPT !.battle = x, !.lasting = y]))
         /\ Good(touch([s EXCEPT !.lasting = y]))
         /\ touch([s EXCEPT !.battle = x]).task = NoTask /\ touch([s EXCEPT !.lasting = y]).task = NoTask
  <1>1. s.history \in Seq(Events)
    BY Fields DEF Inv, Whole
  <1>2. /\ Good(Ruled(s, x, s.lasting, s.turn, s.history, s.phase))
        /\ Good(Ruled(s, x, y, s.turn, s.history, s.phase))
        /\ Good(Ruled(s, s.battle, y, s.turn, s.history, s.phase))
    BY <1>1, GoodRules
  <1>3. /\ Ruled(s, x, s.lasting, s.turn, s.history, s.phase).task = NoTask
        /\ Ruled(s, s.battle, y, s.turn, s.history, s.phase).task = NoTask
    BY <1>1, OtherRules
  <1> DEFINE a == touch([s EXCEPT !.battle = x])
             b == touch([s EXCEPT !.battle = x, !.lasting = y])
             c == touch([s EXCEPT !.lasting = y])
  <1>4. /\ a = Ruled(s, x, s.lasting, s.turn, s.history, s.phase)
        /\ b = Ruled(s, x, y, s.turn, s.history, s.phase)
        /\ c = Ruled(s, s.battle, y, s.turn, s.history, s.phase)
    BY RuledIs
  <1> HIDE DEF a, b, c
  <1>5. Good(a) /\ Good(b) /\ Good(c) /\ a.task = NoTask /\ c.task = NoTask
    BY <1>2, <1>3, <1>4
  <1> QED BY <1>5 DEF a, b, c

\* Battles, lasting effects and turns.
LEMMA FightingKeeps == ASSUME BInv, Fighting PROVE BInv'
  <1>0. {"Battle", "ResourceArea"} \subseteq ListedZones
    BY ZonesAre
  <1>a. ASSUME NEW u \in InZone(st, "Battle"), Free
        PROVE  Inv(st) /\ st.task = NoTask /\ u \in Uids /\ st.zone[u] = "Battle"
    BY <1>0, <1>a, FreeIs, Listed
  <1>1. CASE apply_damage
    <2>1. PICK u \in InZone(st, "Battle") : Free /\ Do(touch([st EXCEPT !.damage[u] = 1]))
      BY <1>1 DEF apply_damage
    <2>2. Steps(st, touch([st EXCEPT !.damage[u] = 1]))
      BY <1>a, <2>1, Hurts
    <2> QED BY <2>1, <2>2, EndsFree
  <1>2. CASE recover
    <2>1. PICK u \in InZone(st, "Battle") : Free /\ Do(touch([st EXCEPT !.damage[u] = 0]))
      BY <1>2 DEF recover
    <2>2. Steps(st, touch([st EXCEPT !.damage[u] = 0]))
      BY <1>a, <2>1, Hurts
    <2> QED BY <2>1, <2>2, EndsFree
  <1>3. CASE declare_attack
    <2>1. CASE Free /\ Do(touch([st EXCEPT !.battle = BattleBy(Opponent)]))
      <3>1. Good(touch([st EXCEPT !.battle = BattleBy(Opponent)]))
        BY <2>1, FreeIs, FreeRules
      <3> QED BY <2>1, <3>1, Ends
    <2>2. CASE ~(Free /\ Do(touch([st EXCEPT !.battle = BattleBy(Opponent)])))
      <3> DEFINE w(u) == WithRest(st, u, TRUE)
                 b(u) == touch([w(u) EXCEPT !.battle = BattleBy(Owner)])
      <3>1. PICK u \in InZone(st, "Battle") : Free /\ Do(record(b(u), u))
        BY <1>3, <2>2 DEF declare_attack
      <3>2. Inv(st) /\ st.task = NoTask /\ u \in Uids
        BY <1>a, <3>1
      <3>3. Inv(w(u)) /\ w(u).task = NoTask
        BY <3>2, RestOne DEF Steps
      <3> HIDE DEF w
      <3>4. Inv(b(u)) /\ b(u).task = NoTask
        BY <3>3, FreeRules DEF Good
      <3> HIDE DEF b
      <3>5. Good(record(b(u), u))
        BY <3>2, <3>4, Records, NothingWaits
      <3> QED BY <3>1, <3>5, Ends
    <2> QED BY <2>1, <2>2
  <1>4. CASE block
    <2> DEFINE x(u) == [st.battle EXCEPT !.target = u]
               b(u) == touch([st EXCEPT !.battle = x(u)])
               w(u) == WithRest(b(u), u, TRUE)
    <2>1. PICK u \in InZone(st, "Battle") :
            Free /\ Do(record(WithRest([st EXCEPT !.battle.target = u], u, TRUE), u))
      BY <1>4 DEF block
    <2>2. Inv(st) /\ st.task = NoTask /\ u \in Uids
      BY <1>a, <2>1
    <2>3. WithRest([st EXCEPT !.battle.target = u], u, TRUE) = w(u)
      BY <2>2 DEF WithRest, touch, Inv, Whole, Typed, States
    <2> HIDE DEF x
    <2>4. Inv(b(u)) /\ b(u).task = NoTask
      BY <2>2, FreeRules DEF Good
    <2> HIDE DEF b
    <2>5. Inv(w(u)) /\ w(u).task = NoTask
      BY <2>2, <2>4, RestOne DEF Steps
    <2> HIDE DEF w
    <2>6. Good(record(w(u), u))
      BY <2>2, <2>5, Records, NothingWaits
    <2> QED BY <2>1, <2>3, <2>6, Ends
  <1>5. CASE change_target
    <2> DEFINE x(u) == [st.battle EXCEPT !.target = u]
               b(u) == touch([st EXCEPT !.battle = x(u)])
    <2>1. PICK u \in InZone(st, "Battle") : Free /\ Do(touch([st EXCEPT !.battle.target = u]))
      BY <1>5 DEF change_target
    <2>2. touch([st EXCEPT !.battle.target = u]) = b(u)
      OBVIOUS
    <2> HIDE DEF x
    <2>3. Good(b(u))
      BY <2>1, FreeIs, FreeRules
    <2> HIDE DEF b
    <2> QED BY <2>1, <2>2, <2>3, Ends
  <1>6. CASE end_battle
    <2> DEFINE x == [st.battle EXCEPT !.ended = TRUE]
               y == st.lasting \ {"battle"}
               e == touch([st EXCEPT !.battle = x, !.lasting = y])
    <2>1. Free /\ Do(touch([st EXCEPT !.battle.ended = TRUE, !.lasting = @ \ {"battle"}]))
      BY <1>6 DEF end_battle
    <2>2. touch([st EXCEPT !.battle.ended = TRUE, !.lasting = @ \ {"battle"}]) = e
      BY <2>1, FreeIs DEF touch, Inv, Whole, Typed, States
    <2> HIDE DEF x, y
    <2>3. Good(e)
      BY <2>1, FreeIs, FreeRules
    <2> HIDE DEF e
    <2> QED BY <2>1, <2>2, <2>3, Ends
  <1>7. CASE pop_battle
    <2>1. Free /\ Do(touch([st EXCEPT !.battle = NoBattle]))
      BY <1>7 DEF pop_battle
    <2>2. Good(touch([st EXCEPT !.battle = NoBattle]))
      BY <2>1, FreeIs, FreeRules
    <2> QED BY <2>1, <2>2, Ends
  <1>8. CASE add_lasting
    <2> DEFINE y(d) == st.lasting \cup {d}
               a(d) == touch([st EXCEPT !.lasting = y(d)])
    <2>1. PICK d : Free /\ Do(IF d = "battle" /\ (~st.battle.live \/ st.battle.ended) THEN st
                             ELSE touch([st EXCEPT !.lasting = @ \cup {d}]))
      BY <1>8 DEF add_lasting
    <2>2. touch([st EXCEPT !.lasting = @ \cup {d}]) = a(d)
      OBVIOUS
    <2> HIDE DEF y
    <2>3. Good(a(d)) /\ Good(st)
      BY <2>1, FreeIs, FreeRules DEF BInv
    <2> HIDE DEF a
    <2>4. Do(a(d)) \/ Do(st)
      BY <2>1, <2>2
    <2> QED BY <2>3, <2>4, Ends
  <1>9. CASE next_turn
    <2> DEFINE s == touch([st EXCEPT !.lasting = {}])
               over == [s EXCEPT !.phase = "over"]
               n == s.turn + 1
               next == touch([s EXCEPT !.turn = n, !.history = <<>>, !.phase = "start"])
    <2>1. Free /\ (Do(over) \/ Do(next))
      BY <1>9 DEF next_turn
    <2>2. Inv(s) /\ s.task = NoTask
      BY <2>1, FreeIs, FreeRules DEF Good
    <2> HIDE DEF s
    <2>3. Good(over)
      BY <2>2, GoodPhase
    <2> HIDE DEF over, n
    <2>4. Good(next)
      <3>1. <<>> \in Seq(Events)
        OBVIOUS
      <3>2. Good(Ruled(s, s.battle, s.lasting, n, <<>>, "start"))
        BY <2>2, <3>1, GoodRules
      <3>3. next = Ruled(s, s.battle, s.lasting, n, <<>>, "start")
        BY <2>2 DEF Ruled, touch, Inv, Whole, Typed, States
      <3> HIDE DEF next
      <3> QED BY <3>2, <3>3
    <2> HIDE DEF next
    <2> QED BY <2>1, <2>3, <2>4, Ends
  <1>10. CASE active_step
    <2> DEFINE us == InZone(st, "Battle") \cup InZone(st, "ResourceArea")
               d == derived(st)
               r(mine) == turn_resources(d, IF mine THEN us ELSE {}, FALSE)
               t(mine) == [r(mine) EXCEPT !.phase = "play"]
    <2>1. PICK mine \in BOOLEAN : st.phase = "start" /\ Do(t(mine))
      BY <1>10 DEF active_step
    <2>2. Inv(st) /\ st.task = NoTask
      BY <2>1, NotYet
    <2>3. Inv(d) /\ d.task = NoTask
      BY <2>2, Derives DEF Steps
    <2> HIDE DEF d, us
    <2>4. Inv(r(mine)) /\ r(mine).task = NoTask
      BY <2>3, RestSome DEF Steps
    <2> HIDE DEF r
    <2>5. Good(t(mine))
      BY <2>4, GoodPhase
    <2> HIDE DEF t
    <2> QED BY <2>1, <2>5, Ends
  <1> QED BY <1>1, <1>2, <1>3, <1>4, <1>5, <1>6, <1>7, <1>8, <1>9, <1>10 DEF Fighting

-----------------------------------------------------------------------------
(* The whole specification.                                                *)

\* The cards after the first n, in their order.
LEMMA NewDecks ==
  ASSUME NEW n \in Nat, NEW m \in Nat, 1 .. m + n \subseteq Uids
  PROVE  LET l == [i \in 1 .. m |-> n + i] IN
         l \in Seq(Uids) /\ Distinct(l) /\ ToSet(l) = n + 1 .. n + m
  <1> DEFINE l == [i \in 1 .. m |-> n + i]
  <1>1. \A i \in 1 .. m : n + i \in 1 .. m + n
    OBVIOUS
  <1>2. l \in [1 .. m -> Uids]
    BY <1>1
  <1>3. l \in Seq(Uids) /\ Len(l) = m /\ \A i \in 1 .. m : l[i] = n + i
    BY <1>2
  <1> HIDE DEF l
  <1>4. Distinct(l)
    BY <1>3 DEF Distinct
  <1>5. ToSet(l) \subseteq n + 1 .. n + m
    <2>1. \A u \in ToSet(l) : \E i \in 1 .. Len(l) : l[i] = u
      BY <1>3, Elements
    <2>2. \A u \in ToSet(l) : \E i \in 1 .. m : u = n + i
      BY <1>3, <2>1
    <2> QED BY <2>2
  <1>6. ASSUME NEW u \in n + 1 .. n + m PROVE u \in ToSet(l)
    <2>1. u - n \in 1 .. m /\ n + (u - n) = u
      OBVIOUS
    <2>2. l[u - n] = u /\ l[u - n] \in ToSet(l)
      BY <1>3, <2>1, Elements
    <2> QED BY <2>2
  <1>7. ToSet(l) = n + 1 .. n + m
    BY <1>5, <1>6
  <1> QED BY <1>3, <1>4, <1>7 DEF l

\* A new game has its cards in the two decks.
LEMMA NewGameIsGood ==
  ASSUME NEW t \in Tables, table = t
  PROVE  Inv(NewGame(t)) /\ NewGame(t).task = NoTask
  <1> DEFINE s == NewGame(t)
             n == Len(t.main)
             m == t.resources
  <1>1. n \in Nat /\ m \in Nat /\ t.tokens \in Nat /\ t.main \in Seq({Unit, Pilot}) /\ n + m <= Size(t)
    BY BoardAssumption DEF Size
  <1>2. /\ Main(t) = 1 .. n /\ Resources(t) = n + 1 .. n + m /\ Main(t) \cap Resources(t) = {}
        /\ Main(t) \subseteq Uids /\ Resources(t) \subseteq Uids
    BY <1>1, UidsAre DEF Main, Resources
  <1>3. 1 .. m + n \subseteq Uids
    BY <1>1, <1>2
  <1> DEFINE main == [i \in Main(t) |-> i]
             res == [i \in 1 .. m |-> n + i]
  <1>4. main \in Seq(Uids) /\ Distinct(main) /\ ToSet(main) = Main(t)
    <2> DEFINE l == [i \in 1 .. n |-> 0 + i]
    <2>1. 1 .. n + 0 \subseteq Uids
      BY <1>1, <1>2
    <2>2. l \in Seq(Uids) /\ Distinct(l) /\ ToSet(l) = 0 + 1 .. 0 + n
      BY <1>1, <2>1, NewDecks
    <2>3. main = l
      BY <1>1, <1>2
    <2> HIDE DEF l, main
    <2> QED BY <1>1, <1>2, <2>2, <2>3
  <1>5. res \in Seq(Uids) /\ Distinct(res) /\ ToSet(res) = Resources(t)
    BY <1>1, <1>2, <1>3, NewDecks
  <1>6. <<>> \in Seq(Uids) /\ Distinct(<<>>) /\ ToSet(<<>>) = {}
    BY DEF Distinct, ToSet
  <1> HIDE DEF main, res
  <1>7. /\ s.def = [u \in Uids |-> IF u \in Main(t) THEN t.main[u] ELSE Resource]
        /\ s.zone = [u \in Uids |-> CASE u \in Main(t) -> "Deck"
                                      [] u \in Resources(t) -> "ResourceDeck"
                                      [] OTHER -> "none"]
        /\ s.rested = [u \in Uids |-> FALSE] /\ s.damage = [u \in Uids |-> 0]
        /\ s.pair = [u \in Uids |-> NoUid]
        /\ s.known = [u \in Uids |-> IF u \in Resources(t) THEN {Owner} ELSE {}]
        /\ s.list = [z \in ListedZones |-> CASE z = "Deck" -> main [] z = "ResourceDeck" -> res
                                             [] OTHER -> <<>>]
        /\ s.history = <<>> /\ s.cache = {} /\ s.task = NoTask
    BY DEF NewGame, main, res
  <1>8. \A u \in Uids : /\ u \in Main(t) => s.def[u] \in {Unit, Pilot} /\ s.zone[u] = "Deck"
                        /\ u \notin Main(t) => s.def[u] = Resource
                        /\ u \in Resources(t) => s.zone[u] = "ResourceDeck"
                        /\ u \notin Main(t) \cup Resources(t) => s.zone[u] = "none"
    BY <1>1, <1>2, <1>7
  <1>9. \A z \in ListedZones : s.list[z] = IF z = "Deck" THEN main ELSE IF z = "ResourceDeck" THEN res ELSE <<>>
    BY <1>7
  <1>10. Typed(s)
    <2>1. s.def \in [Uids -> Defs]
      BY <1>7, <1>8 DEF Unit, Pilot, Resource, Defs
    <2>2. s.zone \in [Uids -> Zones]
      <3>1. \A u \in Uids : s.zone[u] \in Zones
        BY <1>8 DEF Zones, ListedZones, HiddenZones
      <3> QED BY <1>7, <3>1
    <2>3. s.known \in [Uids -> SUBSET Players]
      BY <1>7 DEF Players
    <2>4. s.list \in [ListedZones -> Seq(Uids)]
      <3>1. \A z \in ListedZones : s.list[z] \in Seq(Uids)
        BY <1>4, <1>5, <1>6, <1>9
      <3> QED BY <1>7, <3>1
    <2>5. s.rested \in [Uids -> BOOLEAN] /\ s.damage \in [Uids -> Nat] /\ s.pair \in [Uids -> Uids \cup {NoUid}]
          /\ s.history \in Seq(Events)
      BY <1>7
    <2>6. s = [def |-> s.def, zone |-> s.zone, rested |-> s.rested, damage |-> s.damage, pair |-> s.pair,
               known |-> s.known, list |-> s.list, history |-> s.history, battle |-> s.battle,
               lasting |-> s.lasting, turn |-> s.turn, phase |-> s.phase, cache |-> s.cache, task |-> s.task]
      BY DEF NewGame
    <2> HIDE DEF s
    <2> QED BY <2>1, <2>2, <2>3, <2>4, <2>5, <2>6 DEF Typed, States
  <1> HIDE DEF s
  <1>11. Where(s)
    <2> SUFFICES ASSUME NEW z \in ListedZones
                 PROVE  Distinct(s.list[z]) /\ ToSet(s.list[z]) = {u \in Uids : s.zone[u] = z}
      BY DEF Where, Lists
    <2>0. z # "none"
      BY ZonesAre
    <2>1. CASE z = "Deck"
      <3>1. {u \in Uids : s.zone[u] = z} = Main(t)
        BY <1>2, <1>8, <2>1
      <3> QED BY <1>4, <1>9, <2>1, <3>1
    <2>2. CASE z = "ResourceDeck"
      <3>1. {u \in Uids : s.zone[u] = z} = Resources(t)
        BY <1>2, <1>8, <2>2
      <3> QED BY <1>5, <1>9, <2>2, <3>1
    <2>3. CASE z # "Deck" /\ z # "ResourceDeck"
      <3>1. {u \in Uids : s.zone[u] = z} = {}
        BY <1>2, <1>8, <2>0, <2>3
      <3> QED BY <1>6, <1>9, <2>3, <3>1
    <2> QED BY <2>1, <2>2, <2>3
  <1>12. Fit(s)
    <2> SUFFICES ASSUME NEW u \in Uids
                 PROVE  /\ FitsZone(s.def[u], s.zone[u], s.damage[u], s.known[u])
                        /\ IsDealt(table, u, s.def[u], s.zone[u])
      BY DEF Fit
    <2>1. s.damage[u] = 0 /\ s.def[u] \in {Unit, Pilot, Resource} /\ s.zone[u] \in {"Deck", "ResourceDeck", "none"}
          /\ (s.zone[u] = "ResourceDeck" => s.def[u] = Resource)
      BY <1>2, <1>7, <1>8
    <2>2. s.def[u] = Resource => s.zone[u] # "Deck"
      BY <1>8, <2>1 DEF Unit, Pilot, Resource
    <2>3. FitsZone(s.def[u], s.zone[u], s.damage[u], s.known[u])
      BY <2>1, <2>2 DEF FitsZone, PublicZones, Unit, Pilot, Resource, Tokens, UnitToken, ExResource
    <2>4. u \in Main(t) => s.def[u] = t.main[u]
      BY <1>7
    <2>5. IsDealt(t, u, s.def[u], s.zone[u])
      BY <1>2, <1>8, <2>4 DEF IsDealt, base_def_id, Unit, Pilot, Variant, Resource, Tokens, UnitToken, ExResource
    <2> QED BY <2>3, <2>5
  <1>13. Pairs(s)
    <2>1. \A u \in Uids : s.pair[u] = NoUid /\ s.zone[u] # "Paired"
      BY <1>2, <1>7, <1>8
    <2> QED BY <2>1 DEF Pairs, PairOf
  <1> QED BY <1>7, <1>10, <1>11, <1>12, <1>13, NoView DEF Inv, Whole, s

\* Every game starts well, and every step of it keeps the invariant.
LEMMA BoardIsGood == Spec => []BInv
  <1>1. Init => BInv
    <2> SUFFICES ASSUME Init PROVE BInv
      OBVIOUS
    <2>1. table \in Tables /\ st = NewGame(table)
      BY DEF Init
    <2>2. Inv(st) /\ st.task = NoTask
      BY <2>1, NewGameIsGood
    <2> QED BY <2>1, <2>2 DEF BInv, Good, Waits
  <1>2. BInv /\ [Next]_vars => BInv'
    <2> SUFFICES ASSUME BInv, [Next]_vars PROVE BInv'
      OBVIOUS
    <2>1. CASE UNCHANGED vars
      BY <2>1 DEF vars, BInv, Good, Inv, Whole, Fit
    <2>2. CASE Next
      BY <2>2, SetupKeeps, PlayKeeps, TurningKeeps, MovesKeep, KnowingKeeps, FightingKeeps DEF Next
    <2> QED BY <2>1, <2>2
  <1> QED BY <1>1, <1>2, PTL DEF Spec

\* A distinct list has a card at one place if it has it.
LEMMA Places ==
  ASSUME NEW l \in Seq(Uids), Distinct(l), NEW u
  PROVE  Cardinality({i \in DOMAIN l : l[i] = u}) = IF u \in ToSet(l) THEN 1 ELSE 0
  <1> DEFINE I == {i \in DOMAIN l : l[i] = u}
  <1>0. DOMAIN l = 1 .. Len(l)
    OBVIOUS
  <1>1. CASE u \in ToSet(l)
    <2>1. PICK k \in 1 .. Len(l) : l[k] = u
      BY <1>1, Elements
    <2>2. I = {k}
      BY <1>0, <2>1 DEF Distinct
    <2> HIDE DEF I
    <2>3. Cardinality(I) = 1
      BY <2>2, FS_Singleton
    <2> QED BY <1>1, <2>3 DEF I
  <1>2. CASE u \notin ToSet(l)
    <2>1. I = {}
      BY <1>0, <1>2, Elements
    <2> HIDE DEF I
    <2>2. Cardinality(I) = 0
      BY <2>1, FS_EmptySet
    <2> QED BY <1>2, <2>2 DEF I
  <1> QED BY <1>1, <1>2

\* In every state of every game each card is listed once, in its own zone, only tokens
\* leave, and pairs name each other, whatever effects followed each other.  (move_card,
\* remove_from_zone, new_card and every handler that calls them.)
THEOREM CardsStayListed == Spec => []CardsAreWhereListed
  <1>1. BInv => CardsAreWhereListed
    <2> SUFFICES ASSUME BInv, NEW u \in Uids
                 PROVE  LET z == st.zone[u]
                            p == st.pair[u]
                        IN /\ \A y \in ListedZones :
                                Cardinality({i \in DOMAIN st.list[y] : st.list[y][i] = u}) = IF y = z THEN 1 ELSE 0
                           /\ z = "Outside" => st.def[u] \in Tokens
                           /\ st.def[u] \in Tokens => z \in TokenZones \cup {"Outside", "none"}
                           /\ st.damage[u] # 0 => z \in {"Battle", "Outside"}
                           /\ z = "Paired" => p # NoUid
                           /\ p # NoUid => st.pair[p] = u /\ {z, st.zone[p]} = {"Battle", "Paired"}
                           /\ z = "Battle" => IsUnit(st.def[u])
                           /\ z \in {"ResourceArea", "ResourceDeck"} => st.def[u] \in {Resource, ExResource}
      BY DEF CardsAreWhereListed
    <2>1. Inv(st)
      BY DEF BInv, Good
    <2>2. ASSUME NEW y \in ListedZones
          PROVE  Cardinality({i \in DOMAIN st.list[y] : st.list[y][i] = u}) = IF y = st.zone[u] THEN 1 ELSE 0
      <3> DEFINE l == st.list[y]
      <3>1. l \in Seq(Uids) /\ Distinct(l) /\ ToSet(l) = {v \in Uids : st.zone[v] = y}
        BY <2>1, ListsAre
      <3> HIDE DEF l
      <3>2. Cardinality({i \in DOMAIN l : l[i] = u}) = IF u \in ToSet(l) THEN 1 ELSE 0
        BY <3>1, Places
      <3> QED BY <3>1, <3>2 DEF l
    <2>3. FitsZone(st.def[u], st.zone[u], st.damage[u], st.known[u])
      BY <2>1 DEF Inv, Whole, Fit
    <2>4. PairOf(st, u)
      BY <2>1 DEF Inv, Whole, Pairs
    <2>5. /\ st.zone[u] = "Paired" => st.pair[u] # NoUid
          /\ st.pair[u] # NoUid => /\ st.pair[st.pair[u]] = u
                                   /\ {st.zone[u], st.zone[st.pair[u]]} = {"Battle", "Paired"}
      BY <2>4 DEF PairOf
    <2> QED BY <2>2, <2>3, <2>5 DEF FitsZone, TokenZones
  <1> QED BY <1>1, BoardIsGood, PTL

\* No kept view that would be used again is stale, in any game: every change of what a
\* view reads drops it or changes the key.  (touch, record and view_key, in every handler.)
THEOREM ViewsAreFresh == Spec => []ViewIsFresh
  <1>1. BInv => ViewIsFresh
    BY DEF BInv, Good, Inv, Fresh, ViewIsFresh
  <1> QED BY <1>1, BoardIsGood, PTL

\* In every game public cards are known to both players and hands to their owner.
\* (knowledge_on_enter, new_card, shuffle_deck, h_to_deck, return_looked_bottom.)
THEOREM SightIsKnown == Spec => []KnowledgeFollowsSight
  <1>1. BInv => KnowledgeFollowsSight
    BY DEF BInv, Good, Inv, Whole, Fit, FitsZone, KnowledgeFollowsSight
  <1> QED BY <1>1, BoardIsGood, PTL


-----------------------------------------------------------------------------
(* What an observer cannot tell apart.                                     *)

\* The fields of a state.
Shaped(s) ==
  s = [def |-> s.def, zone |-> s.zone, rested |-> s.rested, damage |-> s.damage, pair |-> s.pair,
       known |-> s.known, list |-> s.list, history |-> s.history, battle |-> s.battle,
       lasting |-> s.lasting, turn |-> s.turn, phase |-> s.phase, cache |-> s.cache, task |-> s.task]

\* The history with the identities of defs.
Renamed(h, defs) == [i \in DOMAIN h |-> [uid |-> h[i].uid, def |-> defs[h[i].uid]]]

\* A state with other identities, the history naming them, and no view kept.
Other(s, defs) == [s EXCEPT !.def = defs, !.history = Renamed(s.history, defs), !.cache = {}]

\* The identities s has, but those of f's cards.
Changed(s, f) == [u \in Uids |-> IF u \in DOMAIN f THEN f[u] ELSE s.def[u]]

\* The worlds are states with other identities.
LEMMA WorldIs ==
  ASSUME NEW s, Shaped(s), NEW f, NEW g
  PROVE  /\ touch(own_history(Drawn(s, f))) = Other(s, Changed(s, f))
         /\ World(s, f, g) = Other(s, [u \in Uids |-> IF u \in DOMAIN g THEN g[u] ELSE Changed(s, f)[u]])
  <1> DEFINE a == Changed(s, f)
             b == [u \in Uids |-> IF u \in DOMAIN g THEN g[u] ELSE a[u]]
  <1>1. ASSUME NEW x PROVE touch(own_history([s EXCEPT !.def = x])) = Other(s, x)
    BY DEF touch, own_history, Other, Renamed, Shaped
  <1>2. Drawn(s, f) = [s EXCEPT !.def = a]
    BY DEF Drawn, Changed
  <1>3. Drawn(Drawn(s, f), g) = [s EXCEPT !.def = b]
    <2> DEFINE x == [s EXCEPT !.def = a]
    <2>1. x.def = a
      BY DEF Shaped
    <2>2. Drawn(x, g) = [x EXCEPT !.def = [u \in Uids |-> IF u \in DOMAIN g THEN g[u] ELSE x.def[u]]]
      BY DEF Drawn
    <2>3. Drawn(x, g) = [x EXCEPT !.def = b]
      BY <2>1, <2>2
    <2> HIDE DEF a, b
    <2>4. [x EXCEPT !.def = b] = [s EXCEPT !.def = b]
      BY DEF Shaped
    <2> QED BY <1>2, <2>3, <2>4 DEF a
  <1> HIDE DEF a, b
  <1>4. touch(own_history(Drawn(s, f))) = Other(s, a)
    BY <1>1, <1>2
  <1>5. World(s, f, g) = Other(s, b)
    BY <1>1, <1>3 DEF World
  <1> QED BY <1>4, <1>5 DEF a, b

\* What stays of a state when its cards are other cards.
LEMMA OtherIs ==
  ASSUME NEW s, Shaped(s), NEW defs
  PROVE  LET t == Other(s, defs) IN
         /\ Shaped(t) /\ t.def = defs /\ t.zone = s.zone /\ t.known = s.known
         /\ t.history = Renamed(s.history, defs)
         /\ \A e : Other(t, e) = Other(s, e)
  <1> DEFINE t == Other(s, defs)
             h == Renamed(s.history, defs)
  <1>1. t = [s EXCEPT !.def = defs, !.history = h, !.cache = {}]
    BY DEF Other
  <1> HIDE DEF h, t
  <1>2. Shaped(t) /\ t.def = defs /\ t.zone = s.zone /\ t.known = s.known /\ t.history = h
    BY <1>1 DEF Shaped
  <1>3. ASSUME NEW e PROVE Other(t, e) = Other(s, e)
    <2>1. Renamed(h, e) = Renamed(s.history, e)
      BY DEF Renamed, h
    <2> DEFINE n == Renamed(s.history, e)
    <2> HIDE DEF n
    <2>2. [t EXCEPT !.def = e, !.history = n, !.cache = {}] = [s EXCEPT !.def = e, !.history = n, !.cache = {}]
      BY <1>1 DEF Shaped
    <2> QED BY <1>2, <2>1, <2>2 DEF Other, n
  <1> QED BY <1>2, <1>3 DEF h, t


\* Other identities of the cards an observer cannot identify change neither which they
\* are nor what they can be.
LEMMA HiddenStay ==
  ASSUME NEW s, NEW o, NEW t, t.zone = s.zone, t.known = s.known,
         \A u \in Uids \ unknown_instances(s, o) : t.def[u] = s.def[u]
  PROVE  /\ \A p : slots(t, o, p) = slots(s, o, p)
         /\ unknown_pools(t, o) = unknown_pools(s, o)
  <1>1. unknown_instances(t, o) = unknown_instances(s, o)
    BY DEF unknown_instances, is_hidden_from
  <1>2. \A p : slots(t, o, p) = slots(s, o, p)
    BY <1>1 DEF slots
  <1>3. Seen(t, o) = Seen(s, o) /\ Seen(s, o) \subseteq Uids \ unknown_instances(s, o)
    BY <1>1 DEF Seen
  <1>4. ASSUME NEW d PROVE Copies(Printed(t), Seen(t, o), d) = Copies(Printed(s), Seen(s, o), d)
    <2>1. \A u \in Seen(s, o) : Printed(t)[u] = Printed(s)[u]
      BY <1>3 DEF Printed
    <2>2. {u \in Seen(t, o) : Printed(t)[u] = d} = {u \in Seen(s, o) : Printed(s)[u] = d}
      BY <1>3, <2>1
    <2> QED BY <2>2 DEF Copies
  <1>5. unknown_pools(t, o) = unknown_pools(s, o)
    <2> DEFINE main(x) == [d \in Defs |-> Repeat(d, Left(InMain(d), Copies(Printed(x), Seen(x, o), d)))]
               res(x) == [d \in Defs |-> Repeat(d, Left(InResources(d), Left(Copies(Printed(x), Seen(x, o), d), InMain(d))))]
    <2>1. main(t) = main(s) /\ res(t) = res(s)
      BY <1>4
    <2>2. \A x : unknown_pools(x, o) = [main |-> FlattenSeq(main(x)), resources |-> FlattenSeq(res(x))]
      BY DEF unknown_pools
    <2> HIDE DEF main, res
    <2> QED BY <2>1, <2>2
  <1> QED BY <1>2, <1>5

\* The worlds of a truth with other identities on the main slots are the same worlds.
LEMMA SameWorlds ==
  ASSUME NEW s, Shaped(s), NEW o, NEW t \in permute_hidden(s, o)
  PROVE  determinize(t, o) = determinize(s, o)
  <1> DEFINE main == slots(s, o, "main")
             res == slots(s, o, "resources")
             Fs(x) == Laid(fit(unknown_pools(x, o).main, Cardinality(slots(x, o, "main"))), slots(x, o, "main"))
             Gs(x) == Laid(fit(unknown_pools(x, o).resources, Cardinality(slots(x, o, "resources"))), slots(x, o, "resources"))
  <1>1. PICK a : DOMAIN a = main /\ t = touch(own_history(Drawn(s, a)))
    BY DEF permute_hidden, Laid
  <1>2. t = Other(s, Changed(s, a))
    BY <1>1, WorldIs
  <1>3. /\ Shaped(t) /\ t.def = Changed(s, a) /\ t.zone = s.zone /\ t.known = s.known
        /\ \A e : Other(t, e) = Other(s, e)
    BY <1>2, OtherIs
  <1>4. main \subseteq unknown_instances(s, o) /\ unknown_instances(s, o) \subseteq Uids
    BY DEF slots, unknown_instances
  <1>5. \A u \in Uids \ main : t.def[u] = s.def[u]
    BY <1>1, <1>3 DEF Changed
  <1>6. /\ \A p : slots(t, o, p) = slots(s, o, p)
        /\ unknown_pools(t, o) = unknown_pools(s, o)
    BY <1>3, <1>4, <1>5, HiddenStay
  <1>7. Fs(t) = Fs(s) /\ Gs(t) = Gs(s)
    BY <1>6
  <1>8. ASSUME NEW f \in Fs(s), NEW g \in Gs(s)
        PROVE  World(t, f, g) = World(s, f, g)
    <2>1. DOMAIN f = main /\ DOMAIN g = res
      BY DEF Laid
    <2> HIDE DEF main, res
    <2>2. Changed(t, f) = Changed(s, f)
      BY <1>5, <2>1 DEF Changed
    <2> DEFINE e == [u \in Uids |-> IF u \in DOMAIN g THEN g[u] ELSE Changed(s, f)[u]]
    <2>3. World(s, f, g) = Other(s, e)
      BY WorldIs
    <2>4. World(t, f, g) = Other(t, e)
      <3>1. World(t, f, g) = Other(t, [u \in Uids |-> IF u \in DOMAIN g THEN g[u] ELSE Changed(t, f)[u]])
        BY <1>3, WorldIs
      <3> QED BY <2>2, <3>1
    <2> QED BY <1>3, <2>3, <2>4
  <1>9. \A x : determinize(x, o) = {World(x, f, g) : f \in Fs(x), g \in Gs(x)}
    BY DEF determinize
  <1> DEFINE F == Fs(s)
             G == Gs(s)
             W(x) == {World(x, f, g) : f \in F, g \in G}
  <1>10. determinize(t, o) = W(t) /\ determinize(s, o) = W(s)
    BY <1>7, <1>9
  <1>11. \A f \in F, g \in G : World(t, f, g) = World(s, f, g)
    BY <1>8
  <1> HIDE DEF F, G
  <1>12. W(t) = W(s)
    BY <1>11
  <1> HIDE DEF W
  <1> QED BY <1>10, <1>12

\* In every game the worlds an observer samples say nothing of what is hidden from it: from
\* any truth it cannot tell apart it gets the same worlds, history and view included.
\* (determinize_in_place.)
THEOREM TruthStaysHidden == Spec => []TruthDoesNotShow
  <1>1. BInv => TruthDoesNotShow
    <2> SUFFICES ASSUME BInv PROVE TruthDoesNotShow
      OBVIOUS
    <2>1. Shaped(st)
      BY DEF BInv, Good, Inv, Whole, Typed, States, Shaped
    <2> QED BY <2>1, SameWorlds DEF TruthDoesNotShow
  <1> QED BY <1>1, BoardIsGood, PTL

-----------------------------------------------------------------------------
(* What the hidden cards can be.                                           *)

\* How often a sequence has d.
Count(l, d) == Cardinality({i \in DOMAIN l : l[i] = d})

\* A sequence has each of its elements some number of times.
LEMMA CountIs ==
  ASSUME NEW S, NEW l \in Seq(S), NEW d
  PROVE  Count(l, d) \in Nat /\ (Count(l, d) # 0 <=> d \in ToSet(l))
  <1> DEFINE I == {i \in DOMAIN l : l[i] = d}
  <1>1. DOMAIN l = 1 .. Len(l) /\ IsFiniteSet(1 .. Len(l))
    BY FS_Interval
  <1>2. IsFiniteSet(I)
    <2>1. I \subseteq 1 .. Len(l)
      BY <1>1
    <2> HIDE DEF I
    <2> QED BY <1>1, <2>1, FS_Subset
  <1>3. I # {} <=> d \in ToSet(l)
    BY <1>1, Elements
  <1> HIDE DEF I
  <1>4. Cardinality(I) \in Nat /\ (Cardinality(I) = 0 <=> I = {})
    BY <1>2, FS_CardinalityType, FS_EmptySet
  <1> QED BY <1>3, <1>4 DEF Count, I

\* One sequence after another has what both have.
LEMMA CountJoin ==
  ASSUME NEW S, NEW a \in Seq(S), NEW b \in Seq(S), NEW d
  PROVE  a \o b \in Seq(S) /\ Count(a \o b, d) = Count(a, d) + Count(b, d)
  <1> DEFINE A == {i \in 1 .. Len(a) : a[i] = d}
             B == {i \in 1 .. Len(b) : b[i] = d}
             C == {i \in 1 .. Len(a) + Len(b) : (a \o b)[i] = d}
             E == {i \in Len(a) + 1 .. Len(a) + Len(b) : b[i - Len(a)] = d}
             f == [i \in B |-> Len(a) + i]
  <1>1. /\ Len(a) \in Nat /\ Len(b) \in Nat /\ a \o b \in Seq(S) /\ Len(a \o b) = Len(a) + Len(b)
        /\ \A i \in 1 .. Len(a) + Len(b) : (a \o b)[i] = IF i <= Len(a) THEN a[i] ELSE b[i - Len(a)]
        /\ DOMAIN a = 1 .. Len(a) /\ DOMAIN b = 1 .. Len(b) /\ DOMAIN (a \o b) = 1 .. Len(a) + Len(b)
    OBVIOUS
  <1>2. C = A \cup E /\ A \cap E = {}
    BY <1>1
  <1>3. IsFiniteSet(A) /\ IsFiniteSet(B)
    <2>1. IsFiniteSet(1 .. Len(a)) /\ IsFiniteSet(1 .. Len(b))
      BY <1>1, FS_Interval
    <2>2. A \subseteq 1 .. Len(a) /\ B \subseteq 1 .. Len(b)
      OBVIOUS
    <2> HIDE DEF A, B
    <2>3. IsFiniteSet(A)
      BY <2>1, <2>2, FS_Subset
    <2>4. IsFiniteSet(B)
      BY <2>1, <2>2, FS_Subset
    <2> QED BY <2>3, <2>4
  <1>4. f \in Bijection(B, E)
    <2>1. f \in [B -> E]
      BY <1>1
    <2>2. \A i, j \in B : f[i] = f[j] => i = j
      BY <1>1
    <2>3. ASSUME NEW e \in E PROVE \E i \in B : f[i] = e
      <3>1. e - Len(a) \in B /\ Len(a) + (e - Len(a)) = e
        BY <1>1
      <3> QED BY <3>1
    <2> HIDE DEF f, B, E
    <2> QED BY <2>1, <2>2, <2>3 DEF Bijection, Injection, Surjection, IsInjective
  <1> HIDE DEF A, B, C, E, f
  <1>5. IsFiniteSet(E) /\ Cardinality(E) = Cardinality(B)
    BY <1>3, <1>4, FS_Bijection DEF ExistsBijection
  <1>6. Cardinality(A \cup E) = Cardinality(A) + Cardinality(E) - 0
    BY <1>2, <1>3, <1>5, FS_Union, FS_EmptySet
  <1>7. Cardinality(A) \in Nat /\ Cardinality(B) \in Nat
    BY <1>3, FS_CardinalityType
  <1>8. Cardinality(C) = Cardinality(A) + Cardinality(B)
    BY <1>2, <1>5, <1>6, <1>7
  <1>9. Count(a, d) = Cardinality(A) /\ Count(b, d) = Cardinality(B) /\ Count(a \o b, d) = Cardinality(C)
    <2>1. {i \in DOMAIN a : a[i] = d} = A /\ {i \in DOMAIN b : b[i] = d} = B
          /\ {i \in DOMAIN (a \o b) : (a \o b)[i] = d} = C
      BY <1>1 DEF A, B, C
    <2> QED BY <2>1 DEF Count
  <1> QED BY <1>1, <1>8, <1>9

\* n times one card.
LEMMA CountRepeat ==
  ASSUME NEW S, NEW c \in S, NEW n \in Nat, NEW d
  PROVE  Repeat(c, n) \in Seq(S) /\ Count(Repeat(c, n), d) = IF c = d THEN n ELSE 0
  <1>1. Repeat(c, n) \in Seq(S) /\ DOMAIN Repeat(c, n) = 1 .. n /\ \A i \in 1 .. n : Repeat(c, n)[i] = c
    BY DEF Repeat
  <1> DEFINE I == {i \in DOMAIN Repeat(c, n) : Repeat(c, n)[i] = d}
  <1>2. CASE c = d
    <2>1. I = 1 .. n
      BY <1>1, <1>2
    <2>2. Cardinality(1 .. n) = n
      BY FS_Interval
    <2>3. Count(Repeat(c, n), d) = Cardinality(I)
      BY DEF Count
    <2> HIDE DEF I
    <2> QED BY <1>1, <1>2, <2>1, <2>2, <2>3
  <1>3. CASE c # d
    <2>1. I = {}
      BY <1>1, <1>3
    <2>3. Count(Repeat(c, n), d) = Cardinality(I)
      BY DEF Count
    <2> HIDE DEF I
    <2> QED BY <1>1, <1>3, <2>1, <2>3, FS_EmptySet
  <1> QED BY <1>2, <1>3

\* A pool has as many copies of every card as it was made with.
LEMMA PoolCounts ==
  ASSUME NEW n \in [Defs -> Nat]
  PROVE  LET F == FlattenSeq([d \in Defs |-> Repeat(d, n[d])]) IN
         F \in Seq(Defs) /\ \A d \in Defs : Count(F, d) = n[d]
  <1> DEFINE q == [d \in Defs |-> Repeat(d, n[d])]
             It(f) == [i \in 1 .. 6 |-> IF i = 1 THEN q[i] ELSE f[i - 1] \o q[i]]
             g == CHOOSE f : f = It(f)
             a2 == q[1] \o q[2]
             a3 == a2 \o q[3]
             a4 == a3 \o q[4]
             a5 == a4 \o q[5]
             a6 == a5 \o q[6]
  <1>1. Defs = 1 .. 6
    BY DEF Defs
  <1>2. ASSUME NEW c \in 1 .. 6
        PROVE  q[c] \in Seq(Defs) /\ \A d : Count(q[c], d) = IF c = d THEN n[c] ELSE 0
    <2>1. q[c] = Repeat(c, n[c]) /\ c \in Defs /\ n[c] \in Nat
      BY <1>1
    <2> HIDE DEF q
    <2> QED BY <2>1, CountRepeat
  <1>3. Len(q) = 6
    BY <1>1
  <1>4. FlattenSeq(q) = g[6]
    <2> HIDE DEF q
    <2> QED BY <1>3 DEF FlattenSeq
  <1> HIDE DEF q
  <1>5. \E f : f = It(f)
    <2> DEFINE h == [i \in 1 .. 6 |-> IF i = 1 THEN q[1] ELSE IF i = 2 THEN a2 ELSE IF i = 3 THEN a3
                                      ELSE IF i = 4 THEN a4 ELSE IF i = 5 THEN a5 ELSE a6]
    <2> HIDE DEF a2, a3, a4, a5, a6
    <2>0. /\ h[1] = q[1] /\ h[2] = a2 /\ h[3] = a3 /\ h[4] = a4 /\ h[5] = a5 /\ h[6] = a6
          /\ h = [i \in 1 .. 6 |-> h[i]]
      OBVIOUS
    <2> HIDE DEF h
    <2>1. ASSUME NEW i \in 1 .. 6 PROVE h[i] = It(h)[i]
      <3>1. i = 1 \/ i = 2 \/ i = 3 \/ i = 4 \/ i = 5 \/ i = 6
        OBVIOUS
      <3>2. It(h)[i] = IF i = 1 THEN q[i] ELSE h[i - 1] \o q[i]
        OBVIOUS
      <3>3. 2 - 1 = 1 /\ 3 - 1 = 2 /\ 4 - 1 = 3 /\ 5 - 1 = 4 /\ 6 - 1 = 5
        OBVIOUS
      <3> HIDE DEF It
      <3>4. CASE i = 1
        BY <2>0, <3>2, <3>4
      <3>5. CASE i = 2
        BY <2>0, <3>2, <3>3, <3>5 DEF a2
      <3>6. CASE i = 3
        BY <2>0, <3>2, <3>3, <3>6 DEF a3
      <3>7. CASE i = 4
        BY <2>0, <3>2, <3>3, <3>7 DEF a4
      <3>8. CASE i = 5
        BY <2>0, <3>2, <3>3, <3>8 DEF a5
      <3>9. CASE i = 6
        BY <2>0, <3>2, <3>3, <3>9 DEF a6
      <3> QED BY <3>1, <3>4, <3>5, <3>6, <3>7, <3>8, <3>9
    <2>2. It(h) = [i \in 1 .. 6 |-> It(h)[i]]
      OBVIOUS
    <2> HIDE DEF It
    <2>3. h = It(h)
      BY <2>0, <2>1, <2>2
    <2> QED BY <2>3
  <1>6. g = It(g)
    <2> HIDE DEF It
    <2> QED BY <1>5
  <1> HIDE DEF g
  <1>7. g[1] = q[1] /\ g[2] = g[1] \o q[2] /\ g[3] = g[2] \o q[3] /\ g[4] = g[3] \o q[4]
        /\ g[5] = g[4] \o q[5] /\ g[6] = g[5] \o q[6]
    <2>1. \A i \in 1 .. 6 : It(g)[i] = IF i = 1 THEN q[i] ELSE g[i - 1] \o q[i]
      OBVIOUS
    <2> HIDE DEF It
    <2>2. \A i \in 1 .. 6 : g[i] = IF i = 1 THEN q[i] ELSE g[i - 1] \o q[i]
      BY <1>6, <2>1
    <2>3. g[1] = q[1]
      <3>1. 1 \in 1 .. 6
        OBVIOUS
      <3> QED BY <2>2, <3>1
    <2>4. g[2] = g[1] \o q[2]
      <3>1. 2 \in 1 .. 6 /\ 2 - 1 = 1 /\ 2 # 1
        OBVIOUS
      <3> QED BY <2>2, <3>1
    <2>5. g[3] = g[2] \o q[3]
      <3>1. 3 \in 1 .. 6 /\ 3 - 1 = 2 /\ 3 # 1
        OBVIOUS
      <3> QED BY <2>2, <3>1
    <2>6. g[4] = g[3] \o q[4]
      <3>1. 4 \in 1 .. 6 /\ 4 - 1 = 3 /\ 4 # 1
        OBVIOUS
      <3> QED BY <2>2, <3>1
    <2>7. g[5] = g[4] \o q[5]
      <3>1. 5 \in 1 .. 6 /\ 5 - 1 = 4 /\ 5 # 1
        OBVIOUS
      <3> QED BY <2>2, <3>1
    <2>8. g[6] = g[5] \o q[6]
      <3>1. 6 \in 1 .. 6 /\ 6 - 1 = 5 /\ 6 # 1
        OBVIOUS
      <3> QED BY <2>2, <3>1
    <2> QED BY <2>3, <2>4, <2>5, <2>6, <2>7, <2>8
  <1> HIDE DEF It
  <1>8. ASSUME NEW d
        PROVE  /\ g[6] \in Seq(Defs)
               /\ Count(g[6], d) = Count(q[1], d) + Count(q[2], d) + Count(q[3], d) + Count(q[4], d)
                                     + Count(q[5], d) + Count(q[6], d)
    <2>0. q[1] \in Seq(Defs) /\ q[2] \in Seq(Defs) /\ q[3] \in Seq(Defs) /\ q[4] \in Seq(Defs)
          /\ q[5] \in Seq(Defs) /\ q[6] \in Seq(Defs)
      BY <1>2
    <2>6. Count(q[1], d) \in Nat /\ Count(q[2], d) \in Nat /\ Count(q[3], d) \in Nat
          /\ Count(q[4], d) \in Nat /\ Count(q[5], d) \in Nat /\ Count(q[6], d) \in Nat
      BY <2>0, CountIs
    <2>1. g[1] \in Seq(Defs) /\ g[2] \in Seq(Defs) /\ Count(g[2], d) = Count(q[1], d) + Count(q[2], d)
      BY <2>0, <1>7, CountJoin
    <2>2. g[3] \in Seq(Defs) /\ Count(g[3], d) = Count(g[2], d) + Count(q[3], d)
      <3>1. g[2] \o q[3] \in Seq(Defs) /\ Count(g[2] \o q[3], d) = Count(g[2], d) + Count(q[3], d)
        BY <2>0, <2>1, CountJoin
      <3> QED BY <1>7, <3>1
    <2>3. g[4] \in Seq(Defs) /\ Count(g[4], d) = Count(g[3], d) + Count(q[4], d)
      <3>1. g[3] \o q[4] \in Seq(Defs) /\ Count(g[3] \o q[4], d) = Count(g[3], d) + Count(q[4], d)
        BY <2>0, <2>2, CountJoin
      <3> QED BY <1>7, <3>1
    <2>4. g[5] \in Seq(Defs) /\ Count(g[5], d) = Count(g[4], d) + Count(q[5], d)
      <3>1. g[4] \o q[5] \in Seq(Defs) /\ Count(g[4] \o q[5], d) = Count(g[4], d) + Count(q[5], d)
        BY <2>0, <2>3, CountJoin
      <3> QED BY <1>7, <3>1
    <2>5. g[6] \in Seq(Defs) /\ Count(g[6], d) = Count(g[5], d) + Count(q[6], d)
      <3>1. g[5] \o q[6] \in Seq(Defs) /\ Count(g[5] \o q[6], d) = Count(g[5], d) + Count(q[6], d)
        BY <2>0, <2>4, CountJoin
      <3> QED BY <1>7, <3>1
    <2> QED BY <2>1, <2>2, <2>3, <2>4, <2>5, <2>6
  <1>9. ASSUME NEW d \in Defs PROVE Count(g[6], d) = n[d]
    <2>1. d \in 1 .. 6 /\ n[d] \in Nat
      BY <1>1
    <2>2. d = 1 \/ d = 2 \/ d = 3 \/ d = 4 \/ d = 5 \/ d = 6
      BY <2>1
    <2>3. \A c \in 1 .. 6 : Count(q[c], d) = IF c = d THEN n[d] ELSE 0
      BY <1>2
    <2> QED BY <1>8, <2>1, <2>2, <2>3
  <1>10. FlattenSeq(q) \in Seq(Defs) /\ \A d \in Defs : Count(FlattenSeq(q), d) = n[d]
    BY <1>4, <1>8, <1>9
  <1> QED BY <1>10 DEF q

\* What is left of a decklist is what the observer has not seen of it.
LEMMA LeftIs ==
  ASSUME NEW n \in Nat, NEW k \in Nat, k <= n
  PROVE  Left(n, k) = n - k /\ Left(0, n) = 0
  BY DEF Left

\* The cards of a finite set without some of them.
LEMMA Others ==
  ASSUME NEW K, IsFiniteSet(K), NEW S \in SUBSET K
  PROVE  /\ Cardinality(K) \in Nat /\ Cardinality(S) \in Nat /\ Cardinality(S) <= Cardinality(K)
         /\ Cardinality(K \ S) = Cardinality(K) - Cardinality(S)
  <1>1. K \cap S = S
    OBVIOUS
  <1>2. Cardinality(K \ S) = Cardinality(K) - Cardinality(K \cap S)
    BY FS_Difference
  <1>3. IsFiniteSet(S) /\ Cardinality(S) <= Cardinality(K)
    BY FS_Subset
  <1> QED BY <1>1, <1>2, <1>3, FS_CardinalityType

\* The cards there are with printed face d, and which of them an observer cannot identify.
Having(s, d)    == {u \in Uids : s.zone[u] # "none" /\ Printed(s)[u] = d}
Hides(s, o, p, d) == {u \in slots(s, o, p) : Printed(s)[u] = d}
Sees(s, o, d)   == {u \in Seen(s, o) : Printed(s)[u] = d}

\* Every card with printed face d is seen, or hidden in a slot of the pool of its deck.
LEMMA SeenOrHidden ==
  ASSUME NEW s, Inv(s), table \in Tables, NEW o, NEW d \in Defs
  PROVE  /\ Sees(s, o, d) \subseteq Having(s, d) /\ IsFiniteSet(Having(s, d))
         /\ Hides(s, o, "main", d) = IF d \in {Unit, Pilot} THEN Having(s, d) \ Sees(s, o, d) ELSE {}
         /\ Hides(s, o, "resources", d) = IF d = Resource THEN Having(s, d) \ Sees(s, o, d) ELSE {}
         /\ d \in {Unit, Pilot} => Having(s, d) = {i \in Main(table) : table.main[i] = d}
         /\ d = Resource => Having(s, d) = Resources(table)
  <1> DEFINE H == unknown_instances(s, o)
  <1>1. /\ IsFiniteSet(Uids) /\ Main(table) \subseteq Uids /\ Resources(table) \subseteq Uids
    BY UidsAre
  <1>2. Main(table) \cap Resources(table) = {}
    <2>1. Len(table.main) \in Nat /\ table.resources \in Nat
      BY BoardAssumption
    <2> QED BY <2>1 DEF Main, Resources
  <1>3. \A u \in Uids : s.def[u] \in Defs /\ Printed(s)[u] = base_def_id(s.def[u])
    BY Fields DEF Inv, Whole, Printed
  <1>4. ASSUME NEW u \in Uids
        PROVE  /\ s.zone[u] # "none" => \/ u \in Main(table) /\ Printed(s)[u] = table.main[u] /\ Printed(s)[u] \in {Unit, Pilot}
                                        \/ u \in Resources(table) /\ Printed(s)[u] = Resource
                                        \/ u \notin Main(table) \cup Resources(table) /\ Printed(s)[u] \in Tokens
               /\ u \in Main(table) \cup Resources(table) => s.zone[u] # "none"
               /\ u \in H => \/ Printed(s)[u] \in {Unit, Pilot} /\ s.zone[u] # "ResourceDeck"
                             \/ Printed(s)[u] = Resource /\ s.zone[u] = "ResourceDeck"
               /\ u \in H => s.zone[u] # "none"
    <2>1. FitsZone(s.def[u], s.zone[u], s.damage[u], s.known[u]) /\ IsDealt(table, u, s.def[u], s.zone[u])
      BY DEF Inv, Whole, Fit
    <2>2. s.def[u] \in Defs /\ Printed(s)[u] = base_def_id(s.def[u])
      BY <1>3
    <2>3. u \in Main(table) => table.main[u] \in {Unit, Pilot}
      <3>1. table.main \in Seq({Unit, Pilot})
        BY BoardAssumption
      <3> QED BY <3>1 DEF Main
    <2>4. s.zone[u] # "none" => \/ u \in Main(table) /\ Printed(s)[u] = table.main[u] /\ Printed(s)[u] \in {Unit, Pilot}
                                \/ u \in Resources(table) /\ Printed(s)[u] = Resource
                                \/ u \notin Main(table) \cup Resources(table) /\ Printed(s)[u] \in Tokens
      BY <1>2, <2>1, <2>2, <2>3 DEF IsDealt, base_def_id, Variant, Pilot, Unit, Resource, Tokens, UnitToken, ExResource
    <2>5. u \in Main(table) \cup Resources(table) => s.zone[u] # "none"
      BY <2>1 DEF IsDealt
    <2>6. u \in H => s.zone[u] \in HiddenZones
      BY DEF unknown_instances, is_hidden_from
    <2>7. u \in H => \/ s.def[u] \in {Unit, Pilot, Variant} /\ s.zone[u] # "ResourceDeck"
                     \/ s.def[u] = Resource /\ s.zone[u] = "ResourceDeck"
      BY <2>1, <2>2, <2>6 DEF FitsZone, HiddenZones, Defs, Tokens, Unit, Pilot, Variant, Resource, UnitToken, ExResource
    <2>8. u \in H => \/ Printed(s)[u] \in {Unit, Pilot} /\ s.zone[u] # "ResourceDeck"
                     \/ Printed(s)[u] = Resource /\ s.zone[u] = "ResourceDeck"
      BY <2>2, <2>7 DEF base_def_id, Unit, Pilot, Variant, Resource
    <2> QED BY <2>4, <2>5, <2>6, <2>8 DEF HiddenZones
  <1>5. H \subseteq Uids
    BY DEF unknown_instances
  <1>6. /\ \A u : u \in slots(s, o, "main") <=> u \in H /\ s.zone[u] # "ResourceDeck"
        /\ \A u : u \in slots(s, o, "resources") <=> u \in H /\ s.zone[u] = "ResourceDeck"
    BY DEF slots
  <1>7. \A u : u \in Sees(s, o, d) <=> u \in Uids /\ s.zone[u] # "none" /\ u \notin H /\ Printed(s)[u] = d
    BY DEF Sees, Seen
  <1>8. \A u : u \in Having(s, d) <=> u \in Uids /\ s.zone[u] # "none" /\ Printed(s)[u] = d
    BY DEF Having
  <1>9. \A u, p : u \in Hides(s, o, p, d) <=> u \in slots(s, o, p) /\ Printed(s)[u] = d
    BY DEF Hides
  <1>10. Sees(s, o, d) \subseteq Having(s, d)
    BY <1>7, <1>8
  <1>11. IsFiniteSet(Having(s, d))
    <2>1. Having(s, d) \subseteq Uids
      BY <1>8
    <2> QED BY <1>1, <2>1, FS_Subset
  <1> HIDE DEF H
  <1>12. Hides(s, o, "main", d) = IF d \in {Unit, Pilot} THEN Having(s, d) \ Sees(s, o, d) ELSE {}
    <2>1. ASSUME NEW u, d \in {Unit, Pilot}
          PROVE  u \in Hides(s, o, "main", d) <=> u \in Having(s, d) \ Sees(s, o, d)
      BY <1>4, <1>5, <1>6, <1>7, <1>8, <1>9, <2>1 DEF Unit, Pilot, Resource
    <2>2. ASSUME NEW u, d \notin {Unit, Pilot}
          PROVE  u \notin Hides(s, o, "main", d)
      BY <1>4, <1>5, <1>6, <1>9, <2>2
    <2> QED BY <2>1, <2>2
  <1>13. Hides(s, o, "resources", d) = IF d = Resource THEN Having(s, d) \ Sees(s, o, d) ELSE {}
    <2>1. ASSUME NEW u, d = Resource
          PROVE  u \in Hides(s, o, "resources", d) <=> u \in Having(s, d) \ Sees(s, o, d)
      BY <1>4, <1>5, <1>6, <1>7, <1>8, <1>9, <2>1 DEF Unit, Pilot, Resource
    <2>2. ASSUME NEW u, d # Resource
          PROVE  u \notin Hides(s, o, "resources", d)
      BY <1>4, <1>5, <1>6, <1>9, <2>2
    <2> QED BY <2>1, <2>2
  <1>14. ASSUME d \in {Unit, Pilot} PROVE Having(s, d) = {i \in Main(table) : table.main[i] = d}
    <2>1. \A u : u \in Having(s, d) <=> u \in Main(table) /\ table.main[u] = d
      BY <1>1, <1>2, <1>4, <1>8, <1>14 DEF Unit, Pilot, Resource, Tokens, UnitToken, ExResource
    <2> QED BY <2>1
  <1>15. ASSUME d = Resource PROVE Having(s, d) = Resources(table)
    <2>1. \A u : u \in Having(s, d) <=> u \in Resources(table)
      BY <1>1, <1>2, <1>4, <1>8, <1>15 DEF Unit, Pilot, Resource, Tokens, UnitToken, ExResource
    <2> QED BY <2>1
  <1> QED BY <1>10, <1>11, <1>12, <1>13, <1>14, <1>15

\* The pools are the hidden cards.
LEMMA PoolsAre ==
  ASSUME NEW s, Inv(s), table \in Tables, NEW o, NEW p \in {"main", "resources"}
  PROVE  /\ unknown_pools(s, o)[p] \in Seq(Defs)
         /\ \A d \in Defs : Count(unknown_pools(s, o)[p], d) = Cardinality(Hides(s, o, p, d))
  <1> DEFINE seen(d) == Copies(Printed(s), Seen(s, o), d)
             main == [d \in Defs |-> Left(InMain(d), seen(d))]
             res  == [d \in Defs |-> Left(InResources(d), Left(seen(d), InMain(d)))]
             F(n) == FlattenSeq([d \in Defs |-> Repeat(d, n[d])])
  <1>1. Len(table.main) \in Nat /\ table.resources \in Nat /\ table.main \in Seq({Unit, Pilot})
    BY BoardAssumption
  <1>2. unknown_pools(s, o) = [main |-> F(main), resources |-> F(res)]
    <2>1. [d \in Defs |-> Repeat(d, Left(InMain(d), seen(d)))] = [d \in Defs |-> Repeat(d, main[d])]
      OBVIOUS
    <2>2. [d \in Defs |-> Repeat(d, Left(InResources(d), Left(seen(d), InMain(d))))] = [d \in Defs |-> Repeat(d, res[d])]
      OBVIOUS
    <2>3. unknown_pools(s, o)
            = [main |-> FlattenSeq([d \in Defs |-> Repeat(d, Left(InMain(d), seen(d)))]),
               resources |-> FlattenSeq([d \in Defs |-> Repeat(d, Left(InResources(d), Left(seen(d), InMain(d))))])]
      BY DEF unknown_pools
    <2> HIDE DEF main, res, seen
    <2> QED BY <2>1, <2>2, <2>3
  <1>3. ASSUME NEW d \in Defs
        PROVE  /\ main[d] \in Nat /\ main[d] = Cardinality(Hides(s, o, "main", d))
               /\ res[d] \in Nat /\ res[d] = Cardinality(Hides(s, o, "resources", d))
    <2> DEFINE K == Having(s, d)
               S == Sees(s, o, d)
    <2>1. seen(d) = Cardinality(S)
      BY DEF Copies, Sees
    <2>2. main[d] = Left(InMain(d), seen(d)) /\ res[d] = Left(InResources(d), Left(seen(d), InMain(d)))
      OBVIOUS
    <2> HIDE DEF main, res, seen
    <2>3. /\ S \subseteq K /\ IsFiniteSet(K)
          /\ Hides(s, o, "main", d) = IF d \in {Unit, Pilot} THEN K \ S ELSE {}
          /\ Hides(s, o, "resources", d) = IF d = Resource THEN K \ S ELSE {}
          /\ d \in {Unit, Pilot} => K = {i \in Main(table) : table.main[i] = d}
          /\ d = Resource => K = Resources(table)
      BY SeenOrHidden
    <2> HIDE DEF K, S
    <2>4. /\ Cardinality(K) \in Nat /\ Cardinality(S) \in Nat /\ Cardinality(S) <= Cardinality(K)
          /\ Cardinality(K \ S) = Cardinality(K) - Cardinality(S)
      BY <2>3, Others
    <2>5. Cardinality({}) = 0
      BY FS_EmptySet
    <2>6. CASE d \in {Unit, Pilot}
      <3>1. InMain(d) = Cardinality(K) /\ InResources(d) = 0 /\ d # Resource
        BY <2>3, <2>6 DEF InMain, InResources, Unit, Pilot, Resource
      <3>2. main[d] = Cardinality(K) - Cardinality(S) /\ Left(Cardinality(S), Cardinality(K)) = 0
        BY <2>1, <2>2, <2>4, <3>1 DEF Left
      <3>3. res[d] = 0
        BY <2>1, <2>2, <3>1, <3>2 DEF Left
      <3> QED BY <2>3, <2>4, <2>5, <2>6, <3>1, <3>2, <3>3
    <2>7. CASE d \notin {Unit, Pilot}
      <3>1. InMain(d) = 0
        <4>1. {i \in Main(table) : table.main[i] = d} = {}
          BY <1>1, <2>7 DEF Main
        <4> QED BY <2>5, <4>1 DEF InMain
      <3>2. main[d] = 0
        BY <2>1, <2>2, <2>4, <3>1 DEF Left
      <3>3. Left(seen(d), InMain(d)) = Cardinality(S)
        BY <2>1, <2>4, <3>1 DEF Left
      <3>4. CASE d = Resource
        <4>1. Cardinality(K) = table.resources
          <5>1. Resources(table) = Len(table.main) + 1 .. Len(table.main) + table.resources
            BY DEF Resources
          <5> DEFINE a == Len(table.main) + 1
                     b == Len(table.main) + table.resources
          <5>2. a \in Int /\ b \in Int /\ (a <= b => b - a + 1 = table.resources) /\ (~(a <= b) => table.resources = 0)
            BY <1>1
          <5> HIDE DEF a, b
          <5>3. Cardinality(a .. b) = IF a > b THEN 0 ELSE b - a + 1
            BY <5>2, FS_Interval
          <5> QED BY <2>3, <3>4, <5>1, <5>2, <5>3 DEF a, b
        <4>2. res[d] = Cardinality(K) - Cardinality(S)
          BY <2>2, <2>4, <3>3, <3>4, <4>1 DEF Left, InResources
        <4>3. Hides(s, o, "main", d) = {} /\ Hides(s, o, "resources", d) = K \ S
          BY <2>3, <2>7, <3>4
        <4>4. res[d] \in Nat
          BY <2>4, <4>2
        <4>5. res[d] = Cardinality(K \ S)
          BY <2>4, <4>2
        <4>6. Cardinality(Hides(s, o, "main", d)) = 0 /\ Cardinality(Hides(s, o, "resources", d)) = Cardinality(K \ S)
          BY <2>5, <4>3
        <4> QED BY <3>2, <4>4, <4>5, <4>6
      <3>5. CASE d # Resource
        <4>1. res[d] = 0
          BY <2>2, <2>4, <3>3, <3>5 DEF Left, InResources
        <4> QED BY <2>3, <2>5, <2>7, <3>2, <3>5, <4>1
      <3> QED BY <3>4, <3>5
    <2> QED BY <2>6, <2>7
  <1>4. main \in [Defs -> Nat] /\ res \in [Defs -> Nat]
    <2>1. main = [d \in Defs |-> main[d]] /\ res = [d \in Defs |-> res[d]]
      OBVIOUS
    <2> HIDE DEF main, res
    <2> QED BY <1>3, <2>1
  <1> HIDE DEF main, res
  <1>5. /\ F(main) \in Seq(Defs) /\ \A d \in Defs : Count(F(main), d) = main[d]
        /\ F(res) \in Seq(Defs) /\ \A d \in Defs : Count(F(res), d) = res[d]
    BY <1>4, PoolCounts
  <1> HIDE DEF F
  <1> QED BY <1>2, <1>3, <1>5

\* In every state of every game the pools are exactly the cards an observer cannot identify,
\* under whichever of their two printed faces they lie.  (unknown_pools.)
THEOREM PoolsHoldTheHidden == Spec => []PoolsAreExact
  <1>1. BInv => PoolsAreExact
    <2> SUFFICES ASSUME BInv, NEW o \in Players, NEW d \in Defs, NEW p \in {"main", "resources"}
                 PROVE  Copies(Printed(st), slots(st, o, p), d)
                          = Cardinality({i \in DOMAIN unknown_pools(st, o)[p] : unknown_pools(st, o)[p][i] = d})
      BY DEF PoolsAreExact
    <2>1. Inv(st) /\ table \in Tables
      BY DEF BInv, Good
    <2>2. Count(unknown_pools(st, o)[p], d) = Cardinality(Hides(st, o, p, d))
      BY <2>1, PoolsAre
    <2> QED BY <2>2 DEF Count, Copies, Hides
  <1> QED BY <1>1, BoardIsGood, PTL

\* The cards of a finite set, counted by their faces.
LEMMA CountByFace ==
  ASSUME NEW X, IsFiniteSet(X), NEW K, \A x \in X : K[x] \in Defs
  PROVE  LET N(d) == Cardinality({x \in X : K[x] = d}) IN
         Cardinality(X) = N(1) + N(2) + N(3) + N(4) + N(5) + N(6)
  <1> DEFINE Of(d) == {x \in X : K[x] = d}
             U2 == Of(1) \cup Of(2)
             U3 == U2 \cup Of(3)
             U4 == U3 \cup Of(4)
             U5 == U4 \cup Of(5)
  <1>1. /\ X = U5 \cup Of(6) /\ Of(1) \cap Of(2) = {} /\ U2 \cap Of(3) = {} /\ U3 \cap Of(4) = {}
        /\ U4 \cap Of(5) = {} /\ U5 \cap Of(6) = {}
    BY DEF Defs
  <1>2. ASSUME NEW d PROVE IsFiniteSet(Of(d)) /\ Cardinality(Of(d)) \in Nat
    <2>1. Of(d) \subseteq X
      OBVIOUS
    <2> HIDE DEF Of
    <2> QED BY <2>1, FS_Subset, FS_CardinalityType
  <1>3. ASSUME NEW a, NEW b, IsFiniteSet(a), IsFiniteSet(b), a \cap b = {}
        PROVE  IsFiniteSet(a \cup b) /\ Cardinality(a \cup b) = Cardinality(a) + Cardinality(b)
    <2>1. Cardinality(a \cup b) = Cardinality(a) + Cardinality(b) - Cardinality(a \cap b)
      BY <1>3, FS_Union
    <2>2. Cardinality(a) \in Nat /\ Cardinality(b) \in Nat /\ Cardinality(a \cap b) = 0 /\ IsFiniteSet(a \cup b)
      BY <1>3, FS_Union, FS_CardinalityType, FS_EmptySet
    <2> QED BY <2>1, <2>2
  <1> HIDE DEF Of
  <1>4. IsFiniteSet(U2) /\ Cardinality(U2) = Cardinality(Of(1)) + Cardinality(Of(2))
    BY <1>1, <1>2, <1>3
  <1> HIDE DEF U2
  <1>5. IsFiniteSet(U3) /\ Cardinality(U3) = Cardinality(U2) + Cardinality(Of(3))
    BY <1>1, <1>2, <1>3, <1>4
  <1> HIDE DEF U3
  <1>6. IsFiniteSet(U4) /\ Cardinality(U4) = Cardinality(U3) + Cardinality(Of(4))
    BY <1>1, <1>2, <1>3, <1>5
  <1> HIDE DEF U4
  <1>7. IsFiniteSet(U5) /\ Cardinality(U5) = Cardinality(U4) + Cardinality(Of(5))
    BY <1>1, <1>2, <1>3, <1>6
  <1> HIDE DEF U5
  <1>8. Cardinality(X) = Cardinality(U5) + Cardinality(Of(6))
    BY <1>1, <1>2, <1>3, <1>7
  <1>9. Cardinality(X) = Cardinality(Of(1)) + Cardinality(Of(2)) + Cardinality(Of(3)) + Cardinality(Of(4))
                         + Cardinality(Of(5)) + Cardinality(Of(6))
    BY <1>2, <1>4, <1>5, <1>6, <1>7, <1>8
  <1> QED BY <1>9 DEF Of

\* A pool with as many copies of every face as some cards have is as long as they are many.
LEMMA SameSize ==
  ASSUME NEW l \in Seq(Defs), NEW X, IsFiniteSet(X), NEW K, \A x \in X : K[x] \in Defs,
         \A d \in Defs : Count(l, d) = Cardinality({x \in X : K[x] = d})
  PROVE  Len(l) = Cardinality(X)
  <1> DEFINE N(d) == Cardinality({x \in X : K[x] = d})
             D == DOMAIN l
  <1>1. D = 1 .. Len(l) /\ Len(l) \in Nat /\ (\A i \in D : l[i] \in Defs)
    OBVIOUS
  <1>2. IsFiniteSet(D) /\ Cardinality(D) = Len(l)
    <2>1. IsFiniteSet(1 .. Len(l)) /\ Cardinality(1 .. Len(l)) = IF 1 > Len(l) THEN 0 ELSE Len(l) - 1 + 1
      BY <1>1, FS_Interval
    <2> QED BY <1>1, <2>1
  <1> HIDE DEF D
  <1>3. Cardinality(D) = Cardinality({i \in D : l[i] = 1}) + Cardinality({i \in D : l[i] = 2})
          + Cardinality({i \in D : l[i] = 3}) + Cardinality({i \in D : l[i] = 4})
          + Cardinality({i \in D : l[i] = 5}) + Cardinality({i \in D : l[i] = 6})
    BY <1>1, <1>2, CountByFace
  <1>4. Cardinality(X) = N(1) + N(2) + N(3) + N(4) + N(5) + N(6)
    BY CountByFace
  <1>5. ASSUME NEW d \in Defs PROVE Cardinality({i \in D : l[i] = d}) = N(d)
    BY DEF Count, D
  <1> HIDE DEF N
  <1>6. 1 \in Defs /\ 2 \in Defs /\ 3 \in Defs /\ 4 \in Defs /\ 5 \in Defs /\ 6 \in Defs
    BY DEF Defs
  <1>7. Cardinality(D) = N(1) + N(2) + N(3) + N(4) + N(5) + N(6)
    BY <1>3, <1>5, <1>6
  <1> QED BY <1>2, <1>4, <1>7

\* A pool without one copy of d.
LEMMA CountWithout ==
  ASSUME NEW S, NEW l \in Seq(S), NEW d \in ToSet(l)
  PROVE  /\ Contains(l, d) /\ RemoveFirst(l, d) \in Seq(S)
         /\ \A e : Count(l, e) = Count(RemoveFirst(l, d), e) + IF e = d THEN 1 ELSE 0
  <1> DEFINE I == {i \in 1 .. Len(l) : l[i] = d}
             k == Min(I)
             a == SubSeq(l, 1, k - 1)
             b == SubSeq(l, k + 1, Len(l))
             c == Repeat(d, 1)
  <1>1. I # {} /\ I \subseteq Nat /\ \E i \in 1 .. Len(l) : l[i] = d
    BY Elements
  <1>2. k \in I
    <2> HIDE DEF I
    <2>1. \E x \in I : \A y \in I : x <= y
      BY <1>1, Least
    <2> QED BY <2>1 DEF Min
  <1>3. RemoveFirst(l, d) = RemoveAt(l, k)
    BY <1>1 DEF RemoveFirst, SelectInSeq
  <1> HIDE DEF k
  <1>4. k \in 1 .. Len(l) /\ l[k] = d /\ Len(l) \in Nat
    BY <1>2
  <1>5. RemoveFirst(l, d) = a \o b
    BY <1>3 DEF RemoveAt
  <1>6. a \in Seq(S) /\ Len(a) = k - 1 /\ \A i \in 1 .. k - 1 : a[i] = l[i]
    BY <1>4
  <1>7. b \in Seq(S) /\ Len(b) = Len(l) - k /\ \A i \in 1 .. Len(l) - k : b[i] = l[i + k]
    BY <1>4
  <1>8. /\ c \in Seq(S) /\ Len(c) = 1 /\ c[1] = d
        /\ \A e : Count(c, e) = IF e = d THEN 1 ELSE 0
    <2>1. d \in S /\ 1 \in Nat
      BY Elements
    <2>2. Len(c) = 1 /\ c[1] = d
      BY DEF Repeat
    <2> HIDE DEF c
    <2> QED BY <2>1, <2>2, CountRepeat DEF c
  <1> HIDE DEF a, b, c, I
  <1>9. l = (a \o c) \o b
    <2> DEFINE ac == a \o c
    <2>1. ac \in Seq(S) /\ Len(ac) = k /\ \A i \in 1 .. k : ac[i] = l[i]
      <3>0. /\ ac \in Seq(S) /\ Len(ac) = Len(a) + Len(c)
            /\ \A i \in 1 .. Len(a) + Len(c) : ac[i] = IF i <= Len(a) THEN a[i] ELSE c[i - Len(a)]
        BY <1>6, <1>8, ConcatProperties
      <3> HIDE DEF ac
      <3>1. ac \in Seq(S) /\ Len(ac) = k
        BY <1>4, <1>6, <1>8, <3>0
      <3>2. ASSUME NEW i \in 1 .. k PROVE ac[i] = l[i]
        <4>1. CASE i = k
          <5>1. ac[i] = c[i - Len(a)] /\ i - Len(a) = 1
            BY <1>4, <1>6, <1>8, <3>0, <4>1
          <5> QED BY <1>4, <1>8, <4>1, <5>1
        <4>2. CASE i # k
          <5>1. i \in 1 .. k - 1 /\ i \in 1 .. Len(a)
            BY <1>4, <1>6, <4>2
          <5>2. ac[i] = a[i]
            BY <1>6, <1>8, <3>0, <5>1
          <5> QED BY <1>6, <5>1, <5>2
        <4> QED BY <4>1, <4>2
      <3> QED BY <3>1, <3>2
    <2> HIDE DEF ac
    <2>2. ac \o b \in Seq(S) /\ Len(ac \o b) = Len(l)
      <3>1. Len(ac \o b) = Len(ac) + Len(b) /\ ac \o b \in Seq(S)
        BY <1>7, <2>1, ConcatProperties
      <3> QED BY <1>4, <1>7, <2>1, <3>1
    <2>3. ASSUME NEW i \in 1 .. Len(l) PROVE (ac \o b)[i] = l[i]
      <3>1. CASE i <= k
        <4>1. i \in 1 .. k /\ i \in 1 .. Len(ac)
          BY <1>4, <2>1, <3>1
        <4>2. (ac \o b)[i] = ac[i]
          BY <1>7, <2>1, <4>1
        <4> QED BY <2>1, <4>1, <4>2
      <3>2. CASE ~(i <= k)
        <4>1. i - k \in 1 .. Len(l) - k /\ (i - k) + k = i
          BY <1>4, <3>2
        <4>2. (ac \o b)[i] = b[i - k]
          BY <1>4, <1>7, <2>1, <3>2
        <4> QED BY <1>7, <4>1, <4>2
      <3> QED BY <3>1, <3>2
    <2> QED BY <2>2, <2>3, SeqEqual DEF ac
  <1>10. ASSUME NEW e
         PROVE  Count(l, e) = Count(RemoveFirst(l, d), e) + IF e = d THEN 1 ELSE 0
    <2>1. a \o c \in Seq(S) /\ Count(a \o c, e) = Count(a, e) + Count(c, e)
      BY <1>6, <1>8, CountJoin
    <2>2. Count((a \o c) \o b, e) = Count(a \o c, e) + Count(b, e)
      <3> DEFINE ac == a \o c
      <3>1. ac \in Seq(S)
        BY <2>1
      <3> HIDE DEF ac
      <3>2. Count(ac \o b, e) = Count(ac, e) + Count(b, e)
        BY <1>7, <3>1, CountJoin
      <3> QED BY <3>2 DEF ac
    <2>3. Count(a \o b, e) = Count(a, e) + Count(b, e)
      BY <1>6, <1>7, CountJoin
    <2>4. Count(a, e) \in Nat /\ Count(b, e) \in Nat
      BY <1>6, <1>7, CountIs
    <2>5. Count(l, e) = (Count(a, e) + Count(c, e)) + Count(b, e)
      BY <1>9, <2>1, <2>2
    <2>6. Count(c, e) = IF e = d THEN 1 ELSE 0
      BY <1>8
    <2> QED BY <1>5, <2>3, <2>4, <2>5, <2>6
  <1>11. RemoveFirst(l, d) \in Seq(S)
    BY <1>5, <1>6, <1>7
  <1>12. Contains(l, d)
    BY <1>1 DEF Contains
  <1> QED BY <1>10, <1>11, <1>12

\* How many cards of a finite set have face d, with one card and without it.
LEMMA CopiesAre ==
  ASSUME NEW us, IsFiniteSet(us), NEW f, NEW d
  PROVE  /\ Copies(f, us, d) \in Nat /\ (Copies(f, us, d) # 0 <=> \E v \in us : f[v] = d)
         /\ \A u \in us : Copies(f, us, d) = Copies(f, us \ {u}, d) + IF f[u] = d THEN 1 ELSE 0
  <1> DEFINE A == {v \in us : f[v] = d}
             B(u) == {v \in us \ {u} : f[v] = d}
  <1>1. IsFiniteSet(A)
    <2>1. A \subseteq us
      OBVIOUS
    <2> HIDE DEF A
    <2> QED BY <2>1, FS_Subset
  <1>2. A # {} <=> \E v \in us : f[v] = d
    OBVIOUS
  <1>3. ASSUME NEW u \in us
        PROVE  (f[u] = d => u \in A /\ B(u) = A \ {u}) /\ (f[u] # d => B(u) = A)
    OBVIOUS
  <1>4. Copies(f, us, d) = Cardinality(A) /\ \A u : Copies(f, us \ {u}, d) = Cardinality(B(u))
    BY DEF Copies
  <1> HIDE DEF A, B
  <1>5. Cardinality(A) \in Nat /\ (Cardinality(A) # 0 <=> A # {})
    BY <1>1, FS_CardinalityType, FS_EmptySet
  <1>6. ASSUME NEW u \in us
        PROVE  Cardinality(A) = Cardinality(B(u)) + IF f[u] = d THEN 1 ELSE 0
    <2>1. CASE f[u] = d
      <3>1. Cardinality(A \ {u}) = Cardinality(A) - 1
        BY <1>1, <1>3, <2>1, FS_RemoveElement
      <3>2. Cardinality(B(u)) = Cardinality(A) - 1
        BY <1>3, <2>1, <3>1
      <3> QED BY <1>5, <2>1, <3>2
    <2>2. CASE f[u] # d
      <3>1. Cardinality(B(u)) = Cardinality(A)
        BY <1>3, <2>2
      <3> QED BY <1>5, <2>2, <3>1
    <2> QED BY <2>1, <2>2
  <1> QED BY <1>2, <1>4, <1>5, <1>6

\* What it is to lay a pool on cards.
LEMMA LaidIs ==
  ASSUME NEW pool, NEW us, NEW f
  PROVE  f \in Laid(pool, us) <=> /\ f \in [us -> ToSet(pool)]
                                  /\ \A e \in ToSet(pool) : Copies(f, us, e) = Count(pool, e)
  BY DEF Laid, Count

\* To lay a pool so that card u is d is to lay the pool without one d on the other cards.
LEMMA LaidKept ==
  ASSUME NEW us, IsFiniteSet(us), NEW u \in us, NEW pool \in Seq(Defs), NEW d \in ToSet(pool)
  PROVE  LET less == RemoveFirst(pool, d) IN
         /\ \A g \in Laid(less, us \ {u}) : [v \in us |-> IF v = u THEN d ELSE g[v]] \in Laid(pool, us)
         /\ \A f \in Laid(pool, us) : f[u] = d => [v \in us \ {u} |-> f[v]] \in Laid(less, us \ {u})
  <1> DEFINE less == RemoveFirst(pool, d)
             ot == us \ {u}
  <1>1. /\ less \in Seq(Defs) /\ IsFiniteSet(ot) /\ u \notin ot
        /\ \A e : Count(pool, e) = Count(less, e) + IF e = d THEN 1 ELSE 0
    BY CountWithout, FS_Difference
  <1>2. \A e : /\ Count(pool, e) \in Nat /\ (Count(pool, e) # 0 <=> e \in ToSet(pool))
               /\ Count(less, e) \in Nat /\ (Count(less, e) # 0 <=> e \in ToSet(less))
    BY <1>1, CountIs
  <1> HIDE DEF less
  <1>3. ToSet(less) \subseteq ToSet(pool)
    BY <1>1, <1>2
  <1>4. ASSUME NEW g \in Laid(less, ot)
        PROVE  [v \in us |-> IF v = u THEN d ELSE g[v]] \in Laid(pool, us)
    <2> DEFINE f == [v \in us |-> IF v = u THEN d ELSE g[v]]
    <2>1. g \in [ot -> ToSet(less)] /\ \A e \in ToSet(less) : Copies(g, ot, e) = Count(less, e)
      BY LaidIs
    <2>2. f \in [us -> ToSet(pool)]
      BY <1>3, <2>1
    <2>3. f[u] = d /\ \A v \in ot : f[v] = g[v]
      OBVIOUS
    <2> HIDE DEF f
    <2>4. ASSUME NEW e \in ToSet(pool) PROVE Copies(f, us, e) = Count(pool, e)
      <3>1. Copies(f, us, e) = Copies(f, ot, e) + IF d = e THEN 1 ELSE 0
        BY <2>3, CopiesAre
      <3>2. Copies(f, ot, e) = Copies(g, ot, e)
        <4>1. {v \in ot : f[v] = e} = {v \in ot : g[v] = e}
          BY <2>3
        <4> QED BY <4>1 DEF Copies
      <3>3. Copies(g, ot, e) = Count(less, e)
        <4>1. CASE e \in ToSet(less)
          BY <2>1, <4>1
        <4>2. CASE e \notin ToSet(less)
          <5>1. ~\E v \in ot : g[v] = e
            BY <2>1, <4>2
          <5>2. Copies(g, ot, e) = 0
            BY <1>1, <5>1, CopiesAre
          <5> QED BY <1>2, <4>2, <5>2
        <4> QED BY <4>1, <4>2
      <3>4. Count(pool, e) = Count(less, e) + IF e = d THEN 1 ELSE 0
        BY <1>1
      <3> QED BY <3>1, <3>2, <3>3, <3>4
    <2>5. f \in Laid(pool, us)
      BY <2>2, <2>4, LaidIs
    <2> QED BY <2>5 DEF f
  <1>5. ASSUME NEW f \in Laid(pool, us), f[u] = d
        PROVE  [v \in us \ {u} |-> f[v]] \in Laid(less, ot)
    <2> DEFINE g == [v \in ot |-> f[v]]
    <2>1. f \in [us -> ToSet(pool)] /\ \A e \in ToSet(pool) : Copies(f, us, e) = Count(pool, e)
      BY LaidIs
    <2>2. DOMAIN g = ot /\ g = [v \in ot |-> g[v]] /\ \A v \in ot : g[v] = f[v] /\ g[v] \in ToSet(pool)
      BY <2>1
    <2> HIDE DEF g
    <2>3. ASSUME NEW e \in ToSet(pool) PROVE Copies(g, ot, e) = Count(less, e)
      <3>1. Copies(f, us, e) = Copies(f, ot, e) + IF d = e THEN 1 ELSE 0
        BY <1>5, CopiesAre
      <3>2. Copies(f, ot, e) = Copies(g, ot, e)
        <4>1. {v \in ot : f[v] = e} = {v \in ot : g[v] = e}
          BY <2>2
        <4> QED BY <4>1 DEF Copies
      <3>3. Count(pool, e) = Count(less, e) + IF e = d THEN 1 ELSE 0
        BY <1>1
      <3>4. Copies(f, ot, e) \in Nat /\ Count(less, e) \in Nat
        BY <1>1, <1>2, CopiesAre
      <3> QED BY <2>1, <3>1, <3>2, <3>3, <3>4
    <2>4. ASSUME NEW v \in ot PROVE g[v] \in ToSet(less)
      <3>1. Copies(g, ot, g[v]) # 0
        BY <1>1, CopiesAre
      <3> QED BY <1>2, <2>2, <2>3, <3>1
    <2>5. g \in [ot -> ToSet(less)]
      BY <2>2, <2>4
    <2>6. g \in Laid(less, ot)
      BY <1>3, <2>3, <2>5, LaidIs
    <2> QED BY <2>6 DEF g
  <1> QED BY <1>4, <1>5 DEF less

\* The identities of a world, and a world without its history and with printed faces.
Laying(s, f, g) == [v \in Uids |-> IF v \in DOMAIN g THEN g[v] ELSE Changed(s, f)[v]]
Shown(s, defs)   == [s EXCEPT !.def = [v \in Uids |-> base_def_id(defs[v])], !.history = <<>>, !.cache = {}]

\* Worlds look alike if their cards have the same printed faces.
LEMMA LooksAre ==
  ASSUME NEW s, Shaped(s), NEW f, NEW g
  PROVE  LET w == World(s, f, g) IN
         w.def = Laying(s, f, g) /\ [w EXCEPT !.def = Printed(w), !.history = <<>>] = Shown(s, Laying(s, f, g))
  <1> DEFINE w == World(s, f, g)
             a == Laying(s, f, g)
             p == [v \in Uids |-> base_def_id(a[v])]
             h == Renamed(s.history, a)
  <1>1. w = Other(s, a)
    BY WorldIs DEF Laying
  <1>2. w = [s EXCEPT !.def = a, !.history = h, !.cache = {}]
    BY <1>1 DEF Other
  <1> HIDE DEF w, a, h
  <1>3. w.def = a
    BY <1>2 DEF Shaped
  <1>4. Printed(w) = p
    BY <1>3 DEF Printed
  <1> DEFINE q == p
  <1> HIDE DEF q
  <1>5. [w EXCEPT !.def = q, !.history = <<>>] = [s EXCEPT !.def = q, !.history = <<>>, !.cache = {}]
    BY <1>2 DEF Shaped
  <1> QED BY <1>3, <1>4, <1>5 DEF Shown, w, a, q

\* There are as many cards in a pool as there are slots for them: nothing is fitted.
LEMMA PoolsFit ==
  ASSUME NEW s, Inv(s), table \in Tables, NEW o
  PROVE  LET P == unknown_pools(s, o)
             main == slots(s, o, "main")
             res == slots(s, o, "resources")
         IN /\ exact_pools(s, o) = {P}
            /\ fit(P.main, Cardinality(main)) = P.main /\ fit(P.resources, Cardinality(res)) = P.resources
            /\ IsFiniteSet(main) /\ IsFiniteSet(res) /\ main \subseteq Uids /\ res \subseteq Uids
            /\ P.main \in Seq(Defs) /\ P.resources \in Seq(Defs)
  <1> DEFINE P == unknown_pools(s, o)
             main == slots(s, o, "main")
             res == slots(s, o, "resources")
             H == unknown_instances(s, o)
  <1>1. IsFiniteSet(Uids) /\ H \subseteq Uids
    BY UidsAre DEF unknown_instances
  <1>2. H = main \cup res /\ main \cap res = {} /\ main \subseteq Uids /\ res \subseteq Uids
    BY <1>1 DEF slots
  <1>3. P.main \in Seq(Defs) /\ P.resources \in Seq(Defs)
    BY PoolsAre
  <1>4. \A d \in Defs : /\ Count(P.main, d) = Cardinality({u \in main : Printed(s)[u] = d})
                        /\ Count(P.resources, d) = Cardinality({u \in res : Printed(s)[u] = d})
    BY PoolsAre DEF Hides
  <1>5. \A u \in Uids : Printed(s)[u] \in Defs
    <2>1. \A u \in Uids : s.def[u] \in Defs
      BY Fields DEF Inv, Whole
    <2> QED BY <2>1 DEF Printed, base_def_id, Defs, Pilot
  <1> DEFINE K == Printed(s)
             M == P.main
             R == P.resources
  <1> HIDE DEF main, res, H
  <1>6. IsFiniteSet(main) /\ IsFiniteSet(res)
    BY <1>1, <1>2, FS_Subset
  <1>7. (\A u \in main : K[u] \in Defs) /\ (\A u \in res : K[u] \in Defs)
    BY <1>2, <1>5
  <1>8. /\ M \in Seq(Defs) /\ R \in Seq(Defs)
        /\ \A d \in Defs : Count(M, d) = Cardinality({u \in main : K[u] = d})
        /\ \A d \in Defs : Count(R, d) = Cardinality({u \in res : K[u] = d})
    BY <1>3, <1>4
  <1> HIDE DEF K, M, R
  <1>9. Len(M) = Cardinality(main) /\ Len(R) = Cardinality(res)
    BY <1>6, <1>7, <1>8, SameSize
  <1>10. Len(M \o R) = Len(M) + Len(R)
    BY <1>8, ConcatProperties
  <1>11. Cardinality(H) = Cardinality(main) + Cardinality(res)
    <2>1. Cardinality(main \cup res) = Cardinality(main) + Cardinality(res) - Cardinality(main \cap res)
      BY <1>6, FS_Union
    <2>2. Cardinality(main \cap res) = 0 /\ Cardinality(main) \in Nat /\ Cardinality(res) \in Nat
      BY <1>2, <1>6, FS_EmptySet, FS_CardinalityType
    <2> QED BY <1>2, <2>1, <2>2
  <1>12. exact_pools(s, o) = {P}
    BY <1>9, <1>10, <1>11 DEF exact_pools, M, R, H
  <1>13. ASSUME NEW l \in Seq(Defs) PROVE fit(l, Len(l)) = l
    <2> DEFINE m == SubSeq(l, 1, Len(l))
    <2>1. m \in Seq(Defs) /\ Len(m) = Len(l) /\ \A i \in 1 .. Len(l) : m[i] = l[i]
      OBVIOUS
    <2>2. fit(l, Len(l)) = m
      BY DEF fit
    <2> HIDE DEF m
    <2> QED BY <2>1, <2>2, SeqEqual
  <1>14. fit(M, Cardinality(main)) = M /\ fit(R, Cardinality(res)) = R
    BY <1>8, <1>9, <1>13
  <1> QED BY <1>2, <1>3, <1>6, <1>12, <1>14 DEF M, R, main, res

\* Two layings of which one leaves out a card that keeps its identity look alike.
LEMMA LookAlike ==
  ASSUME NEW s, NEW a, NEW b, \A v \in Uids : base_def_id(a[v]) = base_def_id(b[v])
  PROVE  Shown(s, a) = Shown(s, b)
  <1>1. [v \in Uids |-> base_def_id(a[v])] = [v \in Uids |-> base_def_id(b[v])]
    OBVIOUS
  <1> QED BY <1>1 DEF Shown

\* The worlds that keep card u look like those in which u is what it is.
LEMMA KeptLooks ==
  ASSUME NEW s, Inv(s), table \in Tables, NEW o, NEW u \in unknown_instances(s, o)
  PROVE  LET seen(w) == [w EXCEPT !.def = Printed(w), !.history = <<>>]
             is == base_def_id(s.def[u])
         IN {seen(w) : w \in determinize_exact(s, o, u)}
              = {seen(w) : w \in {x \in determinize(s, o) : x.def[u] = is}}
  <1> DEFINE seen(w) == [w EXCEPT !.def = Printed(w), !.history = <<>>]
             is == base_def_id(s.def[u])
             P == unknown_pools(s, o)
             M == P.main
             R == P.resources
             main == slots(s, o, "main")
             res == slots(s, o, "resources")
             in_res == s.zone[u] = "ResourceDeck"
             M2 == IF in_res THEN M ELSE RemoveFirst(M, is)
             R2 == IF in_res THEN RemoveFirst(R, is) ELSE R
             Worlds(F, G) == {World(s, f, g) : f \in F, g \in G}
             F1 == Laid(M, main)
             G1 == Laid(R, res)
             F2 == Laid(M2, main \ {u})
             G2 == Laid(R2, res \ {u})
  <1>1. Shaped(s)
    BY DEF Inv, Whole, Typed, States, Shaped
  <1>2. /\ exact_pools(s, o) = {P}
        /\ fit(M, Cardinality(main)) = M /\ fit(R, Cardinality(res)) = R
        /\ IsFiniteSet(main) /\ IsFiniteSet(res) /\ main \subseteq Uids /\ res \subseteq Uids
        /\ M \in Seq(Defs) /\ R \in Seq(Defs)
    BY PoolsFit
  <1>3. u \in Uids /\ (in_res => u \in res /\ u \notin main) /\ (~in_res => u \in main /\ u \notin res)
        /\ main \cap res = {}
    BY DEF slots, unknown_instances
  <1>4. Printed(s)[u] = is /\ is \in Defs /\ base_def_id(is) = is
    <2>1. s.def[u] \in Defs
      BY <1>3, Fields DEF Inv, Whole
    <2> QED BY <1>3, <2>1 DEF Printed, base_def_id, Defs, Pilot, Variant
  <1>5. (in_res => is \in ToSet(R)) /\ (~in_res => is \in ToSet(M))
    <2>1. ASSUME NEW p \in {"main", "resources"}, u \in slots(s, o, p)
          PROVE  is \in ToSet(unknown_pools(s, o)[p])
      <3> DEFINE l == unknown_pools(s, o)[p]
                 us == slots(s, o, p)
                 K == Printed(s)
      <3>1. l \in Seq(Defs) /\ Count(l, is) = Copies(K, us, is)
        BY <1>4, PoolsAre DEF Hides, Copies
      <3>2. IsFiniteSet(us)
        BY <1>2, <2>1
      <3>3. u \in us /\ K[u] = is
        BY <1>4, <2>1
      <3> HIDE DEF l, us, K
      <3>4. Copies(K, us, is) # 0
        BY <3>2, <3>3, CopiesAre
      <3> QED BY <3>1, <3>4, CountIs DEF l
    <2> QED BY <1>3, <2>1
  <1>6. determinize(s, o) = Worlds(F1, G1)
    BY <1>2 DEF determinize
  <1>7. determinize_exact(s, o, u) = Worlds(F2, G2)
    <2> DEFINE D(p) == LET mains == IF in_res THEN {p.main} ELSE Without(p.main, is)
                           ress  == IF in_res THEN Without(p.resources, is) ELSE {p.resources}
                       IN UNION {{World(s, f, g) : f \in Laid(m, main \ {u}), g \in Laid(r, res \ {u})}
                                   : m \in mains, r \in ress}
    <2>1. determinize_exact(s, o, u) = UNION {D(p) : p \in exact_pools(s, o)}
      BY DEF determinize_exact
    <2>2. (in_res => Without(R, is) = {R2}) /\ (~in_res => Without(M, is) = {M2})
      BY <1>2, <1>5, CountWithout DEF Without
    <2> DEFINE W(m, r) == {World(s, f, g) : f \in Laid(m, main \ {u}), g \in Laid(r, res \ {u})}
               ms == IF in_res THEN {M} ELSE Without(M, is)
               rs == IF in_res THEN Without(R, is) ELSE {R}
    <2>3. D(P) = UNION {W(m, r) : m \in ms, r \in rs}
      OBVIOUS
    <2>4. ms = {M2} /\ rs = {R2}
      BY <2>2
    <2> HIDE DEF D, W, ms, rs, M2, R2
    <2>5. UNION {W(m, r) : m \in {M2}, r \in {R2}} = W(M2, R2)
      OBVIOUS
    <2>6. UNION {D(p) : p \in {P}} = D(P)
      OBVIOUS
    <2>7. determinize_exact(s, o, u) = W(M2, R2)
      BY <1>2, <2>1, <2>3, <2>4, <2>5, <2>6
    <2> QED BY <2>7 DEF W
  <1>8. \A f, g : World(s, f, g).def = Laying(s, f, g) /\ seen(World(s, f, g)) = Shown(s, Laying(s, f, g))
    BY <1>1, LooksAre
  <1>9. /\ \A f \in F1 : DOMAIN f = main
        /\ \A g \in G1 : DOMAIN g = res
        /\ \A f \in F2 : DOMAIN f = main \ {u}
        /\ \A g \in G2 : DOMAIN g = res \ {u}
    BY DEF Laid
  <1>10. \A f, g : \A v \in Uids : Laying(s, f, g)[v] = IF v \in DOMAIN g THEN g[v]
                                                         ELSE IF v \in DOMAIN f THEN f[v] ELSE s.def[v]
    BY DEF Laying, Changed
  <1> DEFINE With(f, us) == [v \in us |-> IF v = u THEN is ELSE f[v]]
             But(f, us)  == [v \in us \ {u} |-> f[v]]
  <1>11. ~in_res => /\ G2 = G1
                    /\ \A f \in F2 : With(f, main) \in F1
                    /\ \A f \in F1 : f[u] = is => But(f, main) \in F2
    <2> SUFFICES ASSUME ~in_res
                 PROVE  /\ G2 = G1
                        /\ \A f \in F2 : With(f, main) \in F1
                        /\ \A f \in F1 : f[u] = is => But(f, main) \in F2
      OBVIOUS
    <2>1. res \ {u} = res /\ R2 = R /\ M2 = RemoveFirst(M, is) /\ u \in main /\ is \in ToSet(M)
      BY <1>3, <1>5
    <2> HIDE DEF main, res, M2, R2, M, R, is
    <2> QED BY <1>2, <2>1, LaidKept
  <1>12. in_res => /\ F2 = F1
                   /\ \A g \in G2 : With(g, res) \in G1
                   /\ \A g \in G1 : g[u] = is => But(g, res) \in G2
    <2> SUFFICES ASSUME in_res
                 PROVE  /\ F2 = F1
                        /\ \A g \in G2 : With(g, res) \in G1
                        /\ \A g \in G1 : g[u] = is => But(g, res) \in G2
      OBVIOUS
    <2>1. main \ {u} = main /\ M2 = M /\ R2 = RemoveFirst(R, is) /\ u \in res /\ is \in ToSet(R)
      BY <1>3, <1>5
    <2> HIDE DEF main, res, M2, R2, M, R, is
    <2> QED BY <1>2, <2>1, LaidKept
  <1> HIDE DEF F1, G1, F2, G2
  <1>13. ASSUME NEW f \in F2, NEW g \in G2
         PROVE  \E a \in F1, b \in G1 : Laying(s, a, b)[u] = is /\ Shown(s, Laying(s, a, b)) = Shown(s, Laying(s, f, g))
    <2>1. CASE in_res
      <3> DEFINE b == With(g, res)
      <3>1. f \in F1 /\ b \in G1 /\ DOMAIN f = main /\ DOMAIN g = res \ {u} /\ DOMAIN b = res
        BY <1>9, <1>12, <2>1
      <3>2. \A v \in res : b[v] = IF v = u THEN is ELSE g[v]
        OBVIOUS
      <3> HIDE DEF b, main, res, is
      <3>3. Laying(s, f, b)[u] = is
        BY <1>3, <1>10, <2>1, <3>1, <3>2
      <3>4. \A v \in Uids : base_def_id(Laying(s, f, b)[v]) = base_def_id(Laying(s, f, g)[v])
        <4> SUFFICES ASSUME NEW v \in Uids PROVE base_def_id(Laying(s, f, b)[v]) = base_def_id(Laying(s, f, g)[v])
          OBVIOUS
        <4>1. CASE v = u
          <5>1. Laying(s, f, g)[u] = s.def[u]
            BY <1>3, <1>10, <2>1, <3>1
          <5> QED BY <1>4, <3>3, <4>1, <5>1 DEF is
        <4>2. CASE v # u
          <5>1. Laying(s, f, b)[v] = Laying(s, f, g)[v]
            BY <1>10, <3>1, <3>2, <4>2
          <5> QED BY <5>1
        <4> QED BY <4>1, <4>2
      <3> QED BY <3>1, <3>3, <3>4, LookAlike
    <2>2. CASE ~in_res
      <3> DEFINE a == With(f, main)
      <3>1. g \in G1 /\ a \in F1 /\ DOMAIN f = main \ {u} /\ DOMAIN g = res /\ DOMAIN a = main
        BY <1>9, <1>11, <2>2
      <3>2. \A v \in main : a[v] = IF v = u THEN is ELSE f[v]
        OBVIOUS
      <3> HIDE DEF a, main, res, is
      <3>3. Laying(s, a, g)[u] = is
        BY <1>3, <1>10, <2>2, <3>1, <3>2
      <3>4. \A v \in Uids : base_def_id(Laying(s, a, g)[v]) = base_def_id(Laying(s, f, g)[v])
        <4> SUFFICES ASSUME NEW v \in Uids PROVE base_def_id(Laying(s, a, g)[v]) = base_def_id(Laying(s, f, g)[v])
          OBVIOUS
        <4>1. CASE v = u
          <5>1. Laying(s, f, g)[u] = s.def[u]
            BY <1>3, <1>10, <2>2, <3>1
          <5> QED BY <1>4, <3>3, <4>1, <5>1 DEF is
        <4>2. CASE v # u
          <5>1. Laying(s, a, g)[v] = Laying(s, f, g)[v]
            BY <1>10, <3>1, <3>2, <4>2
          <5> QED BY <5>1
        <4> QED BY <4>1, <4>2
      <3> QED BY <3>1, <3>3, <3>4, LookAlike
    <2> QED BY <2>1, <2>2
  <1>14. ASSUME NEW f \in F1, NEW g \in G1, Laying(s, f, g)[u] = is
         PROVE  \E a \in F2, b \in G2 : Shown(s, Laying(s, a, b)) = Shown(s, Laying(s, f, g))
    <2>0. DOMAIN f = main /\ DOMAIN g = res
      BY <1>9
    <2>1. CASE in_res
      <3> DEFINE b == But(g, res)
      <3>1. g[u] = is
        BY <1>3, <1>10, <1>14, <2>0, <2>1
      <3>2. f \in F2 /\ b \in G2 /\ DOMAIN b = res \ {u}
        BY <1>12, <2>1, <3>1
      <3>3. \A v \in res \ {u} : b[v] = g[v]
        OBVIOUS
      <3> HIDE DEF b, main, res, is
      <3>4. \A v \in Uids : base_def_id(Laying(s, f, b)[v]) = base_def_id(Laying(s, f, g)[v])
        <4> SUFFICES ASSUME NEW v \in Uids PROVE base_def_id(Laying(s, f, b)[v]) = base_def_id(Laying(s, f, g)[v])
          OBVIOUS
        <4>1. CASE v = u
          <5>1. Laying(s, f, b)[u] = s.def[u]
            BY <1>3, <1>10, <2>0, <2>1, <3>2
          <5> QED BY <1>4, <1>14, <4>1, <5>1 DEF is
        <4>2. CASE v # u
          <5>1. Laying(s, f, b)[v] = Laying(s, f, g)[v]
            BY <1>10, <2>0, <3>2, <3>3, <4>2
          <5> QED BY <5>1
        <4> QED BY <4>1, <4>2
      <3> QED BY <3>2, <3>4, LookAlike
    <2>2. CASE ~in_res
      <3> DEFINE a == But(f, main)
      <3>1. f[u] = is
        BY <1>3, <1>10, <1>14, <2>0, <2>2
      <3>2. g \in G2 /\ a \in F2 /\ DOMAIN a = main \ {u}
        BY <1>11, <2>2, <3>1
      <3>3. \A v \in main \ {u} : a[v] = f[v]
        OBVIOUS
      <3> HIDE DEF a, main, res, is
      <3>4. \A v \in Uids : base_def_id(Laying(s, a, g)[v]) = base_def_id(Laying(s, f, g)[v])
        <4> SUFFICES ASSUME NEW v \in Uids PROVE base_def_id(Laying(s, a, g)[v]) = base_def_id(Laying(s, f, g)[v])
          OBVIOUS
        <4>1. CASE v = u
          <5>1. Laying(s, a, g)[u] = s.def[u]
            BY <1>3, <1>10, <2>0, <2>2, <3>2
          <5> QED BY <1>4, <1>14, <4>1, <5>1 DEF is
        <4>2. CASE v # u
          <5>1. Laying(s, a, g)[v] = Laying(s, f, g)[v]
            BY <1>10, <2>0, <3>2, <3>3, <4>2
          <5> QED BY <5>1
        <4> QED BY <4>1, <4>2
      <3> QED BY <3>2, <3>4, LookAlike
    <2> QED BY <2>1, <2>2
  <1> HIDE DEF seen, is
  <1>15. {seen(w) : w \in Worlds(F2, G2)} = {seen(w) : w \in {x \in Worlds(F1, G1) : x.def[u] = is}}
    <2>1. ASSUME NEW f \in F2, NEW g \in G2
          PROVE  \E w \in {x \in Worlds(F1, G1) : x.def[u] = is} : seen(w) = seen(World(s, f, g))
      <3>1. PICK a \in F1, b \in G1 : Laying(s, a, b)[u] = is /\ Shown(s, Laying(s, a, b)) = Shown(s, Laying(s, f, g))
        BY <1>13
      <3>2. World(s, a, b) \in Worlds(F1, G1) /\ World(s, a, b).def[u] = is
        BY <1>8, <3>1
      <3>3. seen(World(s, a, b)) = seen(World(s, f, g))
        BY <1>8, <3>1
      <3> QED BY <3>2, <3>3
    <2>2. ASSUME NEW f \in F1, NEW g \in G1, World(s, f, g).def[u] = is
          PROVE  \E w \in Worlds(F2, G2) : seen(w) = seen(World(s, f, g))
      <3>1. PICK a \in F2, b \in G2 : Shown(s, Laying(s, a, b)) = Shown(s, Laying(s, f, g))
        BY <1>8, <1>14, <2>2
      <3>2. seen(World(s, a, b)) = seen(World(s, f, g))
        BY <1>8, <3>1
      <3> QED BY <3>2
    <2> QED BY <2>1, <2>2
  <1>16. {seen(w) : w \in determinize_exact(s, o, u)} = {seen(w) : w \in {x \in determinize(s, o) : x.def[u] = is}}
    BY <1>6, <1>7, <1>15
  <1> QED BY <1>16 DEF seen, is

\* In every game the worlds that keep the identity of one hidden card are, up to the faces
\* cards lie with and the history, exactly the sampled worlds in which the card is what it
\* is.  (determinize_exact_into.)
THEOREM KeptCardsKeepWorlds == Spec => []KeptWorldsAreWorlds
  <1>1. BInv => KeptWorldsAreWorlds
    <2> SUFFICES ASSUME BInv PROVE KeptWorldsAreWorlds
      OBVIOUS
    <2>1. Inv(st) /\ table \in Tables
      BY DEF BInv, Good
    <2> QED BY <2>1, KeptLooks DEF KeptWorldsAreWorlds
  <1> QED BY <1>1, BoardIsGood, PTL
=============================================================================
