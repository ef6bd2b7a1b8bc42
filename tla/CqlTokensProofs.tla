-------------------------- MODULE CqlTokensProofs --------------------------
(***************************************************************************)
(* Reading a text token by token yields the statements that the text as a  *)
(* whole consists of.                                                      *)
(***************************************************************************)
EXTENDS CqlTokens, SequenceTheorems, FiniteSetTheorems, WellFoundedInduction, TLAPS

USE ContentsAssumption

(* A set of natural numbers that has a member has a least one.              *)
LEMMA LeastMember ==
    ASSUME NEW S \in SUBSET Nat, S # {}
    PROVE  Min(S) \in S /\ \A j \in S : Min(S) <= j
  <1> DEFINE R == OpToRel(<, Nat)
  <1>1. IsWellFoundedOn(R, Nat)
    BY NatLessThanWellFounded
  <1>2. ASSUME NEW l \in Nat, NEW m \in Nat, <<l, m>> \notin R PROVE m <= l
    <2>1. ~(l < m)
      BY <1>2 DEF OpToRel
    <2> QED
      BY <2>1
  <1> HIDE DEF R
  <1>3. S \subseteq Nat
    OBVIOUS
  <1>4. PICK m \in S : \A l \in S : <<l, m>> \notin R
    BY <1>1, <1>3, WFMin, Zenon
  <1>5. \A l \in S : m <= l
    BY <1>2, <1>3, <1>4, Zenon
  <1> QED
    BY <1>5 DEF Min

LEMMA SeparatorIs == Separator \notin {"'", "-", "/", "\n"}
  BY Zenon DEF Separator

-----------------------------------------------------------------------------
(* The order of places: how many there are up to one of them tells which    *)
(* one it is.                                                               *)
UpTo(S, p) == {q \in S : q <= p}

LEMMA Ranks ==
    ASSUME NEW S \in SUBSET Nat, IsFiniteSet(S)
    PROVE  /\ \A p \in S : Cardinality(UpTo(S, p)) \in 1..Cardinality(S)
           /\ \A p, q \in S : p < q => Cardinality(UpTo(S, p)) < Cardinality(UpTo(S, q))
           /\ \A p, q \in S : Cardinality(UpTo(S, p)) = Cardinality(UpTo(S, q)) => p = q
  <1>1. ASSUME NEW p \in S
        PROVE  /\ IsFiniteSet(UpTo(S, p)) /\ Cardinality(UpTo(S, p)) \in Nat \ {0}
               /\ Cardinality(UpTo(S, p)) <= Cardinality(S) /\ Cardinality(S) \in Nat
    <2>1. UpTo(S, p) \subseteq S /\ p \in UpTo(S, p)
      BY DEF UpTo
    <2>2. IsFiniteSet(UpTo(S, p))
      BY <2>1, FS_Subset
    <2>3. /\ Cardinality(UpTo(S, p)) \in Nat /\ Cardinality(S) \in Nat
          /\ Cardinality(UpTo(S, p)) <= Cardinality(S)
      BY <2>1, <2>2, FS_Subset, FS_CardinalityType
    <2>4. Cardinality(UpTo(S, p)) # 0
      BY <2>1, <2>2, FS_EmptySet
    <2> QED
      BY <2>2, <2>3, <2>4
  <1>2. ASSUME NEW p \in S, NEW q \in S, p < q
        PROVE  Cardinality(UpTo(S, p)) < Cardinality(UpTo(S, q))
    <2>1. UpTo(S, p) \subseteq UpTo(S, q)
      <3>1. \A x \in S : x <= p => x <= q
        <4>1. p \in Nat /\ q \in Nat
          OBVIOUS
        <4> QED
          BY <1>2, <4>1
      <3> QED
        BY <3>1 DEF UpTo
    <2>2. q \in UpTo(S, q) /\ q \notin UpTo(S, p)
      BY <1>2 DEF UpTo
    <2>3. UpTo(S, p) # UpTo(S, q)
      BY <2>2
    <2> QED
      BY <1>1, <2>1, <2>3, FS_Subset
  <1>3. ASSUME NEW p \in S, NEW q \in S,
               Cardinality(UpTo(S, p)) = Cardinality(UpTo(S, q)), p # q
        PROVE  FALSE
    <2>1. p < q \/ q < p
      BY <1>3
    <2>2. Cardinality(UpTo(S, p)) \in Nat /\ Cardinality(UpTo(S, q)) \in Nat
      BY <1>1
    <2> QED
      BY <1>2, <1>3, <2>1, <2>2
  <1> QED
    BY <1>1, <1>2, <1>3

(* Each place up to which there are n is the nth one, and there is one.     *)
LEMMA NthPlace ==
    ASSUME NEW S \in SUBSET Nat, IsFiniteSet(S)
    PROVE  /\ \A p \in S : /\ Cardinality(UpTo(S, p)) \in 1..Cardinality(S)
                           /\ InOrder(S)[Cardinality(UpTo(S, p))] = p
           /\ \A n \in 1..Cardinality(S) : \E p \in S : Cardinality(UpTo(S, p)) = n
  <1>1. ASSUME NEW p \in S
        PROVE  InOrder(S)[Cardinality(UpTo(S, p))] = p
    <2> DEFINE n == Cardinality(UpTo(S, p))
               m == CHOOSE q \in S : Cardinality(UpTo(S, q)) = n
    <2>1. n \in 1..Cardinality(S)
      BY Ranks
    <2>2. m \in S /\ Cardinality(UpTo(S, m)) = n
      <3>1. \E q \in S : Cardinality(UpTo(S, q)) = n
        OBVIOUS
      <3> QED
        BY <3>1, Zenon
    <2>3. m = p
      BY <2>2, Ranks, Zenon
    <2>4. InOrder(S)[n] = m
      BY <2>1, Zenon DEF InOrder, UpTo
    <2> QED
      BY <2>3, <2>4, Zenon
  <1>2. ASSUME NEW n \in 1..Cardinality(S)
        PROVE  \E p \in S : Cardinality(UpTo(S, p)) = n
    <2> DEFINE N == 1..Cardinality(S)
               f == [p \in S |-> Cardinality(UpTo(S, p))]
    <2>1. Cardinality(S) \in Nat
      BY FS_CardinalityType
    <2>2. IsFiniteSet(N) /\ Cardinality(N) = Cardinality(S)
      BY <2>1, FS_Interval
    <2>3. f \in [S -> N]
      BY Ranks
    <2>4. \A p, q \in S : f[p] = f[q] => p = q
      BY Ranks, Zenon
    <2>5. f \in Injection(S, N)
      BY <2>3, <2>4, Zenon DEF Injection, IsInjective
    <2> HIDE DEF f
    <2>6. f \in Surjection(S, N)
      BY <2>2, <2>5, FS_Injection, Zenon
    <2>7. \E p \in S : f[p] = n
      BY <2>6 DEF Surjection
    <2> QED
      BY <2>7 DEF f
  <1> QED
    BY <1>1, <1>2, Ranks

(* Places that come behind the others are ordered behind them.              *)
LEMMA OrderJoined ==
    ASSUME NEW S \in SUBSET Nat, IsFiniteSet(S),
           NEW a \in Nat, NEW b \in Nat, a <= b, \A p \in S : p < a
    PROVE  LET U == S \union (a..b)
           IN  /\ IsFiniteSet(U) /\ Cardinality(S) \in Nat
               /\ Cardinality(U) = Cardinality(S) + (b - a + 1)
               /\ \A n \in 1..Cardinality(S) : InOrder(U)[n] = InOrder(S)[n]
               /\ \A n \in 1..(b - a + 1) : InOrder(U)[Cardinality(S) + n] = a + n - 1
  <1> DEFINE U == S \union (a..b)
  <1>1. U \in SUBSET Nat
    OBVIOUS
  <1>2. ASSUME NEW c \in a..b
        PROVE  /\ IsFiniteSet(S \union (a..c)) /\ Cardinality(S) \in Nat
               /\ Cardinality(S \union (a..c)) = Cardinality(S) + (c - a + 1)
    <2>1. IsFiniteSet(a..c) /\ Cardinality(a..c) = c - a + 1
      BY FS_Interval
    <2>2. S \intersect (a..c) = {}
      OBVIOUS
    <2>3. Cardinality(S) \in Nat /\ Cardinality(S \intersect (a..c)) = 0
      BY <2>2, FS_CardinalityType, FS_EmptySet
    <2>4. /\ IsFiniteSet(S \union (a..c))
          /\ Cardinality(S \union (a..c))
             = Cardinality(S) + Cardinality(a..c) - Cardinality(S \intersect (a..c))
      BY <2>1, FS_Union, Zenon
    <2> QED
      BY <2>1, <2>3, <2>4
  <1>3. ASSUME NEW n \in 1..Cardinality(S) PROVE InOrder(U)[n] = InOrder(S)[n]
    <2>1. PICK p \in S : Cardinality(UpTo(S, p)) = n
      BY NthPlace
    <2>2. UpTo(U, p) = UpTo(S, p)
      BY DEF UpTo
    <2>3. p \in U /\ IsFiniteSet(U)
      BY <1>2
    <2> QED
      BY <1>1, <2>1, <2>2, <2>3, NthPlace
  <1>4. ASSUME NEW n \in 1..(b - a + 1)
        PROVE  InOrder(U)[Cardinality(S) + n] = a + n - 1
    <2> DEFINE p == a + n - 1
    <2>1. p \in a..b /\ p - a + 1 = n
      OBVIOUS
    <2>2. UpTo(U, p) = S \union (a..p)
      <3>1. \A x \in S : x <= p
        <4>1. a <= p /\ p \in Nat
          BY <2>1
        <4> HIDE DEF p
        <4>2. \A x \in S : x \in Nat /\ x < a
          OBVIOUS
        <4> QED
          BY <4>1, <4>2
      <3>2. \A x \in a..b : x <= p <=> x \in a..p
        BY <2>1
      <3>3. a..p \subseteq a..b
        BY <2>1
      <3> HIDE DEF p
      <3> QED
        BY <3>1, <3>2, <3>3 DEF UpTo
    <2>3. Cardinality(UpTo(U, p)) = Cardinality(S) + n
      BY <1>2, <2>1, <2>2
    <2>4. p \in U /\ IsFiniteSet(U)
      BY <1>2, <2>1
    <2> HIDE DEF p, U
    <2>5. InOrder(U)[Cardinality(UpTo(U, p))] = p
      BY <1>1, <2>4, NthPlace
    <2> QED
      BY <2>3, <2>5 DEF p
  <1>5. b \in a..b
    OBVIOUS
  <1>6. /\ IsFiniteSet(U) /\ Cardinality(S) \in Nat
        /\ Cardinality(U) = Cardinality(S) + (b - a + 1)
    BY <1>2, <1>5
  <1> QED
    BY <1>3, <1>4, <1>6, Zenon

(* What is found at places that are followed by a stretch of others.        *)
LEMMA ListedType ==
    ASSUME NEW f, NEW V, NEW S \in SUBSET Nat, IsFiniteSet(S), \A p \in S : f[p] \in V
    PROVE  /\ Listed(f, S) \in Seq(V) /\ Len(Listed(f, S)) = Cardinality(S)
           /\ \A n \in 1..Cardinality(S) : Listed(f, S)[n] = f[InOrder(S)[n]]
  <1>1. Cardinality(S) \in Nat
    BY FS_CardinalityType
  <1>2. \A n \in 1..Cardinality(S) : InOrder(S)[n] \in S
    BY NthPlace
  <1>3. Listed(f, S) = [n \in 1..Cardinality(S) |-> f[InOrder(S)[n]]]
    BY DEF Listed
  <1>4. \A n \in 1..Cardinality(S) : f[InOrder(S)[n]] \in V
    BY <1>2
  <1> QED
    BY <1>1, <1>3, <1>4

LEMMA ConcatIs ==
    ASSUME NEW V, NEW s \in Seq(V), NEW t \in Seq(V), NEW u \in Seq(V),
           Len(u) = Len(s) + Len(t), \A n \in 1..Len(s) : u[n] = s[n],
           \A n \in 1..Len(t) : u[Len(s) + n] = t[n]
    PROVE  u = s \o t
  <1>1. /\ s \o t \in Seq(V) /\ Len(s \o t) = Len(u)
        /\ \A n \in 1..Len(u) : (s \o t)[n] =
              IF n <= Len(s) THEN s[n] ELSE t[n - Len(s)]
    BY ConcatProperties
  <1>2. ASSUME NEW n \in 1..Len(u) PROVE (s \o t)[n] = u[n]
    <2>1. CASE n <= Len(s)
      BY <1>1, <2>1
    <2>2. CASE n > Len(s)
      <3>1. n - Len(s) \in 1..Len(t) /\ n = Len(s) + (n - Len(s))
        BY <2>2
      <3>2. u[n] = t[n - Len(s)]
        BY <3>1
      <3> QED
        BY <1>1, <2>2, <3>2
    <2> QED
      BY <2>1, <2>2
  <1> QED
    BY <1>1, <1>2, SeqEqual

LEMMA ListedJoined ==
    ASSUME NEW f, NEW S \in SUBSET Nat, IsFiniteSet(S),
           NEW a \in Nat, NEW b \in Nat, a <= b, \A p \in S : p < a
    PROVE  Listed(f, S \union (a..b))
           = Listed(f, S) \o [n \in 1..(b - a + 1) |-> f[a + n - 1]]
  <1> DEFINE U == S \union (a..b)
             V == {f[p] : p \in U}
             left == Listed(f, S)
             both == Listed(f, U)
             right == [n \in 1..(b - a + 1) |-> f[a + n - 1]]
  <1>1. /\ IsFiniteSet(U) /\ Cardinality(S) \in Nat
        /\ Cardinality(U) = Cardinality(S) + (b - a + 1)
        /\ \A n \in 1..Cardinality(S) : InOrder(U)[n] = InOrder(S)[n]
        /\ \A n \in 1..(b - a + 1) : InOrder(U)[Cardinality(S) + n] = a + n - 1
    BY OrderJoined
  <1>2. U \in SUBSET Nat /\ S \subseteq U /\ a..b \subseteq U /\ b - a + 1 \in Nat
    OBVIOUS
  <1>3. \A p \in U : f[p] \in V
    OBVIOUS
  <1>4. \A p \in S : f[p] \in V
    BY <1>2, <1>3
  <1>5. \A n \in 1..(b - a + 1) : a + n - 1 \in a..b
    OBVIOUS
  <1> HIDE DEF U, V
  <1>6. right \in Seq(V) /\ Len(right) = b - a + 1
    BY <1>2, <1>3, <1>5
  <1>7. \A n \in 1..(b - a + 1) : right[n] = f[a + n - 1]
    OBVIOUS
  <1> HIDE DEF right
  <1>8. /\ left \in Seq(V) /\ Len(left) = Cardinality(S)
        /\ \A n \in 1..Cardinality(S) : left[n] = f[InOrder(S)[n]]
    BY <1>4, ListedType
  <1>9. /\ both \in Seq(V) /\ Len(both) = Cardinality(U)
        /\ \A n \in 1..Cardinality(U) : both[n] = f[InOrder(U)[n]]
    BY <1>1, <1>2, <1>3, ListedType
  <1> HIDE DEF left, both
  <1>10. Len(both) = Len(left) + Len(right)
    BY <1>1, <1>6, <1>8, <1>9
  <1>11. ASSUME NEW n \in 1..Len(left) PROVE both[n] = left[n]
    <2>1. n \in 1..Cardinality(S) /\ n \in 1..Cardinality(U)
      BY <1>1, <1>2, <1>8
    <2> QED
      BY <1>1, <1>8, <1>9, <2>1
  <1>12. ASSUME NEW n \in 1..Len(right) PROVE both[Len(left) + n] = right[n]
    <2>1. n \in 1..(b - a + 1) /\ Cardinality(S) + n \in 1..Cardinality(U)
      BY <1>1, <1>2, <1>6
    <2>2. both[Cardinality(S) + n] = f[a + n - 1] /\ right[n] = f[a + n - 1]
      BY <1>1, <1>7, <1>9, <2>1
    <2> QED
      BY <1>8, <2>2
  <1>13. both = left \o right
    BY <1>6, <1>8, <1>9, <1>10, <1>11, <1>12, ConcatIs
  <1> QED
    BY <1>13, Zenon DEF both, left, right, U

LEMMA RunesJoined ==
    ASSUME NEW text \in Seq(Runes), NEW S \in SUBSET Nat, IsFiniteSet(S),
           NEW a \in Nat, NEW b \in Nat, 1 <= a, a <= b, b <= Len(text), \A p \in S : p < a
    PROVE  Listed(text, S \union (a..b)) = Listed(text, S) \o SubSeq(text, a, b)
  <1> DEFINE right == [n \in 1..(b - a + 1) |-> text[a + n - 1]]
  <1>1. \A f : Listed(f, S \union (a..b))
               = Listed(f, S) \o [n \in 1..(b - a + 1) |-> f[a + n - 1]]
    BY ListedJoined, Zenon
  <1>2. Listed(text, S \union (a..b)) = Listed(text, S) \o right
    BY <1>1, Zenon
  <1>3. right = SubSeq(text, a, b)
    <2>1. b - a + 1 \in Nat /\ \A n \in 1..(b - a + 1) : a + n - 1 \in 1..Len(text)
      OBVIOUS
    <2>2. \A l \in 1..Len(text) : text[l] \in Runes
      BY ElementOfSeq
    <2>3. right \in Seq(Runes) /\ Len(right) = b - a + 1
      BY <2>1, <2>2
    <2>4. /\ SubSeq(text, a, b) \in Seq(Runes) /\ Len(SubSeq(text, a, b)) = b - a + 1
          /\ \A n \in 1..(b - a + 1) : SubSeq(text, a, b)[n] = text[a + n - 1]
      <3>1. \A l \in a..b : text[l] \in Runes
        BY <2>2
      <3> QED
        BY <3>1, SubSeqProperties
    <2> QED
      BY <2>3, <2>4, SeqEqual
  <1> QED
    BY <1>2, <1>3, Zenon

LEMMA ListedOneMore ==
    ASSUME NEW f, NEW S \in SUBSET Nat, IsFiniteSet(S), NEW k \in Nat, \A p \in S : p < k
    PROVE  Listed(f, S \union {k}) = Append(Listed(f, S), f[k])
  <1> DEFINE right == [n \in 1..(k - k + 1) |-> f[k + n - 1]]
             V == {f[p] : p \in S \union {k}}
  <1>1. k <= k
    OBVIOUS
  <1>2. Listed(f, S \union (k..k)) = Listed(f, S) \o right
    BY <1>1, ListedJoined, Zenon
  <1>3. k..k = {k} /\ k - k + 1 = 1
    OBVIOUS
  <1>4. right = <<f[k]>>
    <2>1. \A n \in 1..1 : n = 1 /\ k + n - 1 = k
      OBVIOUS
    <2>2. right = [n \in 1..1 |-> f[k]]
      BY <1>3, <2>1
    <2> QED
      BY <2>2
  <1>5. f[k] \in V /\ \A p \in S : f[p] \in V
    OBVIOUS
  <1> HIDE DEF right, V
  <1>6. Listed(f, S) \in Seq(V)
    BY <1>5, ListedType
  <1>7. Listed(f, S) \o <<f[k]>> = Append(Listed(f, S), f[k])
    BY <1>5, <1>6, AppendIsConcat
  <1> QED
    BY <1>2, <1>3, <1>4, <1>7, Zenon

-----------------------------------------------------------------------------
(* A token ends where it begins or later, and the next one begins behind.   *)
LEMMA EndsBehind ==
    ASSUME NEW text \in Seq(Runes), NEW i \in 1..Len(text), TokenEnds(text, i) # {}
    PROVE  Min(TokenEnds(text, i)) \in i..Len(text)
  <1>1. TokenEnds(text, i) \subseteq i..Len(text)
    BY DEF TokenEnds, StringEnds, BlockEnds, LineEnds, CommentAt
  <1>2. Min(TokenEnds(text, i)) \in TokenEnds(text, i)
    <2>1. TokenEnds(text, i) \in SUBSET Nat
      BY <1>1
    <2> QED
      BY <2>1, LeastMember
  <1> HIDE DEF Min
  <1> QED
    BY <1>1, <1>2

Closed(text, S) ==
    /\ S \in SUBSET (1..Len(text)+1) /\ 1 \in S
    /\ \A i \in S : i <= Len(text) /\ TokenEnds(text, i) # {}
                    => Min(TokenEnds(text, i)) + 1 \in S

LEMMA TokenStartsLeast ==
    ASSUME NEW text \in Seq(Runes)
    PROVE  /\ TokenStarts(text) \subseteq 1..Len(text)
           /\ Closed(text, TokenStarts(text) \union {Len(text) + 1})
           /\ \A S : Closed(text, S) => TokenStarts(text) \subseteq S
  <1> DEFINE after == [i \in 1..Len(text) |-> After(text, i)]
             closed == {S \in SUBSET (1..Len(text)+1) :
                  1 \in S /\ \A i \in S \ {Len(text) + 1} : after[i] \subseteq S}
  <1>1. TokenStarts(text) = {i \in 1..Len(text) : \A S \in closed : i \in S}
    BY Zenon DEF TokenStarts
  <1>2. Len(text) \in Nat
    OBVIOUS
  <1>3. ASSUME NEW S PROVE S \in closed <=> Closed(text, S)
    <2>1. ASSUME S \in SUBSET (1..Len(text)+1), NEW i \in S
          PROVE  /\ i # Len(text) + 1 <=> i <= Len(text)
                 /\ i <= Len(text) => i \in 1..Len(text) /\ after[i] = After(text, i)
      <3>1. i \in 1..Len(text)+1
        BY <2>1
      <3> QED
        BY <1>2, <3>1
    <2>2. \A i : After(text, i) \subseteq S
                 <=> (TokenEnds(text, i) # {} => Min(TokenEnds(text, i)) + 1 \in S)
      BY DEF After
    <2> HIDE DEF after
    <2> QED
      BY <2>1, <2>2 DEF Closed
  <1>4. \A S : Closed(text, S) => TokenStarts(text) \subseteq S
    BY <1>1, <1>3, Zenon
  <1>5. Closed(text, TokenStarts(text) \union {Len(text) + 1})
    <2> DEFINE T == TokenStarts(text) \union {Len(text) + 1}
    <2>1. T \in SUBSET (1..Len(text)+1) /\ 1 \in T
      <3>1. CASE Len(text) = 0
        BY <1>1, <3>1
      <3>2. CASE Len(text) # 0
        <4>1. 1 \in 1..Len(text) /\ Len(text) + 1 \in 1..Len(text)+1
          BY <1>2, <3>2
        <4>2. 1..Len(text) \subseteq 1..Len(text)+1
          BY <1>2
        <4> HIDE DEF after
        <4> QED
          BY <1>1, <4>1, <4>2
      <3> QED
        BY <3>1, <3>2
    <2>2. ASSUME NEW i \in T, i <= Len(text), TokenEnds(text, i) # {}
          PROVE  Min(TokenEnds(text, i)) + 1 \in T
      <3> DEFINE m == Min(TokenEnds(text, i)) + 1
      <3>1. i \in TokenStarts(text) /\ i \in 1..Len(text)
        BY <1>1, <1>2, <2>2
      <3>2. m \in 1..Len(text)+1
        BY <1>2, <2>2, <3>1, EndsBehind
      <3>3. \A S : Closed(text, S) => m \in S
        BY <1>4, <2>2, <3>1 DEF Closed
      <3> HIDE DEF m, closed
      <3>4. ASSUME m \in 1..Len(text) PROVE m \in T
        BY <1>1, <1>3, <3>3, <3>4
      <3>5. ASSUME m = Len(text) + 1 PROVE m \in T
        BY <3>5
      <3>6. m \in 1..Len(text) \/ m = Len(text) + 1
        BY <1>2, <3>2
      <3> QED
        BY <3>4, <3>5, <3>6 DEF m
    <2> QED
      BY <2>1, <2>2 DEF Closed
  <1> QED
    BY <1>1, <1>4, <1>5
-----------------------------------------------------------------------------
(* How far a text has been read: all tokens before place i are complete.    *)
Frontier(text, i) ==
    /\ i \in 1..(Len(text) + 1)
    /\ i <= Len(text) => i \in TokenStarts(text)
    /\ \A j \in TokenStarts(text) :
          j < i => TokenEnds(text, j) # {} /\ Min(TokenEnds(text, j)) < i

LEMMA FrontierBegins ==
    ASSUME NEW text \in Seq(Runes)
    PROVE  Frontier(text, 1)
  <1>1. /\ Len(text) \in Nat /\ TokenStarts(text) \subseteq 1..Len(text)
        /\ 1 \in TokenStarts(text) \union {Len(text) + 1}
    BY TokenStartsLeast DEF Closed
  <1> QED
    BY <1>1 DEF Frontier

(* Nothing begins within a token.                                           *)
LEMMA FrontierMoves ==
    ASSUME NEW text \in Seq(Runes), NEW i \in 1..Len(text), Frontier(text, i),
           TokenEnds(text, i) # {}, NEW m, m = Min(TokenEnds(text, i))
    PROVE  /\ m \in i..Len(text)
           /\ \A j \in TokenStarts(text) : j <= i \/ j > m
           /\ Frontier(text, m + 1)
  <1> DEFINE T == TokenStarts(text) \union {Len(text) + 1}
             S == T \ ((i + 1)..m)
  <1>1. m \in i..Len(text) /\ Len(text) \in Nat
    BY EndsBehind
  <1>2. TokenStarts(text) \subseteq 1..Len(text) /\ Closed(text, T)
    BY TokenStartsLeast
  <1>3. Closed(text, S)
    <2>1. S \in SUBSET (1..Len(text)+1) /\ 1 \in S
      BY <1>1, <1>2 DEF Closed
    <2>2. ASSUME NEW j \in S, j <= Len(text), TokenEnds(text, j) # {}
          PROVE  Min(TokenEnds(text, j)) + 1 \in S
      <3> DEFINE n == Min(TokenEnds(text, j))
      <3>1. j \in TokenStarts(text) /\ j \in 1..Len(text)
        BY <1>1, <1>2, <2>2
      <3>2. n \in j..Len(text) /\ n + 1 \in T
        BY <1>2, <2>2, <3>1, EndsBehind DEF Closed
      <3>3. j < i => n < i
        BY <3>1 DEF Frontier
      <3>4. j = i => n = m
        OBVIOUS
      <3>5. j \notin (i + 1)..m
        OBVIOUS
      <3> HIDE DEF n, T
      <3>6. n + 1 \notin (i + 1)..m
        BY <1>1, <3>1, <3>2, <3>3, <3>4, <3>5
      <3> QED
        BY <3>2, <3>6 DEF n
    <2> HIDE DEF S
    <2> QED
      BY <2>1, <2>2 DEF Closed
  <1>4. \A j \in TokenStarts(text) : j <= i \/ j > m
    <2>1. TokenStarts(text) \subseteq S
      BY <1>3, TokenStartsLeast
    <2>2. ASSUME NEW j \in TokenStarts(text) PROVE j <= i \/ j > m
      <3>1. j \in 1..Len(text) /\ j \notin (i + 1)..m
        BY <1>2, <2>1
      <3> QED
        BY <1>1, <3>1
    <2> QED
      BY <2>2
  <1>5. m + 1 \in 1..(Len(text) + 1) /\ (m + 1 <= Len(text) => m + 1 \in TokenStarts(text))
    <2>1. m + 1 \in T
      BY <1>2 DEF Frontier, Closed
    <2> QED
      BY <1>1, <2>1
  <1>6. ASSUME NEW j \in TokenStarts(text), j < m + 1
        PROVE  TokenEnds(text, j) # {} /\ Min(TokenEnds(text, j)) < m + 1
    <2>1. j \in 1..Len(text) /\ j <= i
      BY <1>1, <1>2, <1>4, <1>6
    <2>2. CASE j = i
      BY <1>1, <2>2
    <2>3. CASE j < i
      <3>1. TokenEnds(text, j) # {} /\ Min(TokenEnds(text, j)) < i
        BY <2>3 DEF Frontier
      <3>2. Min(TokenEnds(text, j)) \in j..Len(text)
        BY <2>1, <3>1, EndsBehind
      <3> HIDE DEF Min
      <3> QED
        BY <1>1, <2>1, <3>1, <3>2
    <2> QED
      BY <2>1, <2>2, <2>3
  <1> QED
    BY <1>1, <1>4, <1>5, <1>6 DEF Frontier

-----------------------------------------------------------------------------
(* The places of the statement that is being read.                          *)
Collected(text, i) == Between(Kept(text), Cuts(text), i)

LEMMA CollectedPlaces ==
    ASSUME NEW text \in Seq(Runes), NEW i \in 1..(Len(text) + 1)
    PROVE  /\ Collected(text, i) \in SUBSET (1..Len(text))
           /\ IsFiniteSet(Collected(text, i))
           /\ \A p \in Collected(text, i) : p < i
  <1>1. TokenStarts(text) \subseteq 1..Len(text) /\ Len(text) \in Nat
    <2>1. TokenStarts(text) \subseteq 1..Len(text)
      BY TokenStartsLeast, Zenon
    <2> QED
      BY <2>1
  <1>2. ASSUME NEW p \in Kept(text) PROVE p \in Int /\ p >= 1
    <2>1. PICK j \in TokenStarts(text) : p \in j..Min(TokenEnds(text, j))
      BY DEF Kept
    <2> QED
      BY <1>1, <2>1
  <1>3. \A p \in Collected(text, i) : p \in 1..Len(text) /\ p < i
    BY <1>1, <1>2 DEF Collected, Between
  <1>4. IsFiniteSet(1..Len(text))
    BY <1>1, FS_Interval
  <1>5. Collected(text, i) \in SUBSET (1..Len(text))
    BY <1>3
  <1>6. IsFiniteSet(Collected(text, i))
    BY <1>4, <1>5, FS_Subset
  <1> QED
    BY <1>3, <1>5, <1>6

LEMMA CollectedMoves ==
    ASSUME NEW text \in Seq(Runes), NEW i \in 1..Len(text), Frontier(text, i),
           TokenEnds(text, i) # {}, NEW m, m = Min(TokenEnds(text, i))
    PROVE  /\ CommentAt(text, i) => Collected(text, m + 1) = Collected(text, i)
           /\ text[i] = Separator => Collected(text, m + 1) = {} /\ i \in Cuts(text)
           /\ ~CommentAt(text, i) /\ text[i] # Separator
                 => Collected(text, m + 1) = Collected(text, i) \union (i..m)
           /\ \A c \in Cuts(text) : c < m + 1 <=> c < i \/ (c = i /\ text[i] = Separator)
  <1> DEFINE keep(j) == ~CommentAt(text, j) /\ text[j] # Separator
  <1>1. /\ m \in i..Len(text) /\ Len(text) \in Nat
        /\ \A j \in TokenStarts(text) : j <= i \/ j > m
        /\ TokenStarts(text) \subseteq 1..Len(text) /\ i \in TokenStarts(text)
    <2>1. m \in i..Len(text) /\ \A j \in TokenStarts(text) : j <= i \/ j > m
      BY FrontierMoves, Zenon
    <2>2. TokenStarts(text) \subseteq 1..Len(text)
      BY TokenStartsLeast, Zenon
    <2>3. i \in TokenStarts(text)
      BY DEF Frontier
    <2> QED
      BY <2>1, <2>2, <2>3
  <1>2. \A c \in Cuts(text) :
           /\ c \in Nat
           /\ c < i \/ c > m \/ (c = i /\ text[i] = Separator)
    BY <1>1 DEF Cuts
  <1>3. text[i] = Separator => i \in Cuts(text)
    BY <1>1 DEF Cuts
  <1>4. ASSUME NEW p \in Kept(text)
        PROVE  p \in Int /\ (p < i \/ p > m \/ (p \in i..m /\ keep(i)))
    <2>1. PICK j \in TokenStarts(text) : keep(j) /\ p \in j..Min(TokenEnds(text, j))
      BY DEF Kept
    <2>2. j \in 1..Len(text) /\ (j <= i \/ j > m)
      BY <1>1
    <2>3. CASE j < i
      <3>1. TokenEnds(text, j) # {} /\ Min(TokenEnds(text, j)) < i
        BY <2>3 DEF Frontier
      <3>2. Min(TokenEnds(text, j)) \in Int
        BY <2>2, <3>1, EndsBehind
      <3> HIDE DEF Min
      <3> QED
        BY <1>1, <2>1, <2>2, <3>1, <3>2
    <2>4. CASE j = i
      BY <1>1, <2>1, <2>4
    <2>5. CASE j > m
      BY <1>1, <2>1, <2>2, <2>5
    <2> QED
      BY <1>1, <2>2, <2>3, <2>4, <2>5
  <1>5. keep(i) => i..m \subseteq Kept(text)
    BY <1>1 DEF Kept
  <1> HIDE DEF keep
  <1>6. ASSUME NEW p \in Kept(text), p < i
        PROVE  p \in Collected(text, m + 1)
               <=> p \in Collected(text, i) /\ text[i] # Separator
    BY <1>1, <1>2, <1>3, <1>4, <1>6 DEF Collected, Between
  <1>7. ASSUME NEW p \in i..m, p \in Kept(text)
        PROVE  p \in Collected(text, m + 1)
    BY <1>1, <1>2, <1>7 DEF Collected, Between
  <1>8. \A p \in Collected(text, m + 1) : p \in Kept(text) /\ p < m + 1
    BY DEF Collected, Between
  <1>9. \A p \in Collected(text, i) : p \in Kept(text) /\ p < i
    BY DEF Collected, Between
  <1>10. ASSUME ~keep(i), text[i] # Separator
         PROVE  Collected(text, m + 1) = Collected(text, i)
    <2>1. \A p \in Collected(text, m + 1) : p < i
      BY <1>1, <1>4, <1>8, <1>10
    <2>2. \A p : p \in Collected(text, m + 1) <=> p \in Collected(text, i)
      BY <1>6, <1>8, <1>9, <1>10, <2>1
    <2> QED
      BY <2>2, Zenon
  <1>11. ASSUME ~keep(i), text[i] = Separator
         PROVE  Collected(text, m + 1) = {}
    BY <1>1, <1>4, <1>6, <1>8, <1>11
  <1>12. ASSUME keep(i), text[i] # Separator
         PROVE  Collected(text, m + 1) = Collected(text, i) \union (i..m)
    BY <1>1, <1>4, <1>5, <1>6, <1>7, <1>8, <1>9, <1>12
  <1>13. /\ CommentAt(text, i) => text[i] # Separator
         /\ keep(i) <=> ~CommentAt(text, i) /\ text[i] # Separator
    BY SeparatorIs DEF CommentAt, keep
  <1>14. \A c \in Cuts(text) : c < m + 1 <=> c < i \/ (c = i /\ text[i] = Separator)
    BY <1>1, <1>2
  <1> QED
    BY <1>3, <1>10, <1>11, <1>12, <1>13, <1>14
-----------------------------------------------------------------------------
(* The statements found before a place, and one more that ends there.       *)
PartAt(text) == [k \in Cuts(text) |-> TrimSpace(Listed(text, Collected(text, k)))]
EndsBefore(text, i) == {k \in Cuts(text) : k < i /\ PartAt(text)[k] # <<>>}

LEMMA StatementsGrow ==
    ASSUME NEW text \in Seq(Runes), NEW i \in Cuts(text)
    PROVE  StatementsBefore(text, i + 1)
           = With(StatementsBefore(text, i), Listed(text, Collected(text, i)))
  <1> DEFINE f == PartAt(text)
             E == EndsBefore(text, i)
  <1>1. i \in Nat /\ Cuts(text) \subseteq 1..Len(text)+1 /\ Len(text) \in Nat
    <2>1. TokenStarts(text) \subseteq 1..Len(text)
      BY TokenStartsLeast, Zenon
    <2> QED
      BY <2>1 DEF Cuts
  <1>2. \A n : StatementsBefore(text, n) = Listed(f, EndsBefore(text, n))
    BY Zenon DEF StatementsBefore, EndsBefore, PartAt, Collected
  <1>3. f[i] = TrimSpace(Listed(text, Collected(text, i)))
    BY DEF PartAt
  <1>4. With(StatementsBefore(text, i), Listed(text, Collected(text, i)))
        = IF f[i] = <<>> THEN Listed(f, E) ELSE Append(Listed(f, E), f[i])
    BY <1>2, <1>3, Zenon DEF With
  <1> HIDE DEF f
  <1>5. E \in SUBSET Nat /\ IsFiniteSet(E) /\ \A k \in E : k < i
    <2>1. E \in SUBSET (1..Len(text)+1) /\ \A k \in E : k < i /\ k \in Cuts(text)
      BY <1>1 DEF EndsBefore
    <2>2. IsFiniteSet(1..Len(text)+1)
      BY <1>1, FS_Interval
    <2>3. IsFiniteSet(E)
      BY <2>1, <2>2, FS_Subset
    <2> QED
      BY <1>1, <2>1, <2>3
  <1>6. CASE f[i] = <<>>
    <2>1. EndsBefore(text, i + 1) = E
      BY <1>1, <1>6 DEF EndsBefore, f
    <2> QED
      BY <1>2, <1>4, <1>6, <2>1, Zenon
  <1>7. CASE f[i] # <<>>
    <2>1. EndsBefore(text, i + 1) = E \union {i}
      BY <1>1, <1>7 DEF EndsBefore, f
    <2> HIDE DEF E
    <2>2. Listed(f, E \union {i}) = Append(Listed(f, E), f[i])
      BY <1>1, <1>5, ListedOneMore, Zenon
    <2> QED
      BY <1>2, <1>4, <1>7, <2>1, <2>2, Zenon
  <1> QED
    BY <1>6, <1>7

LEMMA StatementsListed ==
    \A text, n : StatementsBefore(text, n) = Listed(PartAt(text), EndsBefore(text, n))
  BY Zenon DEF StatementsBefore, EndsBefore, PartAt, Collected

LEMMA NothingListed ==
    \A f : Listed(f, {}) = <<>>
  <1>1. Cardinality({}) = 0
    BY FS_EmptySet
  <1> QED
    BY <1>1 DEF Listed

LEMMA NothingYet ==
    ASSUME NEW text \in Seq(Runes)
    PROVE  Listed(text, Collected(text, 1)) = <<>> /\ StatementsBefore(text, 1) = <<>>
  <1>1. \A p \in Collected(text, 1) : p \in 1..Len(text) /\ p < 1
    <2>1. 1 \in 1..(Len(text) + 1)
      OBVIOUS
    <2> QED
      BY <2>1, CollectedPlaces, Zenon
  <1>2. Collected(text, 1) = {}
    BY <1>1
  <1>3. EndsBefore(text, 1) = {}
    <2>1. \A k \in Cuts(text) : k \in 1..(Len(text) + 1)
      <3>1. TokenStarts(text) \subseteq 1..Len(text)
        BY TokenStartsLeast, Zenon
      <3> QED
        BY <3>1 DEF Cuts
    <2> QED
      BY <2>1 DEF EndsBefore
  <1> QED
    BY <1>2, <1>3, StatementsListed, NothingListed, Zenon

(* What the reading of one token adds to what is found before it.           *)
LEMMA TokenRead ==
    ASSUME NEW text \in Seq(Runes), NEW i \in 1..Len(text), Frontier(text, i),
           TokenEnds(text, i) # {}, NEW m, m = Min(TokenEnds(text, i))
    PROVE  /\ CommentAt(text, i)
              => Listed(text, Collected(text, m + 1)) = Listed(text, Collected(text, i))
           /\ ~CommentAt(text, i) /\ text[i] # Separator
              => Listed(text, Collected(text, m + 1))
                 = Listed(text, Collected(text, i)) \o SubSeq(text, i, m)
           /\ CommentAt(text, i) \/ text[i] # Separator
              => StatementsBefore(text, m + 1) = StatementsBefore(text, i)
           /\ text[i] = Separator
              => /\ Listed(text, Collected(text, m + 1)) = <<>>
                 /\ StatementsBefore(text, m + 1)
                    = With(StatementsBefore(text, i), Listed(text, Collected(text, i)))
  <1>1. m \in i..Len(text)
    BY FrontierMoves, Zenon
  <1>2. CommentAt(text, i) => text[i] # Separator
    BY SeparatorIs DEF CommentAt
  <1>3. /\ CommentAt(text, i) => Collected(text, m + 1) = Collected(text, i)
        /\ ~CommentAt(text, i) /\ text[i] # Separator
              => Collected(text, m + 1) = Collected(text, i) \union (i..m)
    BY CollectedMoves
  <1>4. ASSUME ~CommentAt(text, i), text[i] # Separator
        PROVE  Listed(text, Collected(text, m + 1))
               = Listed(text, Collected(text, i)) \o SubSeq(text, i, m)
    <2> DEFINE S == Collected(text, i)
    <2>1. Collected(text, m + 1) = S \union (i..m)
      BY <1>3, <1>4, Zenon
    <2>2. i \in 1..(Len(text) + 1)
      OBVIOUS
    <2>3. S \in SUBSET (1..Len(text)) /\ IsFiniteSet(S) /\ \A p \in S : p < i
      BY <2>2, CollectedPlaces, Zenon
    <2> HIDE DEF S
    <2>4. /\ S \in SUBSET Nat /\ i \in Nat /\ m \in Nat
          /\ 1 <= i /\ i <= m /\ m <= Len(text)
      BY <1>1, <2>3
    <2>5. Listed(text, S \union (i..m)) = Listed(text, S) \o SubSeq(text, i, m)
      BY <2>3, <2>4, RunesJoined
    <2> QED
      BY <2>1, <2>5, Zenon DEF S
  <1>5. ASSUME text[i] # Separator
        PROVE  StatementsBefore(text, m + 1) = StatementsBefore(text, i)
    <2>1. \A c \in Cuts(text) : c < m + 1 <=> c < i
      BY <1>5, CollectedMoves, Zenon
    <2>2. EndsBefore(text, m + 1) = EndsBefore(text, i)
      BY <2>1, Zenon DEF EndsBefore
    <2> QED
      BY <2>2, StatementsListed, Zenon
  <1>6. ASSUME text[i] = Separator
        PROVE  /\ Listed(text, Collected(text, m + 1)) = <<>>
               /\ StatementsBefore(text, m + 1)
                  = With(StatementsBefore(text, i), Listed(text, Collected(text, i)))
    <2>1. Collected(text, m + 1) = {} /\ i \in Cuts(text)
      BY <1>6, CollectedMoves, Zenon
    <2>2. m = i
      <3>1. TokenEnds(text, i) = {i}
        BY <1>2, <1>6, SeparatorIs DEF TokenEnds
      <3>2. TokenEnds(text, i) \in SUBSET Nat
        BY <3>1
      <3>3. m \in TokenEnds(text, i)
        BY <3>2, LeastMember, Zenon
      <3> QED
        BY <3>1, <3>3
    <2>3. StatementsBefore(text, i + 1)
          = With(StatementsBefore(text, i), Listed(text, Collected(text, i)))
      BY <2>1, StatementsGrow, Zenon
    <2> QED
      BY <2>1, <2>2, <2>3, NothingListed, Zenon
  <1> QED
    BY <1>2, <1>3, <1>4, <1>5, <1>6, Zenon

-----------------------------------------------------------------------------
(* As long as a text is read, exactly what stands before the next token is  *)
(* found: its statements, and the runes of the one that has not ended.      *)
TokensInv ==
    /\ content \in Contents
    /\ outcome \in {"open", "split", "error"}
    /\ outcome = "open" =>
          /\ Frontier(content, at)
          /\ current = Listed(content, Collected(content, at))
          /\ statements = StatementsBefore(content, at)
    /\ SplitsAsMeant

LEMMA TokensInvBegins == Init => TokensInv
  <1> SUFFICES ASSUME Init PROVE TokensInv
    OBVIOUS
  <1>1. content \in Seq(Runes)
    BY DEF Init
  <1>2. /\ Frontier(content, 1) /\ Listed(content, Collected(content, 1)) = <<>>
        /\ StatementsBefore(content, 1) = <<>>
    BY <1>1, FrontierBegins, NothingYet, Zenon
  <1> QED
    BY <1>2 DEF Init, TokensInv, SplitsAsMeant

LEMMA TokensInvKept == TokensInv /\ [Next]_vars => TokensInv'
  <1> SUFFICES ASSUME TokensInv, [Next]_vars PROVE TokensInv'
    OBVIOUS
  <1>1. content \in Contents /\ content \in Seq(Runes)
    BY DEF TokensInv
  <1>2. ASSUME outcome = "open"
        PROVE  /\ Frontier(content, at) /\ at \in 1..(Len(content) + 1)
               /\ current = Listed(content, Collected(content, at))
               /\ statements = StatementsBefore(content, at)
    BY <1>2, Zenon DEF TokensInv, Frontier
  <1> DEFINE m == Min(Ends)
  <1>3. ASSUME Read
        PROVE  /\ outcome = "open" /\ outcome' = "open" /\ content' = content
               /\ at \in 1..Len(content) /\ at' = m + 1 /\ Frontier(content', at')
               /\ Ends # {}
    <2>1. /\ outcome = "open" /\ outcome' = "open" /\ content' = content
          /\ at <= Len(content) /\ at' = m + 1 /\ Ends # {}
      BY <1>3, Zenon DEF Read
    <2>2. at \in 1..Len(content)
      BY <1>1, <1>2, <2>1
    <2>3. Frontier(content, m + 1)
      BY <1>1, <1>2, <2>1, <2>2, FrontierMoves, Zenon DEF Ends
    <2> QED
      BY <2>1, <2>2, <2>3, Zenon
  <1>4. ASSUME Read,
               current' = Listed(content', Collected(content', at')),
               statements' = StatementsBefore(content', at')
        PROVE  TokensInv'
    <2>1. /\ outcome' = "open" /\ content' \in Contents /\ Frontier(content', at')
      BY <1>1, <1>3, <1>4, Zenon
    <2> QED
      BY <1>4, <2>1 DEF TokensInv, SplitsAsMeant
  <1>5. ASSUME Read
        PROVE  /\ CommentAt(content, at)
                  => Listed(content, Collected(content, m + 1)) = current
               /\ ~CommentAt(content, at) /\ content[at] # Separator
                  => Listed(content, Collected(content, m + 1))
                     = current \o SubSeq(content, at, m)
               /\ CommentAt(content, at) \/ content[at] # Separator
                  => StatementsBefore(content, m + 1) = statements
               /\ content[at] = Separator
                  => /\ Listed(content, Collected(content, m + 1)) = <<>>
                     /\ StatementsBefore(content, m + 1) = With(statements, current)
    <2>1. /\ Frontier(content, at) /\ at \in 1..Len(content) /\ Ends # {}
          /\ current = Listed(content, Collected(content, at))
          /\ statements = StatementsBefore(content, at)
      BY <1>2, <1>3, <1>5, Zenon
    <2> HIDE DEF m
    <2>2. TokenEnds(content, at) # {} /\ m = Min(TokenEnds(content, at))
      BY <2>1, Zenon DEF Ends, m
    <2> QED
      BY <1>1, <2>1, <2>2, TokenRead, Zenon
  <1>6. CASE SkipComment
    <2>1. Read /\ CommentAt(content, at) /\ UNCHANGED <<current, statements>>
      BY <1>6, Zenon DEF SkipComment
    <2>2. current' = current /\ statements' = statements
      BY <2>1
    <2> QED
      BY <1>3, <1>4, <1>5, <2>1, <2>2, Zenon
  <1>7. CASE EndStatement
    <2>1. /\ Read /\ content[at] = Separator
          /\ statements' = With(statements, current) /\ current' = <<>>
      BY <1>7, Zenon DEF EndStatement
    <2> QED
      BY <1>3, <1>4, <1>5, <2>1, Zenon
  <1>8. CASE Keep
    <2>1. /\ Read /\ ~CommentAt(content, at) /\ content[at] # Separator
          /\ statements' = statements /\ current' = current \o SubSeq(content, at, m)
      BY <1>8, Zenon DEF Keep
    <2> QED
      BY <1>3, <1>4, <1>5, <2>1, Zenon
  <1>9. CASE Refuse
    <2>1. /\ outcome = "open" /\ at <= Len(content) /\ TokenEnds(content, at) = {}
          /\ outcome' = "error" /\ content' = content
      BY <1>9 DEF Refuse, Ends
    <2>2. at \in TokenStarts(content)
      BY <1>2, <2>1 DEF Frontier
    <2>3. ~Terminated(content')
      BY <2>1, <2>2 DEF Terminated
    <2> QED
      BY <1>1, <2>1, <2>3 DEF TokensInv, SplitsAsMeant
  <1>10. CASE Finish
    <2>1. /\ outcome = "open" /\ at > Len(content) /\ content' = content
          /\ outcome' = "split" /\ statements' = With(statements, current)
      BY <1>10 DEF Finish
    <2>2. at = Len(content) + 1
      BY <1>1, <1>2, <2>1
    <2>3. Terminated(content)
      <3>1. TokenStarts(content) \subseteq 1..Len(content)
        BY <1>1, TokenStartsLeast, Zenon
      <3>2. \A j \in TokenStarts(content) : j < at
        BY <1>1, <2>2, <3>1
      <3> QED
        BY <1>2, <2>1, <3>2, Zenon DEF Terminated, Frontier
    <2>4. statements' = StatementsBefore(content, at + 1)
      <3>1. at \in Cuts(content)
        BY <2>2 DEF Cuts
      <3> QED
        BY <1>1, <1>2, <2>1, <3>1, StatementsGrow, Zenon
    <2>5. at + 1 = Len(content) + 2
      BY <1>1, <2>2
    <2>6. Terminated(content') /\ statements' = StatementsOf(content')
      BY <2>1, <2>3, <2>4, <2>5, Zenon DEF StatementsOf
    <2> QED
      BY <1>1, <2>1, <2>6 DEF TokensInv, SplitsAsMeant
  <1>11. CASE UNCHANGED vars
    BY <1>11 DEF vars, TokensInv, SplitsAsMeant
  <1> QED
    BY <1>6, <1>7, <1>8, <1>9, <1>10, <1>11, Zenon DEF Next

(* Splitting token by token is splitting as a whole: a file is split just   *)
(* when all its tokens end, into just the statements it consists of.        *)
THEOREM TokensSplit == Spec => []SplitsAsMeant
  <1>1. TokensInv => SplitsAsMeant
    BY DEF TokensInv
  <1> QED
    BY <1>1, TokensInvBegins, TokensInvKept, PTL DEF Spec
=============================================================================
