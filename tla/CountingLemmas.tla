--------------------------- MODULE CountingLemmas ----------------------------
(***************************************************************************)
(* Lemmas on how often a value occurs in a sequence and on the greatest    *)
(* position with a property, for the proofs that account for what is on    *)
(* its way through a queue.                                                *)
(***************************************************************************)
EXTENDS Integers, Sequences, FiniteSets, FiniteSetTheorems,
        FunctionTheorems, SequenceTheorems, WellFoundedInduction, TLAPS

One(cond) == IF cond THEN 1 ELSE 0

Positions(s, k) == {i \in DOMAIN s : s[i] = k}
Occurs(s, k) == Cardinality(Positions(s, k))

(* A value occurs finitely often in a sequence.                            *)
LEMMA PositionsFinite ==
    ASSUME NEW S, NEW s \in Seq(S), NEW k
    PROVE  IsFiniteSet(Positions(s, k)) /\ Occurs(s, k) \in Nat
<1>1. Positions(s, k) \subseteq 1 .. Len(s) /\ Len(s) \in Nat
  BY LenProperties DEF Positions
<1>2. IsFiniteSet(1 .. Len(s))
  BY <1>1, FS_Interval
<1> QED
  BY <1>1, <1>2, FS_Subset, FS_CardinalityType DEF Occurs

(* Nothing occurs in the empty sequence.                                   *)
LEMMA OccursEmpty == ASSUME NEW k PROVE Occurs(<<>>, k) = 0
<1>1. Positions(<<>>, k) = {}
  BY DEF Positions
<1> QED
  BY <1>1, FS_EmptySet DEF Occurs

(* Append adds one occurrence of what it appends.                          *)
LEMMA OccursAppend ==
    ASSUME NEW S, NEW s \in Seq(S), NEW e \in S, NEW k
    PROVE  Occurs(Append(s, e), k) = Occurs(s, k) + One(e = k)
<1>1. /\ Len(s) \in Nat /\ DOMAIN s = 1 .. Len(s)
      /\ DOMAIN Append(s, e) = 1 .. Len(s) + 1
      /\ \A i \in 1 .. Len(s) : Append(s, e)[i] = s[i]
      /\ Append(s, e)[Len(s) + 1] = e
  BY AppendProperties, LenProperties
<1>2. CASE e = k
  <2>1. /\ Positions(Append(s, e), k) = Positions(s, k) \cup {Len(s) + 1}
        /\ Len(s) + 1 \notin Positions(s, k)
    BY <1>1, <1>2 DEF Positions
  <2> QED
    BY <1>2, <2>1, PositionsFinite, FS_AddElement DEF Occurs, One
<1>3. CASE e # k
  <2>1. Positions(Append(s, e), k) = Positions(s, k)
    BY <1>1, <1>3 DEF Positions
  <2> QED
    BY <1>3, <2>1, PositionsFinite DEF Occurs, One
<1> QED
  BY <1>2, <1>3

(* Tail takes one occurrence of the head away.                             *)
LEMMA OccursTail ==
    ASSUME NEW S, NEW s \in Seq(S), s # <<>>, NEW k
    PROVE  Occurs(Tail(s), k) = Occurs(s, k) - One(Head(s) = k)
<1>1. /\ Len(s) \in Nat \ {0} /\ DOMAIN s = 1 .. Len(s) /\ Head(s) = s[1]
      /\ Tail(s) \in Seq(S) /\ DOMAIN Tail(s) = 1 .. Len(s) - 1
      /\ \A i \in 1 .. Len(s) - 1 : Tail(s)[i] = s[i + 1]
  BY HeadTailProperties, LenProperties, EmptySeq
<1> DEFINE f == [i \in Positions(Tail(s), k) |-> i + 1]
<1>2. f \in Bijection(Positions(Tail(s), k), Positions(s, k) \ {1})
  <2>1. \A i \in Positions(Tail(s), k) : i + 1 \in Positions(s, k) \ {1}
    BY <1>1 DEF Positions
  <2>2. f \in [Positions(Tail(s), k) -> Positions(s, k) \ {1}]
    BY <2>1, Zenon
  <2>3. \A i, j \in Positions(Tail(s), k) : f[i] = f[j] => i = j
    BY <1>1 DEF Positions
  <2>4. \A j \in Positions(s, k) \ {1} : \E i \in Positions(Tail(s), k) : f[i] = j
    <3> SUFFICES ASSUME NEW j \in Positions(s, k) \ {1}
                 PROVE  j - 1 \in Positions(Tail(s), k) /\ f[j - 1] = j
      OBVIOUS
    <3>1. j \in 2 .. Len(s) /\ s[j] = k
      BY <1>1 DEF Positions
    <3>2. j - 1 \in 1 .. Len(s) - 1 /\ (j - 1) + 1 = j
      BY <1>1, <3>1
    <3> QED
      BY <1>1, <3>1, <3>2 DEF Positions
  <2> HIDE DEF f
  <2> QED
    BY <2>2, <2>3, <2>4, Fun_IsBij, Zenon
<1>3. IsFiniteSet(Positions(Tail(s), k))
  BY <1>1, PositionsFinite
<1>4. Occurs(Tail(s), k) = Cardinality(Positions(s, k) \ {1})
  BY <1>2, <1>3, FS_Bijection DEF ExistsBijection, Occurs
<1>5. 1 \in Positions(s, k) <=> Head(s) = k
  BY <1>1 DEF Positions
<1>6. CASE Head(s) = k
  <2>1. Cardinality(Positions(s, k) \ {1}) = Occurs(s, k) - 1
    BY <1>5, <1>6, PositionsFinite, FS_RemoveElement DEF Occurs
  <2> QED
    BY <1>4, <1>6, <2>1 DEF One
<1>7. CASE Head(s) # k
  <2>1. Positions(s, k) \ {1} = Positions(s, k)
    BY <1>5, <1>7
  <2>2. Occurs(Tail(s), k) = Occurs(s, k)
    BY <1>4, <2>1 DEF Occurs
  <2>3. Occurs(s, k) \in Nat
    BY PositionsFinite
  <2> QED
    BY <1>7, <2>2, <2>3 DEF One
<1> QED
  BY <1>6, <1>7

(* A set of positions that is not empty has a greatest one.                *)
LEMMA GreatestExists ==
    ASSUME NEW n \in Nat, NEW T, T \subseteq 1 .. n, T # {}
    PROVE  \E i \in T : \A j \in T : j <= i
<1> DEFINE U == {n - i : i \in T}
           Less == {ss \in Nat \X Nat : ss[1] < ss[2]}
<1>1. U \subseteq Nat /\ U # {}
  <2>1. \A i \in T : n - i \in Nat
    OBVIOUS
  <2>2. U \subseteq Nat
    BY <2>1, Zenon
  <2> QED
    BY <2>2
<1>2. IsWellFoundedOn(Less, Nat)
  BY NatLessThanWellFounded, Zenon DEF OpToRel
<1>3. PICK u \in U : \A v \in U : ~ (<<v, u>> \in Less)
  BY <1>1, <1>2, WFMin, Zenon
<1>4. \A v \in U : u <= v
  <2>1. \A v \in Nat : v < u => <<v, u>> \in Less
    BY <1>1
  <2>2. u \in Nat /\ \A v \in U : v \in Nat /\ ~ (v < u)
    BY <1>1, <1>3, <2>1, Zenon
  <2> QED
    BY <2>2
<1>5. PICK i \in T : u = n - i
  BY <1>3
<1>6. \A j \in T : n - i <= n - j
  BY <1>4, <1>5
<1>7. \A j \in T : j <= i
  <2> SUFFICES ASSUME NEW j \in T
               PROVE  j <= i
    OBVIOUS
  <2>1. i \in Int /\ j \in Int /\ n \in Int
    OBVIOUS
  <2>2. n - i <= n - j
    BY <1>6
  <2> HIDE DEF U, Less
  <2> QED
    BY <2>1, <2>2
<1> HIDE DEF U, Less
<1> QED
  BY <1>7, Zenon

(* Induction up to N over a set.                                           *)
LEMMA UpTo ==
    ASSUME NEW N \in Nat, NEW P, 0 \in P, \A k \in 1 .. N : k - 1 \in P => k \in P
    PROVE  \A k \in 0 .. N : k \in P
<1> DEFINE T == {i \in 1 .. N + 1 : N + 1 - i \notin P}
<1>1. ASSUME NEW i \in T, \A j \in T : j <= i PROVE FALSE
  <2>1. i \in 1 .. N + 1 /\ N + 1 - i \notin P
    OBVIOUS
  <2>2. N + 1 - i \in 1 .. N
    BY <2>1
  <2>3. i + 1 \in 1 .. N + 1 /\ i + 1 \notin T
    BY <1>1, <2>1, <2>2
  <2>4. N + 1 - (i + 1) \in P /\ N + 1 - (i + 1) = (N + 1 - i) - 1
    BY <2>1, <2>3
  <2> QED
    BY <2>1, <2>2, <2>4
<1>2. T = {}
  <2> SUFFICES ASSUME T # {} PROVE FALSE
    OBVIOUS
  <2>1. T \subseteq 1 .. N + 1 /\ N + 1 \in Nat
    OBVIOUS
  <2> HIDE DEF T
  <2> QED
    BY <1>1, <2>1, GreatestExists, Zenon
<1>3. ASSUME NEW k \in 0 .. N PROVE k \in P
  <2>1. N + 1 - k \in 1 .. N + 1 /\ N + 1 - (N + 1 - k) = k
    OBVIOUS
  <2>2. N + 1 - k \notin T
    BY <1>2
  <2> QED
    BY <2>1, <2>2
<1> QED
  BY <1>3

(* A function on 1 .. n is a sequence of length n.                         *)
LEMMA FunctionIsSeq ==
    ASSUME NEW S, NEW n \in Nat, NEW f \in [1 .. n -> S]
    PROVE  f \in Seq(S) /\ Len(f) = n
<1>1. f \in Seq(S)
  BY SeqDef
<1>2. Len(f) \in Nat /\ DOMAIN f = 1 .. Len(f) /\ DOMAIN f = 1 .. n
  BY <1>1, LenProperties
<1> QED
  BY <1>1, <1>2

(* Division with remainder.                                                *)
LEMMA Division ==
    ASSUME NEW a \in Nat, NEW n \in Nat \ {0}
    PROVE  /\ a \div n \in Nat
           /\ (a \div n) * n <= a /\ a < (a \div n) * n + n
OBVIOUS

(* A new row of a union of rows adds as many elements as it has.           *)
LEMMA RowAdds ==
    ASSUME NEW B, IsFiniteSet(B), NEW i, NEW m \in Nat, \A b \in B : b[1] # i
    PROVE  /\ IsFiniteSet(B \cup ({i} \X (1 .. m)))
           /\ Cardinality(B \cup ({i} \X (1 .. m))) = Cardinality(B) + m
<1>1. IsFiniteSet(1 .. m) /\ Cardinality(1 .. m) = m
  BY FS_Interval
<1>2. IsFiniteSet({i}) /\ Cardinality({i}) = 1
  BY FS_Singleton
<1> DEFINE R == {i} \X (1 .. m)
<1>3. IsFiniteSet(R) /\ Cardinality(R) = m
  BY <1>1, <1>2, FS_Product
<1>4. B \cap R = {}
  OBVIOUS
<1>5. Cardinality(B \cap R) = 0 /\ Cardinality(B) \in Nat
  BY <1>4, FS_EmptySet, FS_CardinalityType
<1> HIDE DEF R
<1>6. /\ IsFiniteSet(B \cup R)
      /\ Cardinality(B \cup R) = Cardinality(B) + Cardinality(R) - Cardinality(B \cap R)
  BY <1>3, FS_Union
<1> QED
  BY <1>3, <1>5, <1>6 DEF R
=============================================================================
