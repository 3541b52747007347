------------------------- MODULE BlockProofTheorems -------------------------
(***************************************************************************)
(* Proofs about BlockProofs and StateProofs: its types, the tries, and     *)
(* that the proofs made verify.                                            *)
(***************************************************************************)
EXTENDS BlockProofs, SequenceTheorems, FiniteSetTheorems, WellFoundedInduction, TLAPS

------------------------------------------------------------------------------
(* Induction, with a set for the predicate; numbers *)

LEMMA Induction ==
    ASSUME NEW T, 0 \in T, \A n \in Nat : n \in T => n + 1 \in T
    PROVE  Nat \subseteq T
  <1> DEFINE U == Nat \ T
             R == OpToRel(<, Nat)
  <1> SUFFICES ASSUME U # {} PROVE FALSE
    OBVIOUS
  <1>1. IsWellFoundedOn(R, Nat)
    BY NatLessThanWellFounded
  <1>2. U \subseteq Nat
    OBVIOUS
  <1> HIDE DEF U
  <1>3. \E x \in U : \A y \in U : ~(<<y, x>> \in R)
    <2> HIDE DEF R
    <2>1. QED
      BY <1>1, <1>2, WFMin
  <1>4. PICK x \in U : \A y \in U : ~(y < x)
    BY <1>2, <1>3 DEF OpToRel
  <1>5. x # 0 /\ x - 1 \in Nat /\ x - 1 \notin U
    BY <1>2, <1>4 DEF U
  <1>6. x - 1 \in T /\ (x - 1) + 1 = x
    BY <1>2, <1>4, <1>5 DEF U
  <1>7. QED
    BY <1>4, <1>5, <1>6 DEF U

\* A bounded set of numbers has a greatest.
LEMMA MaxOf ==
    ASSUME NEW S \in SUBSET Nat, S # {}, NEW b \in Nat, \A x \in S : x <= b
    PROVE  Max(S) \in S /\ \A x \in S : x <= Max(S)
  <1>1. \E m \in S : \A x \in S : m >= x
    <2> SUFFICES ASSUME \A m \in S : \E x \in S : ~(m >= x) PROVE FALSE
      OBVIOUS
    <2> DEFINE T == {n \in Nat : \E x \in S : x >= n}
    <2>1. 0 \in T
      <3>1. PICK x \in S : TRUE
        OBVIOUS
      <3>2. x \in Nat /\ x >= 0
        OBVIOUS
      <3>3. QED
        BY <3>2
    <2>2. ASSUME NEW n \in Nat, n \in T PROVE n + 1 \in T
      <3>1. PICK m \in S : m >= n
        BY <2>2
      <3>2. PICK x \in S : ~(m >= x)
        OBVIOUS
      <3>3. x >= n + 1
        BY <3>1, <3>2
      <3>4. QED
        BY <3>3
    <2> HIDE DEF T
    <2>3. b + 1 \in T
      BY <2>1, <2>2, Induction
    <2>4. QED
      BY <2>3 DEF T
  <1>2. QED
    BY <1>1 DEF Max

LEMMA Division ==
    \A n \in Nat \ {0}, a \in Nat :
        a \div n \in Nat /\ a % n \in Nat /\ a = n * (a \div n) + (a % n) /\ a % n < n
  BY SMTT(30)

LEMMA Multiples == \A n, x, y \in Nat : x < y => n * x + n <= n * y
  <1>1. \A n, x, d \in Nat : n * x + n <= n * (x + 1 + d)
    BY SMTT(30)
  <1>2. ASSUME NEW n \in Nat, NEW x \in Nat, NEW y \in Nat, x < y PROVE n * x + n <= n * y
    <2>1. y - x - 1 \in Nat /\ y = x + 1 + (y - x - 1)
      BY <1>2
    <2>2. QED
      BY <1>1, <2>1
  <1>3. QED
    BY <1>2

------------------------------------------------------------------------------
(* Powers of two: the number of subsets *)

LEMMA SubsetsDouble ==
    ASSUME NEW S, IsFiniteSet(S), NEW x, x \notin S
    PROVE  Cardinality(SUBSET (S \cup {x})) = 2 * Cardinality(SUBSET S)
  <1> DEFINE A == SUBSET S
             B == {X \cup {x} : X \in A}
             f == [X \in A |-> X \cup {x}]
  <1>1. IsFiniteSet(A)
    BY FS_SUBSET
  <1>2. \A X, Y \in A : X \cup {x} = Y \cup {x} => X = Y
    OBVIOUS
  <1>3. f \in Bijection(A, B)
    <2>1. f \in [A -> B] /\ \A X \in A : f[X] = X \cup {x}
      OBVIOUS
    <2>2. \A Y \in B : \E X \in A : f[X] = Y
      OBVIOUS
    <2> HIDE DEF A, B, f
    <2>3. IsInjective(f)
      BY <1>2, <2>1 DEF IsInjective
    <2>4. QED
      BY <2>1, <2>2, <2>3 DEF Bijection, Injection, Surjection
  <1>4. A \cap B = {}
    OBVIOUS
  <1>5. SUBSET (S \cup {x}) = A \cup B
    <2>1. A \cup B \subseteq SUBSET (S \cup {x})
      OBVIOUS
    <2>2. ASSUME NEW X \in SUBSET (S \cup {x}), x \in X PROVE X \in B
      <3>1. X \ {x} \in A /\ X = (X \ {x}) \cup {x}
        BY <2>2
      <3>2. QED
        BY <3>1
    <2>3. ASSUME NEW X \in SUBSET (S \cup {x}), x \notin X PROVE X \in A
      BY <2>3
    <2> HIDE DEF A, B
    <2>4. QED
      BY <2>1, <2>2, <2>3
  <1> HIDE DEF A, B, f
  <1>6. IsFiniteSet(B) /\ Cardinality(B) = Cardinality(A) /\ Cardinality(A) \in Nat
    BY <1>1, <1>3, FS_Bijection, FS_CardinalityType DEF ExistsBijection
  <1>7. Cardinality(A \cap B) = 0
    BY <1>4, FS_EmptySet
  <1>8. Cardinality(A \cup B) = 2 * Cardinality(A)
    BY <1>1, <1>6, <1>7, FS_Union
  <1>9. QED
    BY <1>5, <1>8 DEF A

LEMMA TwoPowers ==
    /\ 2^0 = 1
    /\ \A n \in Nat : 2^n \in Nat /\ 2^(n + 1) = 2 * 2^n
  <1>1. 2^0 = 1
    <2>1. SUBSET {} = {{}}
      OBVIOUS
    <2>2. Cardinality(SUBSET {}) = 2^0
      BY FS_EmptySet, FS_SUBSET
    <2>3. QED
      BY <2>1, <2>2, FS_Singleton
  <1>2. ASSUME NEW n \in Nat PROVE 2^n \in Nat /\ 2^(n + 1) = 2 * 2^n
    <2> DEFINE S == 1 .. n
               R == S \cup {n + 1}
    <2>1. IsFiniteSet(S) /\ Cardinality(S) = n /\ n + 1 \notin S
      BY FS_Interval
    <2> HIDE DEF S
    <2>2. IsFiniteSet(R) /\ Cardinality(R) = n + 1
      BY <2>1, FS_AddElement
    <2>3. Cardinality(SUBSET S) = 2^n /\ 2^n \in Nat
      BY <2>1, FS_SUBSET, FS_CardinalityType
    <2>4. Cardinality(SUBSET R) = 2 * Cardinality(SUBSET S)
      BY <2>1, SubsetsDouble
    <2> HIDE DEF R
    <2>5. Cardinality(SUBSET R) = 2^(n + 1)
      BY <2>2, FS_SUBSET
    <2>6. QED
      BY <2>3, <2>4, <2>5
  <1>3. QED
    BY <1>1, <1>2

LEMMA PowersRise ==
    ASSUME NEW m \in Nat, NEW n \in Nat, m < n
    PROVE  2^m \in Nat \ {0} /\ 2 * 2^m <= 2^n
  <1> DEFINE P == {k \in Nat : 2^k \in Nat \ {0}}
             T == {d \in Nat : 2 * 2^m <= 2^(m + 1 + d)}
  <1>1. 0 \in P /\ \A k \in Nat : k \in P => k + 1 \in P
    BY TwoPowers
  <1> HIDE DEF P
  <1>2. Nat \subseteq P
    BY <1>1, Induction
  <1>3. \A k \in Nat : 2^k \in Nat \ {0}
    BY <1>2 DEF P
  <1>4. 0 \in T
    BY TwoPowers
  <1>5. ASSUME NEW d \in Nat, d \in T PROVE d + 1 \in T
    <2>1. m + 1 + d \in Nat /\ m + 1 + (d + 1) = m + 1 + d + 1
      OBVIOUS
    <2>2. 2^(m + 1 + d + 1) = 2 * 2^(m + 1 + d) /\ 2^(m + 1 + d) \in Nat /\ 2^m \in Nat
      BY <2>1, TwoPowers
    <2>3. 2 * 2^m <= 2^(m + 1 + (d + 1))
      BY <1>5, <2>1, <2>2
    <2>4. QED
      BY <2>3
  <1> HIDE DEF T
  <1>6. Nat \subseteq T
    BY <1>4, <1>5, Induction
  <1>7. n - m - 1 \in T /\ m + 1 + (n - m - 1) = n
    BY <1>6
  <1>8. QED
    BY <1>3, <1>7 DEF T

\* FloorLog2 is the exponent of the power of two at or below a number.
LEMMA LogIs ==
    ASSUME NEW e \in 0 .. 30, NEW n \in Nat, 2^e <= n, n < 2^(e + 1)
    PROVE  FloorLog2(n) = e
  <1> DEFINE In(x) == 2^x <= n /\ n < 2^(x + 1)
             l == CHOOSE x \in 0 .. 30 : In(x)
  <1>1. l \in 0 .. 30 /\ In(l)
    <2>1. \E x \in 0 .. 30 : In(x)
      OBVIOUS
    <2> HIDE DEF In
    <2>2. QED
      BY <2>1
  <1>2. FloorLog2(n) = l
    BY DEF FloorLog2
  <1> HIDE DEF l
  <1>3. ASSUME NEW x \in Nat, NEW y \in Nat, In(x), x < y PROVE ~In(y)
    <2>1. 2^(x + 1) = 2 * 2^x /\ 2 * 2^x <= 2^y /\ 2^x \in Nat /\ 2^y \in Nat
      BY <1>3, TwoPowers, PowersRise
    <2>2. QED
      BY <1>3, <2>1
  <1>4. ~(l < e) /\ ~(e < l)
    <2>1. In(e)
      OBVIOUS
    <2>2. l \in Nat /\ e \in Nat
      BY <1>1
    <2> HIDE DEF In
    <2>3. QED
      BY <1>1, <1>3, <2>1, <2>2
  <1>5. QED
    BY <1>1, <1>2, <1>4

\* Every number below 2^31 has one.
LEMMA LogType ==
    ASSUME NEW n \in Nat \ {0}, n < 2^31
    PROVE  FloorLog2(n) \in 0 .. 30 /\ 2^FloorLog2(n) <= n /\ n < 2^(FloorLog2(n) + 1)
  <1> DEFINE T == {k \in Nat : k <= 31 /\ n < 2^k => \E e \in Nat : e < k /\ 2^e <= n /\ n < 2^(e + 1)}
  <1>1. 0 \in T
    BY TwoPowers
  <1>2. ASSUME NEW k \in Nat, k \in T PROVE k + 1 \in T
    <2> SUFFICES ASSUME k + 1 <= 31, n < 2^(k + 1)
                 PROVE  \E e \in Nat : e < k + 1 /\ 2^e <= n /\ n < 2^(e + 1)
      OBVIOUS
    <2>1. CASE n < 2^k
      <3>1. PICK e \in Nat : e < k /\ 2^e <= n /\ n < 2^(e + 1)
        BY <1>2, <2>1
      <3>2. QED
        BY <3>1
    <2>2. CASE ~(n < 2^k)
      <3>1. 2^k <= n
        BY <2>2, TwoPowers
      <3>2. QED
        BY <3>1
    <2>3. QED
      BY <2>1, <2>2
  <1> HIDE DEF T
  <1>3. 31 \in T
    BY <1>1, <1>2, Induction
  <1>4. PICK e \in Nat : e < 31 /\ 2^e <= n /\ n < 2^(e + 1)
    BY <1>3 DEF T
  <1>5. e \in 0 .. 30
    BY <1>4
  <1>6. FloorLog2(n) = e
    BY <1>4, <1>5, LogIs
  <1>7. QED
    BY <1>4, <1>5, <1>6

------------------------------------------------------------------------------
(* Generalized indices (gindex.go) *)

LEMMA ConstantsAre ==
    /\ MaxSlot \in Nat /\ Window \in Nat \ {0} /\ ForkSlot \in Nat /\ SummariesLimit \in Nat \ {0}
    /\ ForkSlot % Window = 0 /\ MaxSlot < ForkSlot + SummariesLimit * Window
  <1>1. ForkSlot \in Nat
    BY TimeAssumption DEF ForkSlot
  <1>2. PICK b \in 0 .. 29 : SummariesLimit = 2^b
    BY StateAssumption
  <1>3. SummariesLimit \in Nat \ {0}
    BY <1>2, PowersRise
  <1>4. QED
    BY <1>1, <1>3, TimeAssumption, ProofAssumption DEF ForkSlot, Window

LEMMA LogOf ==
    ASSUME NEW e \in 0 .. 30, NEW i \in 0 .. 2^e - 1
    PROVE  FloorLog2(2^e + i) = e
  <1>1. 2^e \in Nat /\ 2^(e + 1) = 2 * 2^e
    BY TwoPowers
  <1>2. 2^e + i \in Nat /\ 2^e <= 2^e + i /\ 2^e + i < 2^(e + 1)
    BY <1>1
  <1>3. QED
    BY <1>2, LogIs

LEMMA WindowLog ==
    \E a \in 0 .. 29 :
        Window = 2^a /\ \A i \in 0 .. Window - 1 : FloorLog2(Window + i) = a
  <1>1. PICK a \in 0 .. 29 : Window = 2^a
    BY StateAssumption DEF Window
  <1>2. a \in 0 .. 30
    OBVIOUS
  <1>3. \A i \in 0 .. Window - 1 : FloorLog2(Window + i) = a
    BY <1>1, <1>2, LogOf
  <1>4. QED
    BY <1>1, <1>3

LEMMA SmallPowers == 2^1 = 2 /\ 2^2 = 4 /\ 2^3 = 8 /\ 2^4 = 16 /\ 2^5 = 32
  <1>1. 2^(0 + 1) = 2 * 2^0 /\ 2^(1 + 1) = 2 * 2^1 /\ 2^(2 + 1) = 2 * 2^2
        /\ 2^(3 + 1) = 2 * 2^3 /\ 2^(4 + 1) = 2 * 2^4 /\ 2^0 = 1
    BY TwoPowers
  <1>2. 0 + 1 = 1 /\ 1 + 1 = 2 /\ 2 + 1 = 3 /\ 3 + 1 = 4 /\ 4 + 1 = 5
    OBVIOUS
  <1>3. QED
    BY <1>1, <1>2

\* BlockRootsIdxToGIndex computes the index of the path to a block root of the state,
\* 37 being block_roots, and ArrayIdxToGIndex that of a leaf of a historical trie.
THEOREM RootGIndex ==
    /\ \A i \in Int : BlockRootIndex(i) = 37 * Window + i
    /\ \A i \in 0 .. Window - 1 : /\ BlockRootsIdxToGIndex(i) = BlockRootIndex(i)
                                  /\ ArrayIdxToGIndex(1, Window, i, 1) = Window + i
  <1>1. PICK a \in 0 .. 29 :
           Window = 2^a /\ \A i \in 0 .. Window - 1 : FloorLog2(Window + i) = a
    BY WindowLog
  <1>2. Window \in Nat \ {0} /\ 0 \in 0 .. Window - 1 /\ Window + 0 = Window
    BY ConstantsAre
  <1>3. FloorLog2(Window) = a
    BY <1>1, <1>2
  <1>4. FieldOfState(5) = 37
    BY SmallPowers DEF FieldOfState, Below
  <1>5. \A i \in Int : BlockRootIndex(i) = 37 * Window + i
    BY <1>1, <1>3, <1>4 DEF BlockRootIndex, Below, Window
  <1>6. ASSUME NEW i \in 0 .. Window - 1, NEW base \in Nat
        PROVE  ArrayIdxToGIndex(base, Window, i, 1) = (base - 1) * Window + (Window + i)
    <2>1. (Window + i) * 1 = Window + i
      BY <1>2
    <2>2. QED
      BY <1>1, <2>1 DEF ArrayIdxToGIndex
  <1>7. ASSUME NEW i \in 0 .. Window - 1 PROVE BlockRootsIdxToGIndex(i) = BlockRootIndex(i)
    <2>1. BlockRootsIdxToGIndex(i) = (37 - 1) * Window + (Window + i)
      BY <1>6 DEF BlockRootsIdxToGIndex, GIndexStateBlockRoots, Window
    <2>2. QED
      BY <1>2, <1>5, <2>1
  <1>8. ASSUME NEW i \in 0 .. Window - 1 PROVE ArrayIdxToGIndex(1, Window, i, 1) = Window + i
    <2>1. ArrayIdxToGIndex(1, Window, i, 1) = (1 - 1) * Window + (Window + i)
      BY <1>6
    <2>2. QED
      BY <1>2, <2>1
  <1>9. QED
    BY <1>5, <1>7, <1>8

\* HistoricalSummariesIdxToGIndex computes the index of the path to the block root of a
\* historical summary, the first of its two fields.
THEOREM SummaryGIndex ==
    /\ \A k \in Nat : SummaryIndex(k) = 236 * SummariesLimit + 2 * k
    /\ \A k \in 0 .. SummariesLimit - 1 : HistoricalSummariesIdxToGIndex(k) = SummaryIndex(k)
  <1>1. PICK b \in 0 .. 29 : SummariesLimit = 2^b
    BY StateAssumption
  <1> DEFINE L == SummariesLimit
  <1>2. L \in Nat \ {0} /\ 2^(b + 1) = 2 * L
    BY <1>1, ConstantsAre, TwoPowers
  <1>3. FloorLog2(L) = b
    <2>1. b \in 0 .. 30 /\ 0 \in 0 .. 2^b - 1 /\ 2^b + 0 = L
      BY <1>1, <1>2
    <2>2. QED
      BY <2>1, LogOf
  <1>4. FieldOfState(27) = 59 /\ 2^1 = 2
    BY SmallPowers DEF FieldOfState, Below
  <1>5. Below(59, 1, 0) = 118
    BY <1>4 DEF Below
  <1>6. ASSUME NEW k \in Nat PROVE SummaryIndex(k) = 236 * L + 2 * k
    <2>1. Below(118, FloorLog2(SummariesLimit), k) = 118 * L + k
      BY <1>1, <1>3 DEF Below
    <2>2. SummaryIndex(k) = (118 * L + k) * 2 + 0
      BY <1>4, <1>5, <2>1 DEF SummaryIndex, Below
    <2>3. QED
      BY <1>2, <2>2
  <1>7. ASSUME NEW k \in 0 .. L - 1 PROVE HistoricalSummariesIdxToGIndex(k) = SummaryIndex(k)
    <2>1. (L + k) * 2 = 2 * L + 2 * k /\ 2 * k \in 0 .. 2^(b + 1) - 1 /\ b + 1 \in 0 .. 30
      BY <1>2
    <2>2. FloorLog2((L + k) * 2) = b + 1
      BY <1>2, <2>1, LogOf
    <2>3. HistoricalSummariesIdxToGIndex(k) = (118 - 1) * (2 * L) + (2 * L + 2 * k)
      BY <1>2, <2>1, <2>2 DEF HistoricalSummariesIdxToGIndex, ArrayIdxToGIndex,
                              GIndexStateHistoricalSummaries
    <2>4. QED
      BY <1>2, <1>6, <2>3
  <1>8. QED
    BY <1>6, <1>7

\* No index is of a block root and of a summary.
LEMMA IndicesApart ==
    ASSUME NEW i \in 0 .. Window - 1, NEW k \in 0 .. SummariesLimit - 1
    PROVE  BlockRootIndex(i) # SummaryIndex(k)
  <1>1. PICK a \in 0 .. 29 : Window = 2^a
    BY StateAssumption DEF Window
  <1>2. PICK b \in 0 .. 29 : SummariesLimit = 2^b
    BY StateAssumption
  <1> DEFINE L == SummariesLimit
             W == Window
  <1>3. L \in Nat \ {0} /\ W \in Nat \ {0}
    BY ConstantsAre
  <1>4. W <= 4 * L \/ 8 * L <= W
    <2>1. 2^(b + 2) = 4 * L /\ 2^(b + 3) = 8 * L
      <3>1. 2^(b + 1) = 2 * 2^b /\ 2^(b + 1 + 1) = 2 * 2^(b + 1) /\ 2^(b + 2 + 1) = 2 * 2^(b + 2)
        BY TwoPowers
      <3>2. b + 1 + 1 = b + 2 /\ b + 2 + 1 = b + 3
        OBVIOUS
      <3>3. QED
        BY <1>2, <1>3, <3>1, <3>2
    <2>2. \A m, n \in Nat : m <= n => 2^m <= 2^n
      <3>1. \A m, n \in Nat : m < n => 2^m \in Nat /\ 2 * 2^m <= 2^n /\ 2^n \in Nat
        BY PowersRise, TwoPowers
      <3>2. \A m \in Nat : 2^m \in Nat
        BY TwoPowers
      <3>3. QED
        BY <3>1, <3>2
    <2>3. CASE a <= b + 2
      BY <1>1, <2>1, <2>2, <2>3
    <2>4. CASE b + 3 <= a
      BY <1>1, <2>1, <2>2, <2>4
    <2>5. QED
      BY <2>3, <2>4
  <1>5. BlockRootIndex(i) = 37 * W + i /\ SummaryIndex(k) = 236 * L + 2 * k
    BY RootGIndex, SummaryGIndex
  <1>6. QED
    BY <1>3, <1>4, <1>5

------------------------------------------------------------------------------
(* Windows of slots, and the last block up to a slot *)

LEMMA DivisionUnique ==
    ASSUME NEW n \in Nat \ {0}, NEW q \in Nat, NEW r \in 0 .. n - 1
    PROVE  (n * q + r) \div n = q /\ (n * q + r) % n = r
  <1> DEFINE x == n * q + r
             c == x \div n
             e == x % n
  <1>1. n * q \in Nat /\ x \in Nat
    OBVIOUS
  <1>2. c \in Nat /\ e \in Nat /\ x = n * c + e /\ e < n
    BY <1>1, Division
  <1>3. (c < q => n * c + n <= n * q) /\ (q < c => n * q + n <= n * c)
    BY <1>2, Multiples
  <1>4. n * c \in Nat
    BY <1>2
  <1> HIDE DEF c, e
  <1>5. c = q
    <2> DEFINE C == n * c
               Q == n * q
    <2>1. /\ C \in Nat /\ Q \in Nat /\ e \in Nat /\ r \in Nat /\ Q + r = C + e /\ e < n /\ r < n
          /\ (c < q => C + n <= Q) /\ (q < c => Q + n <= C)
      BY <1>1, <1>2, <1>3, <1>4
    <2> HIDE DEF C, Q
    <2>2. ~(c < q) /\ ~(q < c)
      BY <2>1
    <2>3. QED
      BY <1>2, <2>2
  <1>6. e = r
    BY <1>1, <1>2, <1>5
  <1>7. QED
    BY <1>5, <1>6 DEF c, e

LEMMA IndexOf ==
    ASSUME NEW k \in Nat
    PROVE  SlotToHistoricalSummariesIndex(ForkSlot + k * Window) = k
  <1> DEFINE x == ForkSlot + k * Window
  <1>1. ForkSlot \in Nat /\ Window \in Nat \ {0}
    BY ConstantsAre
  <1>2. x - ForkSlot = Window * k + 0 /\ 0 \in 0 .. Window - 1
    BY <1>1
  <1> HIDE DEF x
  <1>3. SlotToHistoricalSummariesIndex(x) = (x - ForkSlot) \div Window
    BY DEF SlotToHistoricalSummariesIndex, ForkSlot, Window
  <1>4. (Window * k + 0) \div Window = k
    BY <1>1, <1>2, DivisionUnique
  <1>5. SlotToHistoricalSummariesIndex(x) = k
    BY <1>2, <1>3, <1>4
  <1>6. QED
    BY <1>5 DEF x

\* A slot of the fork in its window.
LEMMA WindowOf ==
    ASSUME NEW s \in ForkSlot .. MaxSlot
    PROVE  /\ SlotToHistoricalSummariesIndex(s) \in 0 .. SummariesLimit - 1
           /\ SlotToHistoricalSummariesIndex(s) <= s
           /\ HistoricalSummariesStartSlot(s)
                = ForkSlot + SlotToHistoricalSummariesIndex(s) * Window
           /\ SlotToBlockRootsIndex(s) \in 0 .. Window - 1
           /\ s = HistoricalSummariesStartSlot(s) + SlotToBlockRootsIndex(s)
           /\ SlotToHistoricalSummariesIndex(HistoricalSummariesStartSlot(s))
                = SlotToHistoricalSummariesIndex(s)
           /\ HistoricalSummariesStartSlot(s) \in ForkSlot .. s
  <1> DEFINE W == Window
             F == ForkSlot
             k == (s - F) \div W
             r == (s - F) % W
             c == F \div W
  <1>1. /\ W \in Nat \ {0} /\ F \in Nat /\ SummariesLimit \in Nat \ {0} /\ F % W = 0
        /\ MaxSlot \in Nat /\ MaxSlot < F + SummariesLimit * W
    BY ConstantsAre
  <1>2. s \in Nat /\ s - F \in Nat /\ s <= MaxSlot
    BY <1>1
  <1>3. k \in Nat /\ r \in Nat /\ s - F = W * k + r /\ r < W
    BY <1>1, <1>2, Division
  <1>4. c \in Nat /\ F = W * c + (F % W)
    BY <1>1, Division
  <1>5. SlotToHistoricalSummariesIndex(s) = k /\ SlotToBlockRootsIndex(s) = s % W
    BY DEF SlotToHistoricalSummariesIndex, SlotToBlockRootsIndex, ForkSlot, Window
  <1>6. HistoricalSummariesStartSlot(s) = F + k * W
    BY <1>5 DEF HistoricalSummariesStartSlot, ForkSlot, Window
  <1> HIDE DEF k, r, c, W, F
  <1>8. k * W = W * k /\ W * k \in Nat /\ W * c \in Nat /\ W * (c + k) = W * c + W * k
    BY <1>1, <1>3, <1>4, SMTT(20)
  <1>9. F = W * c
    BY <1>1, <1>4, <1>8
  <1>10. s = W * (c + k) + r
    BY <1>1, <1>2, <1>3, <1>8, <1>9
  <1>11. s % W = r
    <2>1. c + k \in Nat /\ r \in 0 .. W - 1
      BY <1>1, <1>3, <1>4
    <2>2. (W * (c + k) + r) % W = r
      BY <1>1, <2>1, DivisionUnique
    <2>3. QED
      BY <1>10, <2>2
  <1>12. SlotToHistoricalSummariesIndex(F + k * W) = k
    BY <1>3, IndexOf DEF F, W
  <1>13. k < SummariesLimit
    <2>1. W * k < SummariesLimit * W
      BY <1>1, <1>2, <1>3, <1>8
    <2>2. SummariesLimit * W = W * SummariesLimit
      BY <1>1
    <2>3. SummariesLimit <= k => W * SummariesLimit <= W * k
      <3>1. SummariesLimit < k => W * SummariesLimit + W <= W * k
        BY <1>1, <1>3, Multiples
      <3>2. W * SummariesLimit \in Nat
        BY <1>1
      <3>3. QED
        BY <1>1, <1>3, <1>8, <3>1, <3>2
    <2>4. W * SummariesLimit \in Nat
      BY <1>1
    <2>5. QED
      BY <1>1, <1>3, <1>8, <2>1, <2>2, <2>3, <2>4
  <1>14. k <= s
    <2>1. k <= W * k
      <3>1. k = 0 \/ 0 < k
        BY <1>3
      <3>2. \A x \in Nat, y \in Nat \ {0} : x <= y * x
        BY SMTT(20)
      <3>3. QED
        BY <1>1, <1>3, <3>2
    <2>2. QED
      BY <1>1, <1>2, <1>3, <1>8, <2>1
  <1>15. F + k * W \in F .. s /\ s = F + k * W + r
    BY <1>1, <1>2, <1>3, <1>8
  <1>16. /\ SlotToHistoricalSummariesIndex(s) \in 0 .. SummariesLimit - 1
         /\ SlotToHistoricalSummariesIndex(s) <= s
         /\ SlotToBlockRootsIndex(s) \in 0 .. Window - 1
    BY <1>1, <1>3, <1>5, <1>11, <1>13, <1>14 DEF W
  <1>17. /\ HistoricalSummariesStartSlot(s) = F + k * W
         /\ SlotToHistoricalSummariesIndex(F + k * W) = k
    BY <1>6, <1>12
  <1>18. QED
    BY <1>5, <1>11, <1>15, <1>16, <1>17 DEF W, F

LEMMA BlocksAre ==
    ASSUME blocks \in Chains
    PROVE  blocks \subseteq 0 .. MaxSlot /\ blocks \subseteq Nat /\ 0 \in blocks
  <1>1. blocks \in SUBSET (0 .. MaxSlot) /\ 0 \in blocks
    BY Zenon DEF Chains
  <1>2. QED
    BY <1>1, ConstantsAre

LEMMA LastBlockIs ==
    ASSUME blocks \in Chains, NEW s \in Nat
    PROVE  /\ LastBlock(s) \in blocks /\ LastBlock(s) <= s
           /\ \A b \in blocks : b <= s => b <= LastBlock(s)
  <1> DEFINE S == {b \in blocks : b <= s}
  <1>1. blocks \subseteq Nat /\ 0 \in blocks
    BY BlocksAre
  <1>2. S \in SUBSET Nat /\ 0 \in S /\ \A x \in S : x <= s
    <2>1. 0 <= s
      OBVIOUS
    <2>2. S \in SUBSET Nat /\ \A x \in S : x <= s
      BY <1>1, Zenon
    <2>3. 0 \in S
      BY <1>1, <2>1, Zenon
    <2>4. QED
      BY <2>2, <2>3
  <1>3. LastBlock(s) = Max(S)
    BY DEF LastBlock
  <1> HIDE DEF S
  <1>4. Max(S) \in S /\ \A x \in S : x <= Max(S)
    BY <1>2, MaxOf
  <1>5. QED
    BY <1>3, <1>4 DEF S

\* The last block up to a slot: one with no block after it.
LEMMA LastBlockUnique ==
    ASSUME blocks \in Chains, NEW s \in Nat, NEW b \in blocks, b <= s,
           (b + 1 .. s) \cap blocks = {}
    PROVE  LastBlock(s) = b
  <1>1. blocks \subseteq Nat
    BY BlocksAre
  <1>2. LastBlock(s) \in blocks /\ LastBlock(s) <= s /\ b <= LastBlock(s)
    BY LastBlockIs
  <1>3. LastBlock(s) \in Nat /\ b \in Nat
    BY <1>1, <1>2
  <1>4. b < LastBlock(s) => LastBlock(s) \in b + 1 .. s
    BY <1>2, <1>3
  <1>5. QED
    BY <1>2, <1>3, <1>4

------------------------------------------------------------------------------
(* What the state has *)

LEMMA IntDivision ==
    \A n \in Nat \ {0}, a \in Int :
        a \div n \in Int /\ a % n \in Nat /\ a = n * (a \div n) + (a % n) /\ a % n < n
  BY SMTT(30)

\* In a window's length of slots each index is of one slot.
LEMMA SlotOfIndex ==
    ASSUME NEW n \in Nat \ {0}, NEW h \in Int,
           NEW s \in h - n .. h - 1, NEW t \in h - n .. h - 1, s % n = t % n
    PROVE  s = t
  <1> DEFINE c == s \div n
             d == t \div n
             r == s % n
  <1>1. c \in Int /\ d \in Int /\ r \in Nat /\ s = n * c + r /\ t = n * d + r
    BY IntDivision
  <1>2. \A x, y \in Int : x < y => n * x + n <= n * y
    <2>1. \A x \in Int, e \in Nat : n * x + n <= n * (x + 1 + e)
      BY SMTT(30)
    <2>2. ASSUME NEW x \in Int, NEW y \in Int, x < y PROVE n * x + n <= n * y
      <3>1. y - x - 1 \in Nat /\ y = x + 1 + (y - x - 1)
        BY <2>2
      <3>2. QED
        BY <2>1, <3>1
    <2>3. QED
      BY <2>2
  <1>3. (c < d => n * c + n <= n * d) /\ (d < c => n * d + n <= n * c)
    BY <1>1, <1>2
  <1>4. n * c \in Int /\ n * d \in Int
    BY <1>1
  <1> HIDE DEF c, d, r
  <1>5. c = d
    <2> DEFINE C == n * c
               D == n * d
    <2>1. C \in Int /\ D \in Int /\ s = C + r /\ t = D + r
          /\ (c < d => C + n <= D) /\ (d < c => D + n <= C)
      BY <1>1, <1>3, <1>4
    <2> HIDE DEF C, D
    <2>2. ~(c < d) /\ ~(d < c)
      BY <1>1, <2>1
    <2>3. QED
      BY <1>1, <2>2
  <1>6. QED
    BY <1>1, <1>5

\* The state has at the index computed for a slot the root of its last block.
LEMMA StateAtRoot ==
    ASSUME NEW h \in Nat, NEW s \in h - Window .. h - 1
    PROVE  StateAt(h, BlockRootsIdxToGIndex(SlotToBlockRootsIndex(s))) = <<LastBlock(s)>>
  <1> DEFINE i == SlotToBlockRootsIndex(s)
             g == BlockRootsIdxToGIndex(i)
  <1>1. Window \in Nat \ {0} /\ s \in Int
    BY ConstantsAre
  <1>2. i \in 0 .. Window - 1 /\ i = s % Window
    BY <1>1, IntDivision DEF SlotToBlockRootsIndex, Window
  <1>3. BlockRoot(h, i) = LastBlock(s)
    <2> DEFINE Is(t) == t % Window = i
               c == CHOOSE t \in h - Window .. h - 1 : Is(t)
    <2>1. Is(s)
      BY <1>2
    <2>2. c \in h - Window .. h - 1 /\ Is(c)
      <3> HIDE DEF Is
      <3>1. QED
        BY <2>1
    <2>3. BlockRoot(h, i) = LastBlock(c)
      BY DEF BlockRoot
    <2> HIDE DEF c, i
    <2>4. c = s
      <3>1. s % Window = c % Window
        BY <1>2, <2>2
      <3> HIDE DEF Is
      <3>2. h \in Int
        OBVIOUS
      <3>3. QED
        BY <1>1, <2>2, <3>1, <3>2, SlotOfIndex
    <2>5. QED
      BY <2>3, <2>4
  <1> HIDE DEF i
  <1>4. g = BlockRootIndex(i)
    BY <1>2, RootGIndex
  <1>5. \A j \in 0 .. Window - 1 : g = BlockRootIndex(j) => j = i
    <2>1. \A j \in 0 .. Window - 1 : BlockRootIndex(j) = 37 * Window + j
      BY RootGIndex
    <2> HIDE DEF g
    <2>2. QED
      BY <1>1, <1>2, <1>4, <2>1
  <1> HIDE DEF g
  <1>6. (CHOOSE j \in 0 .. Window - 1 : g = BlockRootIndex(j)) = i
    BY <1>2, <1>4, <1>5
  <1>7. StateAt(h, g) = <<BlockRoot(h, i)>>
    BY <1>2, <1>4, <1>6 DEF StateAt
  <1>8. QED
    BY <1>3, <1>7 DEF g, i

\* And at the one computed for a historical summary the summary, from the height on
\* where it is made.
LEMMA StateAtSummary ==
    ASSUME NEW h \in Nat, NEW k \in Summaries(h), k < SummariesLimit
    PROVE  StateAt(h, HistoricalSummariesIdxToGIndex(k)) = Summary(k)
  <1> DEFINE g == HistoricalSummariesIdxToGIndex(k)
  <1>1. k \in 0 .. SummariesLimit - 1 /\ \A x \in Summaries(h) : x \in Nat
    BY ConstantsAre DEF Summaries
  <1>2. g = SummaryIndex(k)
    BY <1>1, SummaryGIndex
  <1> HIDE DEF g
  <1>3. ~\E i \in 0 .. Window - 1 : g = BlockRootIndex(i)
    BY <1>1, <1>2, IndicesApart
  <1>4. \A x \in Summaries(h) : g = SummaryIndex(x) => x = k
    <2>1. \A x \in Nat : SummaryIndex(x) = 236 * SummariesLimit + 2 * x
      BY SummaryGIndex
    <2>2. SummariesLimit \in Nat
      BY ConstantsAre
    <2>3. ASSUME NEW x \in Summaries(h), g = SummaryIndex(x) PROVE x = k
      <3>1. x \in Nat /\ k \in Nat
        BY <1>1
      <3>2. SummaryIndex(x) = SummaryIndex(k)
        BY <1>2, <2>3, Zenon
      <3> DEFINE A == 236 * SummariesLimit
      <3>3. SummaryIndex(x) = A + 2 * x /\ SummaryIndex(k) = A + 2 * k
        BY <2>1, <3>1
      <3>4. A \in Nat
        BY <2>2
      <3> HIDE DEF A
      <3>5. A + 2 * x = A + 2 * k
        BY <3>2, <3>3, Zenon
      <3>6. QED
        BY <3>1, <3>4, <3>5
    <2>4. QED
      BY <2>3
  <1>5. (CHOOSE x \in Summaries(h) : g = SummaryIndex(x)) = k
    BY <1>2, <1>4
  <1>6. StateAt(h, g) = Summary(k)
    BY <1>2, <1>3, <1>5 DEF StateAt
  <1>7. QED
    BY <1>6 DEF g

\* A summary has the last block up to each slot of its window.
LEMMA SummaryIs ==
    ASSUME blocks \in Chains, NEW k \in Nat
    PROVE  /\ Summary(k) \in Seq(0 .. MaxSlot) /\ Len(Summary(k)) = Window
           /\ \A i \in 1 .. Window : Summary(k)[i] = LastBlock(ForkSlot + k * Window + i - 1)
  <1>1. ForkSlot \in Nat /\ Window \in Nat \ {0} /\ k * Window \in Nat
    BY ConstantsAre
  <1>2. \A i \in 1 .. Window : ForkSlot + k * Window + i - 1 \in Nat
    BY <1>1
  <1>3. \A i \in 1 .. Window : LastBlock(ForkSlot + k * Window + i - 1) \in 0 .. MaxSlot
    BY <1>2, LastBlockIs, BlocksAre
  <1>4. Summary(k) \in [1 .. Window -> 0 .. MaxSlot]
    BY <1>3 DEF Summary
  <1>5. \A i \in 1 .. Window : Summary(k)[i] = LastBlock(ForkSlot + k * Window + i - 1)
    BY DEF Summary
  <1>6. Summary(k) \in Seq(0 .. MaxSlot) /\ Len(Summary(k)) = Window
    <2> DEFINE S == 0 .. MaxSlot
    <2>1. Summary(k) \in [1 .. Window -> S] /\ Window \in Nat
      BY <1>1, <1>4
    <2> HIDE DEF S
    <2>2. Summary(k) \in Seq(S) /\ Len(Summary(k)) = Window
      BY <2>1
    <2>3. QED
      BY <2>2 DEF S
  <1>7. QED
    BY <1>5, <1>6

------------------------------------------------------------------------------
(* The index of a tree offset proof (treeoffset.go) *)

LEMMA HalfDivision ==
    ASSUME NEW g \in Nat, NEW p \in Nat \ {0}
    PROVE  g \div (2 * p) = (g \div p) \div 2
  <1> DEFINE c == g \div p
             r == g % p
             d == c \div 2
             b == c % 2
  <1>1. c \in Nat /\ r \in Nat /\ g = p * c + r /\ r < p
    BY Division
  <1>2. d \in Nat /\ b \in {0, 1} /\ c = 2 * d + b
    BY <1>1
  <1> HIDE DEF c, r, d, b
  <1>3. p * c = (2 * p) * d + p * b
    BY <1>1, <1>2, SMTT(20)
  <1>4. p * b + r \in 0 .. 2 * p - 1
    BY <1>1, <1>2
  <1>5. g = (2 * p) * d + (p * b + r)
    <2>1. p * b \in Nat /\ (2 * p) * d \in Nat /\ p * c \in Nat
      BY <1>1, <1>2
    <2>2. QED
      BY <1>1, <1>3, <2>1
  <1>6. 2 * p \in Nat \ {0}
    OBVIOUS
  <1>7. ((2 * p) * d + (p * b + r)) \div (2 * p) = d
    BY <1>2, <1>4, <1>6, DivisionUnique
  <1>8. g \div (2 * p) = d
    BY <1>5, <1>7
  <1>9. QED
    BY <1>8 DEF d, c

\* The first j steps of the path to g, as a number.
Ahead(g, j) == g \div 2^(Depth(g) - j)

LEMMA PathSteps ==
    ASSUME NEW g \in Nat \ {0}, g < 2^30
    PROVE  /\ Depth(g) \in 0 .. 30 /\ Ahead(g, 0) = 1 /\ Ahead(g, Depth(g)) = g
           /\ \A j \in 1 .. Depth(g) :
                 /\ Bit(g, j) \in {0, 1} /\ Ahead(g, j - 1) \in Nat
                 /\ Ahead(g, j) = 2 * Ahead(g, j - 1) + Bit(g, j)
           /\ Depth(g) > 0 => Bit(g, Depth(g)) = g % 2
  <1> DEFINE D == Depth(g)
  <1>1. g < 2^31
    <2>1. 2^(30 + 1) = 2 * 2^30 /\ 2^30 \in Nat /\ 30 + 1 = 31
      BY TwoPowers
    <2>2. QED
      BY <2>1
  <1>2. D \in 0 .. 30 /\ 2^D <= g /\ g < 2^(D + 1)
    BY <1>1, LogType DEF Depth
  <1>3. \A m \in Nat : 2^m \in Nat \ {0}
    <2>1. \A m \in Nat : 2^m \in Nat \ {0}
      <3>1. \A m \in Nat : m < m + 1 /\ m + 1 \in Nat
        OBVIOUS
      <3>2. QED
        BY <3>1, PowersRise
    <2>2. QED
      BY <2>1
  <1>4. Ahead(g, 0) = 1
    <2>1. 2^(D + 1) = 2 * 2^D /\ 2^D \in Nat \ {0} /\ D - 0 = D
      BY <1>2, <1>3, TwoPowers
    <2>2. g - 2^D \in 0 .. 2^D - 1 /\ 2^D * 1 + (g - 2^D) = g
      BY <1>2, <2>1
    <2>3. (2^D * 1 + (g - 2^D)) \div 2^D = 1
      BY <2>1, <2>2, DivisionUnique
    <2>4. QED
      BY <2>1, <2>2, <2>3 DEF Ahead
  <1>5. \A x \in Nat : x \div 1 = x
    <2> SUFFICES ASSUME NEW x \in Nat PROVE x \div 1 = x
      OBVIOUS
    <2>1. 1 \in Nat \ {0} /\ 0 \in 0 .. 1 - 1 /\ 1 * x + 0 = x
      OBVIOUS
    <2>2. (1 * x + 0) \div 1 = x
      BY <2>1, DivisionUnique
    <2>3. QED
      BY <2>1, <2>2
  <1>6. D - D = 0 /\ 2^(D - D) = 1
    <2>1. D - D = 0
      BY <1>2
    <2>2. QED
      BY <2>1, TwoPowers
  <1>7. Ahead(g, D) = g
    BY <1>5, <1>6 DEF Ahead
  <1>8. ASSUME NEW j \in 1 .. D
        PROVE  /\ Bit(g, j) \in {0, 1} /\ Ahead(g, j - 1) \in Nat
               /\ Ahead(g, j) = 2 * Ahead(g, j - 1) + Bit(g, j)
    <2> DEFINE m == D - j
               p == 2^m
    <2>1. m \in Nat /\ D - (j - 1) = m + 1 /\ p \in Nat \ {0} /\ 2^(m + 1) = 2 * p
      BY <1>2, <1>3, TwoPowers
    <2>2. Ahead(g, j) = g \div p /\ Bit(g, j) = (g \div p) % 2 /\ Ahead(g, j - 1) = g \div (2 * p)
      BY <2>1 DEF Ahead, Bit
    <2> HIDE DEF m, p
    <2>3. g \div (2 * p) = (g \div p) \div 2 /\ g \div p \in Nat
      BY <2>1, HalfDivision, Division
    <2>4. \A x \in Nat : x % 2 \in {0, 1} /\ x \div 2 \in Nat /\ x = 2 * (x \div 2) + (x % 2)
      <3> SUFFICES ASSUME NEW x \in Nat
                   PROVE  x % 2 \in {0, 1} /\ x \div 2 \in Nat /\ x = 2 * (x \div 2) + (x % 2)
        OBVIOUS
      <3> DEFINE y == x % 2
      <3>1. 2 \in Nat \ {0}
        OBVIOUS
      <3>2. x \div 2 \in Nat /\ y \in Nat /\ x = 2 * (x \div 2) + y /\ y < 2
        BY <3>1, Division
      <3> HIDE DEF y
      <3>3. y \in {0, 1}
        BY <3>2
      <3>4. QED
        BY <3>2, <3>3 DEF y
    <2>5. QED
      BY <2>2, <2>3, <2>4
  <1>9. Bit(g, D) = g % 2
    BY <1>5, <1>6 DEF Bit
  <1>10. QED
    BY <1>2, <1>4, <1>7, <1>8, <1>9

\* GetGIndex gives back the index of a right child from the offsets of its tree offset
\* proof: a step goes right where the offset is 1.
THEOREM GIndexOfOffsets ==
    ASSUME NEW g \in Nat, g % 2 = 1, g < 2^30
    PROVE  GetGIndex(OffsetsOf(g)) = g
  <1> DEFINE D == Depth(g)
             o == OffsetsOf(g)
             F(f) == f = [j \in 0 .. Len(o) |->
                            IF j = 0 THEN 0 ELSE 2 * f[j - 1] + (IF o[j] = 1 THEN 1 ELSE 0)]
  <1>1. g \in Nat \ {0}
    OBVIOUS
  <1>2. /\ D \in 0 .. 30 /\ Ahead(g, 0) = 1 /\ Ahead(g, D) = g
        /\ \A j \in 1 .. D : /\ Bit(g, j) \in {0, 1} /\ Ahead(g, j - 1) \in Nat
                             /\ Ahead(g, j) = 2 * Ahead(g, j - 1) + Bit(g, j)
        /\ D > 0 => Bit(g, D) = 1
    BY <1>1, PathSteps
  <1>3. o = [j \in 1 .. D |-> IF Bit(g, j) = 1 THEN 1 ELSE D - j + 1]
    BY DEF OffsetsOf
  <1> HIDE DEF D, o
  <1>4. Len(o) = D
    <2>1. \A j \in 1 .. D : (IF Bit(g, j) = 1 THEN 1 ELSE D - j + 1) \in Int
      BY <1>2
    <2>2. o \in [1 .. D -> Int] /\ D \in Nat
      BY <1>2, <1>3, <2>1
    <2>3. QED
      BY <2>2, LenProperties
  <1>5. \A j \in 1 .. D : (IF o[j] = 1 THEN 1 ELSE 0) = Bit(g, j)
    <2> SUFFICES ASSUME NEW j \in 1 .. D PROVE (IF o[j] = 1 THEN 1 ELSE 0) = Bit(g, j)
      OBVIOUS
    <2>1. o[j] = IF Bit(g, j) = 1 THEN 1 ELSE D - j + 1
      BY <1>3
    <2>2. j = D => Bit(g, j) = 1
      BY <1>2
    <2>3. QED
      BY <1>2, <2>1, <2>2
  <1>6. \A j \in 0 .. D : 2^j \in Nat /\ (j > 0 => 2^j = 2 * 2^(j - 1))
    <2> SUFFICES ASSUME NEW j \in 0 .. D PROVE 2^j \in Nat /\ (j > 0 => 2^j = 2 * 2^(j - 1))
      OBVIOUS
    <2>1. j \in Nat /\ (j > 0 => j - 1 \in Nat /\ (j - 1) + 1 = j)
      BY <1>2
    <2>2. QED
      BY <2>1, TwoPowers
  <1> DEFINE v == [j \in 0 .. D |-> Ahead(g, j) - 2^j]
  <1>7. F(v)
    <2>1. ASSUME NEW j \in 0 .. D
          PROVE  v[j] = IF j = 0 THEN 0 ELSE 2 * v[j - 1] + (IF o[j] = 1 THEN 1 ELSE 0)
      <3>1. CASE j = 0
        BY <1>2, <3>1, TwoPowers
      <3>2. CASE j # 0
        <4>1. j \in 1 .. D /\ j - 1 \in 0 .. D
          BY <1>2, <3>2
        <4>2. v[j] = Ahead(g, j) - 2^j /\ v[j - 1] = Ahead(g, j - 1) - 2^(j - 1)
          BY <4>1
        <4>3. /\ Ahead(g, j - 1) \in Nat /\ Bit(g, j) \in {0, 1}
              /\ Ahead(g, j) = 2 * Ahead(g, j - 1) + Bit(g, j)
              /\ (IF o[j] = 1 THEN 1 ELSE 0) = Bit(g, j)
          BY <1>2, <1>5, <4>1
        <4>4. 2^j = 2 * 2^(j - 1) /\ 2^(j - 1) \in Nat
          <5>1. \A i \in 0 .. D : 2^i \in Nat
            BY <1>6
          <5>2. j > 0
            BY <4>1
          <5>3. QED
            BY <1>6, <4>1, <5>1, <5>2
        <4> HIDE DEF v
        <4>5. QED
          BY <3>2, <4>2, <4>3, <4>4
      <3>3. QED
        BY <3>1, <3>2
    <2>2. QED
      BY <1>4, <2>1
  <1> DEFINE c == CHOOSE f : F(f)
  <1>8. F(c)
    <2> HIDE DEF v
    <2>1. \E f : F(f)
      BY <1>7
    <2>2. QED
      BY <2>1
  <1>9. GetGIndex(o) = 2^Len(o) + c[Len(o)]
    BY DEF GetGIndex
  <1> DEFINE C == c
  <1>10. C = [j \in 0 .. D |-> IF j = 0 THEN 0 ELSE 2 * C[j - 1] + (IF o[j] = 1 THEN 1 ELSE 0)]
    BY <1>4, <1>8
  <1> HIDE DEF C, c, v
  <1> DEFINE T == {j \in Nat : j <= D => C[j] = v[j]}
  <1>11. v = [j \in 0 .. D |-> IF j = 0 THEN 0 ELSE 2 * v[j - 1] + (IF o[j] = 1 THEN 1 ELSE 0)]
    BY <1>4, <1>7
  <1>12. 0 \in T
    BY <1>2, <1>10, <1>11
  <1>13. ASSUME NEW j \in Nat, j \in T PROVE j + 1 \in T
    <2> SUFFICES ASSUME j + 1 <= D PROVE C[j + 1] = v[j + 1]
      OBVIOUS
    <2>1. j + 1 \in 0 .. D /\ j + 1 # 0 /\ (j + 1) - 1 = j /\ j <= D
      BY <1>2
    <2>2. C[j] = v[j]
      BY <1>13, <2>1
    <2>3. C[j + 1] = 2 * C[j] + (IF o[j + 1] = 1 THEN 1 ELSE 0)
      BY <1>10, <2>1
    <2>4. v[j + 1] = 2 * v[j] + (IF o[j + 1] = 1 THEN 1 ELSE 0)
      BY <1>11, <2>1
    <2>5. QED
      BY <2>2, <2>3, <2>4
  <1> HIDE DEF T
  <1>14. D \in T /\ D \in 0 .. D
    BY <1>2, <1>12, <1>13, Induction
  <1>15. C[D] = g - 2^D /\ 2^D \in Nat
    BY <1>2, <1>6, <1>14 DEF T, v
  <1>16. GetGIndex(o) = 2^D + C[D]
    BY <1>4, <1>9 DEF C
  <1>17. QED
    BY <1>15, <1>16 DEF o

------------------------------------------------------------------------------
(* The receipts of the messages (getReceiptProofs) *)

WithKey(keys, tx) == IF Contains(keys, tx) THEN keys ELSE Append(keys, tx)

\* The keys of the messages at the places of s, taken in order.
Gathers(l, s, f) ==
    f = [t \in SUBSET s |->
           IF t = {} THEN <<>> ELSE WithKey(f[t \ {Max(t)}], l[Max(t)])]

LEMMA MaxOfInterval ==
    ASSUME NEW m \in Nat, NEW t \in SUBSET (1 .. m + 1)
    PROVE  /\ m + 1 \in t => Max(t) = m + 1
           /\ t # {} => Max(t) \in t
           /\ m + 1 \notin t => t \in SUBSET (1 .. m)
           /\ t \ {m + 1} \in SUBSET (1 .. m)
  <1>1. t \in SUBSET Nat /\ m + 1 \in Nat /\ \A x \in t : x <= m + 1
    OBVIOUS
  <1>2. t # {} => Max(t) \in t /\ \A x \in t : x <= Max(t)
    BY <1>1, MaxOf
  <1>3. m + 1 \in t => Max(t) = m + 1
    <2> SUFFICES ASSUME m + 1 \in t PROVE Max(t) = m + 1
      OBVIOUS
    <2>1. Max(t) \in t /\ m + 1 <= Max(t)
      BY <1>2
    <2>2. Max(t) \in Nat /\ Max(t) <= m + 1
      BY <1>1, <2>1
    <2>3. QED
      BY <2>1, <2>2
  <1>4. \A x \in t : x # m + 1 => x \in 1 .. m
    OBVIOUS
  <1>5. QED
    BY <1>2, <1>3, <1>4

LEMMA GatheringExists ==
    ASSUME NEW l, NEW n \in Nat
    PROVE  \E f : Gathers(l, 1 .. n, f)
  <1> DEFINE T == {m \in Nat : \E f : Gathers(l, 1 .. m, f)}
  <1>1. 0 \in T
    <2> DEFINE f == [t \in SUBSET (1 .. 0) |-> <<>>]
    <2>1. \A t \in SUBSET (1 .. 0) : t = {}
      OBVIOUS
    <2>2. f = [t \in SUBSET (1 .. 0) |->
                 IF t = {} THEN <<>> ELSE WithKey(f[t \ {Max(t)}], l[Max(t)])]
      BY <2>1, Zenon
    <2> HIDE DEF f
    <2>3. Gathers(l, 1 .. 0, f)
      BY <2>2 DEF Gathers
    <2>4. QED
      BY <2>3
  <1>2. ASSUME NEW m \in Nat, m \in T PROVE m + 1 \in T
    <2>1. PICK f : Gathers(l, 1 .. m, f)
      BY <1>2
    <2> DEFINE S == SUBSET (1 .. m + 1)
               R == SUBSET (1 .. m)
               h == [t \in S |-> IF m + 1 \in t THEN WithKey(f[t \ {m + 1}], l[m + 1]) ELSE f[t]]
    <2>2. \A t \in R : t \in S /\ m + 1 \notin t /\ t \subseteq 1 .. m
      <3>1. 1 .. m \subseteq 1 .. m + 1 /\ m + 1 \notin 1 .. m
        OBVIOUS
      <3>2. QED
        BY <3>1
    <2>3. \A t \in R : f[t] = IF t = {} THEN <<>> ELSE WithKey(f[t \ {Max(t)}], l[Max(t)])
      BY <2>1, Zenon DEF Gathers
    <2>4. \A t \in R : h[t] = f[t]
      BY <2>2, Zenon
    <2>5. \A t \in S : h[t] = IF m + 1 \in t THEN WithKey(f[t \ {m + 1}], l[m + 1]) ELSE f[t]
      OBVIOUS
    <2>6. ASSUME NEW t \in S
          PROVE  h[t] = IF t = {} THEN <<>> ELSE WithKey(h[t \ {Max(t)}], l[Max(t)])
      <3>1. CASE m + 1 \in t
        <4>1. Max(t) = m + 1 /\ t \ {m + 1} \in R /\ t # {}
          BY <3>1, MaxOfInterval
        <4> HIDE DEF h, S, R
        <4>2. QED
          BY <2>4, <2>5, <3>1, <4>1
      <3>2. CASE m + 1 \notin t
        <4>1. t \in R /\ t \ {Max(t)} \in R
          BY <3>2, MaxOfInterval
        <4> HIDE DEF h, S, R
        <4>2. QED
          BY <2>3, <2>4, <4>1
      <3>3. QED
        BY <3>1, <3>2
    <2>7. h = [t \in SUBSET (1 .. m + 1) |->
                 IF t = {} THEN <<>> ELSE WithKey(h[t \ {Max(t)}], l[Max(t)])]
      <3>1. h = [t \in S |-> h[t]]
        OBVIOUS
      <3> HIDE DEF h
      <3>2. QED
        BY <2>6, <3>1, Zenon
    <2> HIDE DEF h
    <2>8. Gathers(l, 1 .. m + 1, h)
      BY <2>7 DEF Gathers
    <2>9. QED
      BY <2>8
  <1> HIDE DEF T
  <1>3. n \in T
    BY <1>1, <1>2, Induction
  <1>4. QED
    BY <1>3 DEF T

\* Keys takes the messages one after the other.
LEMMA KeysAre ==
    ASSUME NEW l, NEW n \in Nat, DOMAIN l = 1 .. n
    PROVE  \E f : Gathers(l, 1 .. n, f) /\ Keys(l) = f[1 .. n]
  <1> DEFINE f == CHOOSE f : Gathers(l, 1 .. n, f)
  <1>1. Gathers(l, 1 .. n, f)
    BY GatheringExists
  <1>2. Keys(l) = f[1 .. n]
    BY DEF Keys, FoldLeft, MapThenFoldSet, Gathers, WithKey
  <1>3. QED
    BY <1>1, <1>2

\* A key that is there is not added again.
LEMMA WithKeyIs ==
    ASSUME NEW V, NEW k \in Seq(V), NEW x \in V, IsInjective(k)
    PROVE  /\ WithKey(k, x) \in Seq(V) /\ IsInjective(WithKey(k, x))
           /\ ToSet(WithKey(k, x)) = ToSet(k) \cup {x}
  <1>1. Len(k) \in Nat /\ DOMAIN k = 1 .. Len(k)
    BY LenProperties
  <1>2. CASE Contains(k, x)
    <2>1. x \in ToSet(k)
      BY <1>1, <1>2 DEF Contains, ToSet
    <2>2. WithKey(k, x) = k
      BY <1>2 DEF WithKey
    <2>3. QED
      BY <2>1, <2>2
  <1>3. CASE ~Contains(k, x)
    <2> DEFINE a == Append(k, x)
               n == Len(k)
    <2>1. WithKey(k, x) = a
      BY <1>3 DEF WithKey
    <2>2. a \in Seq(V) /\ Len(a) = n + 1 /\ a[n + 1] = x /\ \A i \in 1 .. n : a[i] = k[i]
      BY AppendProperties
    <2>3. DOMAIN a = 1 .. n + 1
      BY <2>2, LenProperties
    <2> HIDE DEF a, n
    <2>4. n \in Nat /\ DOMAIN k = 1 .. n /\ \A i \in 1 .. n : k[i] # x
      BY <1>1, <1>3 DEF n, Contains
    <2>5. \A i \in 1 .. n + 1 : i \in 1 .. n \/ i = n + 1
      BY <2>4
    <2>6. IsInjective(a)
      BY <2>2, <2>3, <2>4, <2>5 DEF IsInjective
    <2>7. ToSet(a) = ToSet(k) \cup {x}
      <3>1. n + 1 \in 1 .. n + 1 /\ 1 .. n \subseteq 1 .. n + 1
        BY <2>4
      <3>2. QED
        BY <2>2, <2>3, <2>4, <2>5, <3>1 DEF ToSet
    <2>8. QED
      BY <2>1, <2>2, <2>6, <2>7
  <1>4. QED
    BY <1>2, <1>3

\* The keys are the transactions of the messages, each once.
LEMMA KeysRight ==
    ASSUME NEW V, NEW l \in Seq(V)
    PROVE  Keys(l) \in Seq(V) /\ IsInjective(Keys(l)) /\ ToSet(Keys(l)) = ToSet(l)
  <1> DEFINE n == Len(l)
  <1>1. n \in Nat /\ DOMAIN l = 1 .. n /\ \A i \in 1 .. n : l[i] \in V
    BY LenProperties, ElementOfSeq
  <1> HIDE DEF n
  <1>2. PICK f : Gathers(l, 1 .. n, f) /\ Keys(l) = f[1 .. n]
    BY <1>1, KeysAre
  <1> DEFINE Right(m) == /\ f[1 .. m] \in Seq(V) /\ IsInjective(f[1 .. m])
                         /\ ToSet(f[1 .. m]) = {l[i] : i \in 1 .. m}
             T == {m \in Nat : m <= n => Right(m)}
  <1>3. \A t \in SUBSET (1 .. n) :
            f[t] = IF t = {} THEN <<>> ELSE WithKey(f[t \ {Max(t)}], l[Max(t)])
    BY <1>2, Zenon DEF Gathers
  <1>4. 0 \in T
    <2>1. 1 .. 0 = {} /\ {} \in SUBSET (1 .. n)
      OBVIOUS
    <2>2. f[1 .. 0] = <<>>
      BY <1>3, <2>1
    <2>3. <<>> \in Seq(V) /\ DOMAIN <<>> = {}
      OBVIOUS
    <2>4. IsInjective(<<>>) /\ ToSet(<<>>) = {}
      BY <2>3 DEF IsInjective, ToSet
    <2>5. Right(0)
      BY <2>1, <2>2, <2>3, <2>4
    <2>6. QED
      BY <2>5
  <1>5. ASSUME NEW m \in Nat, m \in T PROVE m + 1 \in T
    <2> SUFFICES ASSUME m + 1 <= n PROVE Right(m + 1)
      OBVIOUS
    <2>1. Right(m) /\ m + 1 \in 1 .. n
      BY <1>1, <1>5
    <2> DEFINE t == 1 .. m + 1
    <2>2. t \in SUBSET (1 .. n) /\ m + 1 \in t /\ t # {} /\ t \ {m + 1} = 1 .. m
      BY <1>1
    <2>3. Max(t) = m + 1
      BY <2>2, MaxOfInterval
    <2>4. t = (1 .. m) \cup {m + 1}
      OBVIOUS
    <2> HIDE DEF t
    <2>5. f[t] = WithKey(f[1 .. m], l[m + 1])
      BY <1>3, <2>2, <2>3
    <2>6. l[m + 1] \in V
      BY <1>1, <2>1
    <2>7. /\ f[t] \in Seq(V) /\ IsInjective(f[t])
          /\ ToSet(f[t]) = {l[i] : i \in 1 .. m} \cup {l[m + 1]}
      <3> DEFINE k == f[1 .. m]
                 x == l[m + 1]
      <3>1. k \in Seq(V) /\ IsInjective(k) /\ ToSet(k) = {l[i] : i \in 1 .. m}
        BY <2>1
      <3>2. f[t] = WithKey(k, x) /\ x \in V /\ x = l[m + 1]
        BY <2>5, <2>6
      <3> HIDE DEF k, x, Right, T
      <3>3. \A y \in Seq(V), z \in V : IsInjective(y) =>
               /\ WithKey(y, z) \in Seq(V) /\ IsInjective(WithKey(y, z))
               /\ ToSet(WithKey(y, z)) = ToSet(y) \cup {z}
        BY WithKeyIs
      <3>4. k \in Seq(V) /\ IsInjective(k) /\ x \in V
        BY <3>1, <3>2, Zenon
      <3>5. WithKey(k, x) \in Seq(V) /\ IsInjective(WithKey(k, x))
        BY <3>3, <3>4
      <3>6. ToSet(WithKey(k, x)) = ToSet(k) \cup {x}
        BY <3>3, <3>4
      <3>7. QED
        BY <3>1, <3>2, <3>5, <3>6
    <2>8. {l[i] : i \in 1 .. m} \cup {l[m + 1]} = {l[i] : i \in t}
      BY <2>4, Zenon
    <2>9. QED
      BY <2>7, <2>8 DEF t
  <1> HIDE DEF T
  <1>6. n \in T /\ n <= n
    BY <1>1, <1>4, <1>5, Induction
  <1>7. Right(n)
    <2> HIDE DEF Right
    <2>1. QED
      BY <1>6 DEF T
  <1>8. QED
    BY <1>1, <1>2, <1>7 DEF ToSet

------------------------------------------------------------------------------
(* The inductive invariants *)

Root == (0 .. MaxSlot) \cup {NilRoot}

Proving == pc \in {"root", "summary"}
Building == pc \in {"trie", "prev", "fill"}

\* A window being built: its roots are of slots, and the slot asked for is where
\* they say.
BuildInv ==
    /\ prev \in Root /\ roots \in Seq(Root)
    /\ pc # "fill" => prev = NilRoot /\ roots = <<>>
    /\ pc = "prev" => ti \in StartSlot - Window .. StartSlot - 1
    /\ pc = "fill" => ti \in StartSlot .. StartSlot + Window /\ Len(roots) = ti - StartSlot

\* A request that is being worked on has no result.  It is of a header of the chain
\* or of an orphaned block, and how its block is proved agrees with its age.
ReqInv ==
    /\ pc # "idle" => result = Nothing
    /\ faults = 0 => whole
    /\ Proving \/ Building => req.slot \in Heights
    /\ Proving \/ (Building /\ req.root # NilRoot) =>
          req.root \in {req.slot, Orphaned(req.slot)}
    /\ pc = "root" => height - req.slot \in 1 .. Window - 1
    /\ pc = "summary" => Old(req.slot)
    /\ Building /\ req.root # NilRoot =>
          Old(req.slot) /\ pi = Summary(SlotToHistoricalSummariesIndex(req.slot))

NoBlocks(from, to) == (from .. to) \cap blocks = {}

\* Without failed calls the root before the window is the last one, if the search
\* found one at all, and each root is the last up to its slot; or nil, as long as
\* there has been no block since where the search ended.
RootsInv ==
    faults = 0 =>
        /\ pc = "prev" => NoBlocks(ti + 1, StartSlot - 1)
        /\ pc = "fill" =>
              /\ IF prev = NilRoot THEN NoBlocks(StartSlot - Window + 1, StartSlot - 1)
                 ELSE prev \in blocks /\ prev < StartSlot /\ NoBlocks(prev + 1, StartSlot - 1)
              /\ \A i \in 1 .. Len(roots) :
                    \/ roots[i] = LastBlock(StartSlot + i - 1)
                    \/ roots[i] = NilRoot /\ prev = NilRoot /\ NoBlocks(StartSlot, StartSlot + i - 1)

BlockInv == TypeOK /\ BuildInv /\ ReqInv

------------------------------------------------------------------------------
(* Facts the steps share *)

LEMMA HeightIs ==
    ASSUME blocks \in Chains, height \in Heights
    PROVE  /\ height \in Nat /\ height \in ForkSlot .. MaxSlot /\ ForkSlot \in Nat
           /\ MaxSlot \in Nat /\ Heights \subseteq ForkSlot .. MaxSlot
           /\ NoHeader \in Header /\ NilRoot \in Int
           /\ \A s \in 0 .. MaxSlot : s # NilRoot /\ Orphaned(s) # NilRoot
  <1>1. blocks \subseteq 0 .. MaxSlot
    BY BlocksAre
  <1>2. ForkSlot \in Nat /\ MaxSlot \in Nat
    BY ConstantsAre
  <1>3. Heights \subseteq ForkSlot .. MaxSlot
    <2> SUFFICES ASSUME NEW s \in Heights PROVE s \in ForkSlot .. MaxSlot
      BY Zenon
    <2>1. s \in blocks /\ s >= ForkSlot
      BY DEF Heights
    <2>2. QED
      BY <1>1, <1>2, <2>1
  <1>4. height \in ForkSlot .. MaxSlot
    BY <1>3
  <1>5. NoHeader \in Header /\ NilRoot \in Int
    BY <1>2, <1>4 DEF NoHeader, Header, NilRoot
  <1>6. \A s \in 0 .. MaxSlot : s # NilRoot /\ Orphaned(s) # NilRoot
    BY <1>2 DEF NilRoot, Orphaned
  <1>7. QED
    BY <1>2, <1>3, <1>4, <1>5, <1>6

LEMMA RequestIs ==
    ASSUME req \in Header
    PROVE  /\ req.slot \in ForkSlot .. MaxSlot /\ req.slot \in Nat
           /\ StartSlot \in ForkSlot .. req.slot
           /\ StartSlot \in 0 .. MaxSlot /\ StartSlot \in Nat /\ Window \in Nat \ {0}
           /\ StartSlot = ForkSlot + SlotToHistoricalSummariesIndex(req.slot) * Window
           /\ SlotToHistoricalSummariesIndex(StartSlot) = SlotToHistoricalSummariesIndex(req.slot)
           /\ SlotToHistoricalSummariesIndex(req.slot) \in Nat
           /\ SlotToBlockRootsIndex(req.slot) \in 0 .. Window - 1
           /\ req.slot = StartSlot + SlotToBlockRootsIndex(req.slot)
  <1>1. req.slot \in ForkSlot .. MaxSlot
    BY DEF Header
  <1> DEFINE s == req.slot
             S == StartSlot
  <1>2. ForkSlot \in Nat /\ MaxSlot \in Nat /\ Window \in Nat \ {0} /\ SummariesLimit \in Nat
    BY ConstantsAre
  <1>3. S = HistoricalSummariesStartSlot(s)
    BY DEF StartSlot
  <1> HIDE DEF s, S
  <1>4. /\ SlotToHistoricalSummariesIndex(s) \in 0 .. SummariesLimit - 1
        /\ S = ForkSlot + SlotToHistoricalSummariesIndex(s) * Window
        /\ SlotToBlockRootsIndex(s) \in 0 .. Window - 1
        /\ s = S + SlotToBlockRootsIndex(s)
        /\ SlotToHistoricalSummariesIndex(S) = SlotToHistoricalSummariesIndex(s)
        /\ S \in ForkSlot .. s
    BY <1>1, <1>3, WindowOf DEF s
  <1>5. s \in ForkSlot .. MaxSlot
    BY <1>1 DEF s
  <1>6. S \in 0 .. MaxSlot /\ S \in Nat /\ s \in Nat
    BY <1>2, <1>4, <1>5
  <1>7. SlotToHistoricalSummariesIndex(s) \in Nat
    BY <1>2, <1>4
  <1>8. QED
    BY <1>2, <1>4, <1>5, <1>6, <1>7 DEF s, S

\* The summary of an old slot is there.
LEMMA OldIsSummedUp ==
    ASSUME blocks \in Chains, height \in Heights, NEW s \in ForkSlot .. MaxSlot, Old(s)
    PROVE  StateAt(height, HistoricalSummariesIdxToGIndex(SlotToHistoricalSummariesIndex(s)))
             = Summary(SlotToHistoricalSummariesIndex(s))
  <1> DEFINE k == SlotToHistoricalSummariesIndex(s)
  <1>1. /\ height \in Nat /\ ForkSlot \in Nat /\ MaxSlot \in Nat
        /\ Window \in Nat \ {0} /\ SummariesLimit \in Nat
    BY HeightIs, ConstantsAre
  <1>2. /\ k \in 0 .. SummariesLimit - 1 /\ k <= s
        /\ HistoricalSummariesStartSlot(s) = ForkSlot + k * Window
        /\ HistoricalSummariesStartSlot(s) \in ForkSlot .. s
    BY WindowOf
  <1> HIDE DEF k
  <1>3. k \in Nat /\ k \in 0 .. MaxSlot /\ k < SummariesLimit
    BY <1>1, <1>2
  <1>4. ForkSlot + (k + 1) * Window <= height
    <2> DEFINE W == Window
               p == k * W
    <2>1. (k + 1) * W = p + W /\ p \in Nat
      BY <1>1, <1>3, SMTT(20)
    <2>2. ForkSlot + p <= s /\ height - s >= W /\ W \in Nat
      BY <1>1, <1>2 DEF Old
    <2> HIDE DEF W, p
    <2>3. ForkSlot + (p + W) <= height
      BY <1>1, <2>1, <2>2
    <2>4. QED
      BY <2>1, <2>3 DEF W
  <1>5. k \in Summaries(height)
    BY <1>3, <1>4 DEF Summaries
  <1>6. QED
    BY <1>1, <1>3, <1>5, StateAtSummary DEF k

\* An answer that is not spoiled is a proof of what was asked for.
LEMMA StateProofIs ==
    \A g : /\ NewSingleProof(Answer(SingleKind, g)) = {Ok(g)}
           /\ Ok(g).gindex = g /\ Ok(g).is = "ok"
           /\ Short(g).gindex = g /\ Short(g).is = "short"
  BY DEF NewSingleProof, Answer, SingleKind, Ok, Short

\* One that is spoiled is none, or a proof with a wrong hash of what was asked for.
LEMMA SpoiledIs ==
    ASSUME StateProofSpoiled
    PROVE  /\ Fault /\ UNCHANGED <<blocks, height, requests>>
           /\ \/ \E body : Die(body)
              \/ /\ ht' = ht
                 /\ \/ Finish(Failed)
                    \/ pc = "root" /\ TakeRoot(Short(GIndexAsked))
                    \/ pc = "summary" /\ TakeSummary(Short(GIndexAsked))
  <1> DEFINE g == GIndexAsked
             a == Answer(SingleKind, g)
             Taken(o) == UNCHANGED ht /\ IF pc = "root" THEN TakeRoot(o) ELSE TakeSummary(o)
             Step(body, o) == CASE o = Dies -> Die(body)
                                [] o = Error -> Finish(Failed) /\ UNCHANGED ht
                                [] OTHER -> Taken(o)
  <1>1. /\ Fault /\ UNCHANGED <<blocks, height, requests>> /\ pc \in {"root", "summary"}
        /\ \E body \in Spoiled(a) : \E o \in NewSingleProof(body) : Step(body, o)
    BY Zenon DEF StateProofSpoiled
  <1>2. a.kind = SingleKind /\ a.empty = FALSE /\ a.gindex = g /\ a.missing = 0
        /\ a = [kind |-> SingleKind, empty |-> FALSE, gindex |-> g, missing |-> 0]
    BY DEF Answer
  <1> HIDE DEF a, Step, g
  <1>3. ASSUME NEW body \in Spoiled(a), NEW o \in NewSingleProof(body)
        PROVE  o \in {Dies, Error, Short(g)}
    <2>1. \/ body.empty = TRUE
          \/ body.empty = FALSE /\ body.kind = OtherKind
          \/ /\ body.empty = FALSE /\ body.kind = SingleKind
             /\ body.missing \in {1, 3, 4} /\ body.gindex = g
      BY <1>2 DEF Spoiled
    <2>2. OtherKind # SingleKind
      BY DEF OtherKind, SingleKind
    <2>3. QED
      BY <1>3, <2>1, <2>2 DEF NewSingleProof
  <1>4. PICK body \in Spoiled(a) : \E o \in NewSingleProof(body) : Step(body, o)
    BY <1>1
  <1>5. PICK o \in NewSingleProof(body) : Step(body, o)
    BY <1>4
  <1>6. o \in {Dies, Error, Short(g)}
    BY <1>3
  <1>7. \/ Die(body)
        \/ Finish(Failed) /\ UNCHANGED ht
        \/ o = Short(g) /\ Taken(o)
    <2> HIDE DEF Taken
    <2>1. QED
      BY <1>5, <1>6 DEF Step
  <1>8. QED
    BY <1>1, <1>7, Zenon DEF g

LEMMA RepeatedIs ==
    ASSUME prev \in Root, roots \in Seq(Root)
    PROVE  Repeated \in Root
  <1> DEFINE R == Root
  <1>1. ASSUME roots # <<>> PROVE roots[Len(roots)] \in R
    <2> HIDE DEF R
    <2>1. roots \in Seq(R)
      BY DEF R
    <2>2. QED
      BY <1>1, <2>1
  <1>2. QED
    BY <1>1 DEF Repeated, Last

\* A request that is finished leaves nothing behind.
LEMMA Finished ==
    ASSUME BlockInv, NEW r, Finish(r), r.is \in {"none", "error", "panic", "block", "message"},
           blocks' = blocks, height' = height,
           ht' \in [0 .. MaxSlot -> Seq(0 .. MaxSlot)],
           requests' \in 0 .. MaxRequests, faults' \in 0 .. MaxFaults
    PROVE  BlockInv'
  <1>1. NoHeader \in Header /\ NilRoot \in Int
    BY HeightIs DEF BlockInv, TypeOK
  <1>2. /\ pc' = "idle" /\ req' = NoHeader /\ logs' = <<>> /\ pi' = <<>> /\ ti' = 0
        /\ whole' = TRUE /\ prev' = NilRoot /\ roots' = <<>> /\ result' = r
    BY DEF Finish, NotThere
  <1>3. Heights' = Heights
    BY DEF Heights
  <1>4. TypeOK'
    BY <1>1, <1>2, <1>3 DEF BlockInv, TypeOK
  <1>5. BuildInv'
    BY <1>2 DEF BuildInv, Root
  <1>6. ReqInv'
    BY <1>2 DEF ReqInv, Proving, Building
  <1>7. QED
    BY <1>4, <1>5, <1>6 DEF BlockInv

LEMMA FaultIs ==
    ASSUME faults \in 0 .. MaxFaults
    PROVE  (Fault => faults' \in 0 .. MaxFaults /\ faults' # 0)
           /\ (faults' = faults => faults' \in 0 .. MaxFaults)
  BY ProofAssumption DEF Fault

\* A sequence is one over any set that has its elements.
LEMMA SeqOver ==
    ASSUME NEW S, NEW T, NEW q \in Seq(S), \A i \in 1 .. Len(q) : q[i] \in T
    PROVE  q \in Seq(T)
  <1>1. Len(q) \in Nat /\ q = [i \in 1 .. Len(q) |-> q[i]]
    BY LenProperties
  <1>2. q \in [1 .. Len(q) -> T]
    BY <1>1
  <1>3. QED
    BY <1>1, <1>2

LEMMA Summed ==
    ASSUME blocks \in Chains, NEW k \in Nat
    PROVE  Summary(k) \in Seq(Int)
  <1> DEFINE S == 0 .. MaxSlot
             q == Summary(k)
  <1>1. q \in Seq(S) /\ S \subseteq Int
    BY SummaryIs
  <1> HIDE DEF S, q
  <1>2. \A i \in 1 .. Len(q) : q[i] \in Int
    BY <1>1, ElementOfSeq
  <1>3. q \in Seq(Int)
    BY <1>1, <1>2, SeqOver
  <1>4. QED
    BY <1>3 DEF q

------------------------------------------------------------------------------
(* Type correctness, and that a request agrees with how it is worked on *)

LEMMA BlockInvInit == Init => BlockInv
  <1> SUFFICES ASSUME Init PROVE BlockInv
    OBVIOUS
  <1>1. NoHeader \in Header /\ NilRoot \in Int
    BY HeightIs DEF Init
  <1>2. NoTries \in [0 .. MaxSlot -> Seq(0 .. MaxSlot)]
    BY DEF NoTries, NotThere
  <1>3. TypeOK
    BY <1>1, <1>2, ProofAssumption DEF Init, TypeOK, Nothing, NotThere
  <1>4. BuildInv
    BY DEF Init, BuildInv, Root
  <1>5. ReqInv
    BY DEF Init, ReqInv, Proving, Building
  <1>6. QED
    BY <1>3, <1>4, <1>5 DEF BlockInv

LEMMA AskBlockStep ==
    ASSUME BlockInv, NEW s \in Heights, NEW r \in {s, Orphaned(s)},
           AskBlock([slot |-> s, root |-> r])
    PROVE  BlockInv'
  <1> DEFINE q == [slot |-> s, root |-> r]
  <1>1. /\ blocks \in Chains /\ height \in Heights /\ pc = "idle" /\ requests' \in 0 .. MaxRequests
        /\ prev = NilRoot /\ roots = <<>>
    BY ProofAssumption DEF BlockInv, TypeOK, BuildInv, AskBlock
  <1>2. s \in ForkSlot .. MaxSlot /\ ForkSlot \in Nat /\ MaxSlot \in Nat /\ height \in Nat
    BY <1>1, HeightIs
  <1>3. q \in Header /\ q.slot = s /\ q.root = r
    BY <1>2 DEF Header, Orphaned
  <1>4. /\ blocks' = blocks /\ height' = height /\ ht' = ht /\ logs' = logs /\ pi' = pi
        /\ whole' = whole /\ ti' = ti /\ prev' = prev /\ roots' = roots /\ faults' = faults /\ s <= height
    BY DEF AskBlock
  <1>5. Heights' = Heights
    BY <1>4 DEF Heights
  <1>6. CASE s = height
    <2>1. pc' = pc /\ req' = req /\ result'.is = "block"
      BY <1>6 DEF AskBlock, BlockProof
    <2>2. TypeOK'
      BY <1>1, <1>4, <1>5, <2>1 DEF BlockInv, TypeOK
    <2>3. BuildInv'
      BY <1>1, <1>4, <2>1 DEF BuildInv, Root
    <2>4. ReqInv'
      BY <1>1, <1>4, <2>1 DEF BlockInv, ReqInv, Proving, Building
    <2>5. QED
      BY <2>2, <2>3, <2>4 DEF BlockInv
  <1>7. CASE s # height
    <2>1. req' = q /\ pc' = (IF Old(s) THEN "summary" ELSE "root") /\ result' = Nothing
      BY <1>3, <1>7 DEF AskBlock
    <2>2. TypeOK'
      BY <1>1, <1>3, <1>4, <1>5, <2>1 DEF BlockInv, TypeOK, Nothing
    <2>3. BuildInv'
      BY <1>1, <1>4, <2>1 DEF BuildInv, Root
    <2>4. ~Old(s) => height - s \in 1 .. Window - 1
      BY <1>2, <1>4, <1>7, ConstantsAre DEF Old
    <2>5. Old(s)' = Old(s)
      BY <1>4 DEF Old
    <2>6. ReqInv'
      BY <1>3, <1>4, <1>5, <2>1, <2>4, <2>5 DEF BlockInv, ReqInv, Proving, Building, Old, Orphaned
    <2>7. QED
      BY <2>2, <2>3, <2>6 DEF BlockInv
  <1>8. QED
    BY <1>6, <1>7

LEMMA WarmUpStep == ASSUME BlockInv, NEW s \in Heights, WarmUp(s) PROVE BlockInv'
  <1>1. /\ blocks \in Chains /\ height \in Heights /\ pc = "idle" /\ requests' \in 0 .. MaxRequests
        /\ prev = NilRoot /\ roots = <<>>
    BY ProofAssumption DEF BlockInv, TypeOK, BuildInv, WarmUp
  <1>2. s \in ForkSlot .. MaxSlot /\ NilRoot \in Int
    BY <1>1, HeightIs
  <1>3. /\ blocks' = blocks /\ height' = height /\ ht' = ht /\ logs' = logs /\ pi' = pi
        /\ whole' = whole /\ ti' = ti /\ prev' = prev /\ roots' = roots /\ faults' = faults
        /\ req' = [slot |-> s, root |-> NilRoot] /\ pc' = "trie" /\ result' = Nothing
    BY DEF WarmUp
  <1>4. Heights' = Heights /\ req' \in Header /\ req'.slot = s /\ req'.root = NilRoot
    BY <1>2, <1>3 DEF Heights, Header
  <1>5. TypeOK'
    BY <1>1, <1>3, <1>4 DEF BlockInv, TypeOK, Nothing
  <1>6. BuildInv'
    BY <1>1, <1>3 DEF BuildInv, Root
  <1>7. ReqInv'
    BY <1>3, <1>4 DEF BlockInv, ReqInv, Proving, Building
  <1>8. QED
    BY <1>5, <1>6, <1>7 DEF BlockInv

LEMMA AskMessageStep == ASSUME BlockInv, NEW l \in Logs, AskMessage(l) PROVE BlockInv'
  <1>1. /\ requests' \in 0 .. MaxRequests /\ logs' \in Logs /\ pc = "idle"
        /\ pc' = "receiptsRoot" /\ result' = Nothing
        /\ UNCHANGED <<blocks, height, ht, req, pi, whole, ti, prev, roots, faults>>
    BY ProofAssumption DEF BlockInv, TypeOK, AskMessage
  <1>2. Heights' = Heights /\ Logs' = Logs
    BY <1>1 DEF Heights, Logs
  <1>3. TypeOK'
    BY <1>1, <1>2 DEF BlockInv, TypeOK, Nothing
  <1>4. BuildInv'
    BY <1>1 DEF BlockInv, BuildInv, Root
  <1>5. ReqInv'
    BY <1>1 DEF BlockInv, ReqInv, Proving, Building
  <1>6. QED
    BY <1>3, <1>4, <1>5 DEF BlockInv

\* The proof of a summary is taken; one with a wrong hash comes of a spoiled answer.
LEMMA TakeSummaryStep ==
    ASSUME BlockInv, pc = "summary", NEW o, o.gindex = GIndexAsked, TakeSummary(o),
           UNCHANGED <<blocks, height, ht, requests>>,
           faults' \in 0 .. MaxFaults, faults' = 0 => o.is = "ok"
    PROVE  BlockInv'
  <1> DEFINE k == SlotToHistoricalSummariesIndex(req.slot)
  <1>1. /\ blocks \in Chains /\ height \in Heights /\ req \in Header
        /\ Old(req.slot) /\ req.slot \in Heights /\ req.root \in {req.slot, Orphaned(req.slot)}
        /\ result = Nothing
    BY DEF BlockInv, TypeOK, ReqInv, Proving
  <1>2. req.slot \in ForkSlot .. MaxSlot /\ k \in Nat
    BY <1>1, RequestIs
  <1>3. StateAt(height, HistoricalSummariesIdxToGIndex(k)) = Summary(k)
    BY <1>1, <1>2, OldIsSummedUp
  <1>4. Summary(k) \in Seq(Int)
    BY <1>1, <1>2, Summed
  <1>5. pi' = StateAt(height, HistoricalSummariesIdxToGIndex(k))
    BY DEF TakeSummary, GIndexAsked
  <1> HIDE DEF k
  <1>6. /\ pc' = "trie" /\ whole' = (o.is = "ok")
        /\ UNCHANGED <<blocks, height, ht, req, logs, ti, prev, roots, result, requests>>
    BY DEF TakeSummary
  <1>7. Heights' = Heights /\ Summary(k)' = Summary(k)
    BY <1>6 DEF Heights, Summary, LastBlock, k
  <1>8. TypeOK'
    BY <1>3, <1>4, <1>5, <1>6, <1>7 DEF BlockInv, TypeOK
  <1>9. BuildInv'
    BY <1>6 DEF BlockInv, BuildInv, Root
  <1>10. ReqInv'
    <2>1. pi' = Summary(SlotToHistoricalSummariesIndex(req.slot))'
      BY <1>3, <1>5, <1>6, <1>7 DEF k
    <2>2. QED
      BY <1>1, <1>6, <1>7, <2>1 DEF ReqInv, Proving, Building, Old, Orphaned
  <1>11. QED
    BY <1>8, <1>9, <1>10 DEF BlockInv

LEMMA ProveSummaryStep == ASSUME BlockInv, ProveSummary PROVE BlockInv'
  <1>1. /\ pc = "summary" /\ TakeSummary(Ok(GIndexAsked))
        /\ UNCHANGED <<blocks, height, ht, requests, faults>>
    BY StateProofIs DEF ProveSummary
  <1>2. Ok(GIndexAsked).gindex = GIndexAsked /\ Ok(GIndexAsked).is = "ok"
    BY StateProofIs
  <1>3. faults' \in 0 .. MaxFaults
    BY <1>1 DEF BlockInv, TypeOK
  <1>4. QED
    BY <1>1, <1>2, <1>3, TakeSummaryStep

\* A step of building a trie leaves the request alone.
LEMMA BuildingKeepsRequest ==
    ASSUME BlockInv, Building, Building', UNCHANGED <<blocks, height, req, logs, pi, whole, result>>,
           faults' = 0 => faults = 0
    PROVE  ReqInv' /\ Heights' = Heights
  <1>1. Heights' = Heights
    BY DEF Heights
  <1>2. Summary(SlotToHistoricalSummariesIndex(req.slot))'
          = Summary(SlotToHistoricalSummariesIndex(req.slot))
    BY DEF Summary, LastBlock
  <1>3. pc' \in {"trie", "prev", "fill"} /\ pc \in {"trie", "prev", "fill"}
    BY DEF Building
  <1>4. ReqInv'
    BY <1>1, <1>2, <1>3 DEF BlockInv, ReqInv, Proving, Building, Old, Orphaned
  <1>5. QED
    BY <1>1, <1>4

LEMMA BuildTrieStep == ASSUME BlockInv, BuildTrie PROVE BlockInv'
  <1>1. /\ pc = "trie" /\ pc' = "prev" /\ ti' = StartSlot - 1
        /\ UNCHANGED <<blocks, height, ht, req, logs, pi, whole, prev, roots, result, requests, faults>>
    BY DEF BuildTrie
  <1>2. ReqInv' /\ Heights' = Heights
    BY <1>1, BuildingKeepsRequest DEF Building
  <1>3. StartSlot \in Nat /\ Window \in Nat \ {0} /\ StartSlot' = StartSlot
    BY <1>1, RequestIs DEF BlockInv, TypeOK, StartSlot
  <1>4. TypeOK'
    BY <1>1, <1>2, <1>3 DEF BlockInv, TypeOK
  <1>5. BuildInv'
    BY <1>1, <1>3 DEF BlockInv, BuildInv, Root
  <1>6. QED
    BY <1>2, <1>4, <1>5 DEF BlockInv

LEMMA FindPrevStep == ASSUME BlockInv, FindPrev PROVE BlockInv'
  <1>1. /\ pc = "prev" /\ ti > StartSlot - Window
        /\ UNCHANGED <<blocks, height, ht, req, logs, pi, whole, roots, result, requests>>
    BY DEF FindPrev, Looking
  <1>2. /\ StartSlot \in Nat /\ Window \in Nat \ {0} /\ StartSlot' = StartSlot
        /\ ti \in StartSlot - Window .. StartSlot - 1 /\ ti \in Int /\ roots = <<>>
        /\ prev = NilRoot
    BY <1>1, RequestIs DEF BlockInv, TypeOK, BuildInv, StartSlot
  <1>3. faults' \in 0 .. MaxFaults /\ (faults' = 0 => faults = 0)
    BY FaultIs DEF FindPrev, RootOf, NoRootOf, BlockInv, TypeOK
  <1>4. blocks \subseteq 0 .. MaxSlot
    BY BlocksAre DEF BlockInv, TypeOK
  <1>5. \/ ti \in blocks /\ prev' = ti /\ pc' = "fill" /\ ti' = StartSlot
        \/ ti' = ti - 1 /\ pc' = pc /\ prev' = prev
    BY DEF FindPrev, RootOf
  <1>6. ReqInv' /\ Heights' = Heights
    BY <1>1, <1>3, <1>5, BuildingKeepsRequest DEF Building
  <1>7. TypeOK'
    BY <1>1, <1>2, <1>3, <1>5, <1>6 DEF BlockInv, TypeOK
  <1>8. BuildInv'
    <2>1. prev' \in Root /\ roots' \in Seq(Root)
      BY <1>1, <1>4, <1>5 DEF BlockInv, BuildInv, Root
    <2>2. pc' # "fill" => prev' = NilRoot /\ roots' = <<>>
      BY <1>1, <1>2, <1>5
    <2>3. /\ pc' = "prev" => ti' \in StartSlot - Window .. StartSlot - 1
          /\ pc' = "fill" => ti' \in StartSlot .. StartSlot + Window
                             /\ Len(roots') = ti' - StartSlot
      BY <1>1, <1>2, <1>5
    <2>4. QED
      BY <1>2, <2>1, <2>2, <2>3 DEF BuildInv, Root
  <1>9. QED
    BY <1>6, <1>7, <1>8 DEF BlockInv

LEMMA NoPrevStep == ASSUME BlockInv, NoPrev PROVE BlockInv'
  <1>1. /\ pc = "prev" /\ pc' = "fill" /\ ti' = StartSlot
        /\ UNCHANGED <<blocks, height, ht, req, logs, pi, whole, prev, roots, result, requests, faults>>
    BY DEF NoPrev
  <1>2. ReqInv' /\ Heights' = Heights
    BY <1>1, BuildingKeepsRequest DEF Building
  <1>3. StartSlot \in Nat /\ Window \in Nat \ {0} /\ StartSlot' = StartSlot /\ roots = <<>>
    BY <1>1, RequestIs DEF BlockInv, TypeOK, BuildInv, StartSlot
  <1>4. TypeOK'
    BY <1>1, <1>2, <1>3 DEF BlockInv, TypeOK
  <1>5. BuildInv'
    BY <1>1, <1>3 DEF BlockInv, BuildInv, Root
  <1>6. QED
    BY <1>2, <1>4, <1>5 DEF BlockInv

\* What a step of Fill appends.
LEMMA FillIs ==
    ASSUME BlockInv, Fill
    PROVE  \E r \in Root :
              /\ \/ ti \in blocks /\ r = ti
                 \/ r = Repeated /\ (ti \in blocks => faults' # 0)
              /\ roots' = Append(roots, r) /\ roots' \in Seq(Root)
              /\ Len(roots') = Len(roots) + 1 /\ roots'[Len(roots) + 1] = r
              /\ \A i \in 1 .. Len(roots) : roots'[i] = roots[i]
  <1> DEFINE R == Root
  <1>1. roots \in Seq(R) /\ Repeated \in R
    BY RepeatedIs DEF BlockInv, BuildInv
  <1>2. blocks \subseteq R
    BY BlocksAre DEF BlockInv, TypeOK, Root
  <1>3. \/ ti \in blocks /\ roots' = Append(roots, ti)
        \/ roots' = Append(roots, Repeated) /\ (ti \in blocks => faults' # 0)
    BY FaultIs DEF Fill, RootOf, NoRootOf, BlockInv, TypeOK
  <1> HIDE DEF R
  <1>4. PICK r \in R : /\ \/ ti \in blocks /\ r = ti
                          \/ r = Repeated /\ (ti \in blocks => faults' # 0)
                       /\ roots' = Append(roots, r)
    BY <1>1, <1>2, <1>3
  <1>5. /\ roots' \in Seq(R) /\ Len(roots') = Len(roots) + 1
        /\ roots'[Len(roots) + 1] = r /\ \A i \in 1 .. Len(roots) : roots'[i] = roots[i]
    BY <1>1, <1>4, AppendProperties
  <1>6. QED
    BY <1>4, <1>5 DEF R

LEMMA FillStep == ASSUME BlockInv, Fill PROVE BlockInv'
  <1>1. /\ pc = "fill" /\ ti < StartSlot + Window /\ ti' = ti + 1
        /\ UNCHANGED <<blocks, height, ht, pc, req, logs, pi, whole, prev, result, requests>>
    BY DEF Fill
  <1>2. /\ StartSlot \in Nat /\ Window \in Nat \ {0} /\ StartSlot' = StartSlot
        /\ ti \in StartSlot .. StartSlot + Window /\ Len(roots) = ti - StartSlot
    BY <1>1, RequestIs DEF BlockInv, TypeOK, BuildInv, StartSlot
  <1>3. faults' \in 0 .. MaxFaults /\ (faults' = 0 => faults = 0)
    BY FaultIs DEF Fill, RootOf, NoRootOf, BlockInv, TypeOK
  <1>4. ReqInv' /\ Heights' = Heights
    BY <1>1, <1>3, BuildingKeepsRequest DEF Building
  <1>5. PICK r \in Root : roots' \in Seq(Root) /\ Len(roots') = Len(roots) + 1
    BY FillIs
  <1>6. roots' \in Seq(Int)
    <2> DEFINE R == Root
    <2>1. R \subseteq Int /\ roots' \in Seq(R)
      BY <1>5, HeightIs DEF Root, BlockInv, TypeOK
    <2> HIDE DEF R
    <2>2. \A i \in 1 .. Len(roots') : roots'[i] \in Int
      BY <2>1, ElementOfSeq
    <2>3. QED
      BY <2>1, <2>2, SeqOver
  <1>7. TypeOK'
    BY <1>1, <1>2, <1>3, <1>4, <1>6 DEF BlockInv, TypeOK
  <1>8. BuildInv'
    <2>1. ti' \in StartSlot .. StartSlot + Window /\ Len(roots') = ti' - StartSlot
      BY <1>1, <1>2, <1>5
    <2>2. prev' \in Root' /\ roots' \in Seq(Root')
      BY <1>1, <1>5 DEF BlockInv, BuildInv, Root
    <2>3. QED
      BY <1>1, <1>2, <2>1, <2>2 DEF BuildInv
  <1>9. QED
    BY <1>4, <1>7, <1>8 DEF BlockInv

\* A trie that is kept has a root for each slot of its window, and no nil root.
LEMMA KeptTrieIs ==
    ASSUME BlockInv, NilRoot \notin Range(roots)
    PROVE  roots \in Seq(0 .. MaxSlot)
  <1> DEFINE R == Root
  <1>1. roots \in Seq(R)
    BY DEF BlockInv, BuildInv
  <1> HIDE DEF R
  <1>2. \A i \in 1 .. Len(roots) : roots[i] \in R /\ roots[i] \in Range(roots)
    BY <1>1, ElementOfSeq, LenProperties DEF Range
  <1>3. \A i \in 1 .. Len(roots) : roots[i] \in 0 .. MaxSlot
    BY <1>2 DEF R, Root
  <1>4. QED
    BY <1>1, <1>3, SeqOver

LEMMA KeepTrieStep == ASSUME BlockInv, KeepTrie PROVE BlockInv'
  <1>1. /\ pc = "fill" /\ UNCHANGED <<blocks, height, requests, faults>>
    BY DEF KeepTrie
  <1>2. CASE NilRoot \in Range(roots)
    <2>1. /\ \/ Finish(Failed) /\ ht' = ht
             \/ Finish(Crashed(NoBody)) /\ ht' = NoTries
          /\ Failed.is = "error" /\ Crashed(NoBody).is = "panic"
      BY <1>2, Zenon DEF KeepTrie, Die, Failed, Crashed
    <2>2. /\ ht' \in [0 .. MaxSlot -> Seq(0 .. MaxSlot)]
          /\ requests' \in 0 .. MaxRequests /\ faults' \in 0 .. MaxFaults
      <3> DEFINE A == [0 .. MaxSlot -> Seq(0 .. MaxSlot)]
      <3>1. ht' = ht \/ ht' = NoTries
        BY <2>1, Zenon
      <3>2. ht \in A /\ NoTries \in A
        BY DEF BlockInv, TypeOK, NoTries, NotThere
      <3> HIDE DEF A
      <3>3. ht' \in A
        BY <3>1, <3>2, Zenon
      <3>4. QED
        BY <1>1, <3>3 DEF A, BlockInv, TypeOK
    <2>3. QED
      BY <1>1, <2>1, <2>2, Finished
  <1>3. CASE NilRoot \notin Range(roots)
    <2>1. /\ ht' = [ht EXCEPT ![StartSlot] = roots] /\ UNCHANGED <<req, logs, pi, whole, result>>
          /\ pc' = "trie" /\ ti' = 0 /\ prev' = NilRoot /\ roots' = <<>>
      BY <1>3 DEF KeepTrie
    <2>2. ReqInv' /\ Heights' = Heights
      BY <1>1, <2>1, BuildingKeepsRequest DEF Building
    <2>3. roots \in Seq(0 .. MaxSlot)
      BY <1>3, KeptTrieIs
    <2>4. ht' \in [0 .. MaxSlot -> Seq(0 .. MaxSlot)]
      <3> DEFINE S == Seq(0 .. MaxSlot)
      <3>1. ht \in [0 .. MaxSlot -> S] /\ roots \in S
        BY <2>3 DEF BlockInv, TypeOK
      <3> HIDE DEF S
      <3>2. ht' \in [0 .. MaxSlot -> S]
        BY <2>1, <3>1
      <3>3. QED
        BY <3>2 DEF S
    <2>5. TypeOK'
      BY <1>1, <2>1, <2>2, <2>4, HeightIs DEF BlockInv, TypeOK
    <2>6. BuildInv'
      BY <2>1 DEF BuildInv, Root
    <2>7. QED
      BY <2>2, <2>5, <2>6 DEF BlockInv
  <1>4. QED
    BY <1>2, <1>3

\* The proof of a block root is taken: it becomes a block proof or an error.
LEMMA TakeRootEnds ==
    ASSUME NEW o, TakeRoot(o)
    PROVE  \E r : Finish(r) /\ r.is \in {"none", "error", "panic", "block", "message"}
  <1> DEFINE l == StateAt(height, o.gindex)
             b == BlockProof(l, o.is = "ok", NotThere, 0)
  <1>1. b.is = "block" /\ Failed.is = "error"
    BY DEF BlockProof, Failed
  <1>2. Finish(IF l = <<req.root>> THEN b ELSE Failed)
    BY Zenon DEF TakeRoot
  <1> HIDE DEF l, b
  <1>3. Finish(b) \/ Finish(Failed)
    BY <1>2, Zenon
  <1>4. QED
    BY <1>1, <1>3

LEMMA SpoiledStep == ASSUME BlockInv, StateProofSpoiled PROVE BlockInv'
  <1> DEFINE A == [0 .. MaxSlot -> Seq(0 .. MaxSlot)]
             K == {"none", "error", "panic", "block", "message"}
             o == Short(GIndexAsked)
  <1>1. /\ UNCHANGED <<blocks, height, requests>> /\ faults' \in 0 .. MaxFaults /\ faults' # 0
        /\ requests' \in 0 .. MaxRequests /\ ht \in A /\ NoTries \in A
    BY SpoiledIs, FaultIs DEF BlockInv, TypeOK, NoTries, NotThere
  <1>2. Failed.is \in K /\ \A body : Crashed(body).is \in K
    BY DEF Failed, Crashed
  <1>3. o.gindex = GIndexAsked
    BY StateProofIs
  <1>4. \/ \E body : Finish(Crashed(body)) /\ ht' = NoTries
        \/ ht' = ht /\ Finish(Failed)
        \/ ht' = ht /\ TakeRoot(o)
        \/ ht' = ht /\ pc = "summary" /\ TakeSummary(o)
    BY SpoiledIs, Zenon DEF Die
  <1>5. CASE pc = "summary" /\ TakeSummary(o) /\ ht' = ht
    <2> HIDE DEF o
    <2>1. QED
      BY <1>1, <1>3, <1>5, TakeSummaryStep
  <1>6. ASSUME NEW r, Finish(r), r.is \in K, ht' \in A PROVE BlockInv'
    BY <1>1, <1>6, Finished
  <1> HIDE DEF A, K, o
  <1>7. CASE TakeRoot(o) /\ ht' = ht
    <2>1. \E r : Finish(r) /\ r.is \in K
      BY <1>7, TakeRootEnds DEF K
    <2>2. QED
      BY <1>1, <1>6, <1>7, <2>1
  <1>8. QED
    BY <1>1, <1>2, <1>4, <1>5, <1>6, <1>7

\* Steps that end a request, and those of the verifier.
LEMMA FinishingSteps ==
    ASSUME BlockInv,
           \/ ProveByRoot \/ StateProofFails \/ ProveByTrie
           \/ MakeMessageProof \/ MessageFails \/ ReceiptsRootSpoiled
    PROVE  BlockInv'
  <1> DEFINE K == {"none", "error", "panic", "block", "message"}
             A == [0 .. MaxSlot -> Seq(0 .. MaxSlot)]
  <1>1. ht \in A /\ NoTries \in A
    BY DEF BlockInv, TypeOK, NoTries, NotThere
  <1>2. /\ \A leaf, w, trie, index : BlockProof(leaf, w, trie, index).is \in K
        /\ \A g, x, keys : MessageProof(g, x, keys).is \in K
        /\ Failed.is \in K /\ Nothing.is \in K /\ \A body : Crashed(body).is \in K
    BY DEF BlockProof, MessageProof, Failed, Nothing, Crashed
  <1> HIDE DEF A, K
  <1>3. /\ UNCHANGED <<blocks, height, requests>> /\ faults' \in 0 .. MaxFaults
        /\ requests' \in 0 .. MaxRequests
    BY FaultIs DEF ProveByRoot, StateProofFails, ProveByTrie, MakeMessageProof, MessageFails,
                   ReceiptsRootSpoiled, BlockInv, TypeOK
  <1>4. \E r : Finish(r) /\ r.is \in K /\ ht' \in A
    <2>1. CASE ProveByRoot
      <3>1. \E o : TakeRoot(o)
        BY <2>1, Zenon DEF ProveByRoot
      <3>2. \E r : Finish(r) /\ r.is \in K
        BY <3>1, TakeRootEnds DEF K
      <3>3. QED
        BY <1>1, <2>1, <3>2 DEF ProveByRoot
    <2>2. CASE StateProofFails
      <3>1. Finish(Failed) /\ ht' = ht
        BY <2>2, Zenon DEF StateProofFails
      <3>2. QED
        BY <1>1, <1>2, <3>1, Zenon
    <2>3. CASE ProveByTrie
      <3>1. ht' = ht
        BY <2>3 DEF ProveByTrie
      <3>2. Finish(Nothing) \/ \E leaf, w, trie, index : Finish(BlockProof(leaf, w, trie, index))
        BY <2>3, Zenon DEF ProveByTrie
      <3>3. QED
        BY <1>1, <1>2, <3>1, <3>2, Zenon
    <2>4. CASE MakeMessageProof
      <3>1. ht' = ht /\ \E g, x, keys : Finish(MessageProof(g, x, keys))
        BY <2>4, Zenon DEF MakeMessageProof
      <3>2. QED
        BY <1>1, <1>2, <3>1, Zenon
    <2>5. CASE MessageFails
      <3>1. ht' = ht /\ Finish(Failed)
        BY <2>5, Zenon DEF MessageFails
      <3>2. QED
        BY <1>1, <1>2, <3>1, Zenon
    <2>6. CASE ReceiptsRootSpoiled
      <3>1. PICK g, body, o : CASE o = Dies -> Die(body)
                                [] o = Error -> Finish(Failed) /\ UNCHANGED ht
                                [] OTHER -> Finish(MessageProof(g, o.gindex, Keys(logs))) /\ UNCHANGED ht
        BY <2>6, Zenon DEF ReceiptsRootSpoiled
      <3>2. \/ Die(body)
            \/ Finish(Failed) /\ ht' = ht
            \/ Finish(MessageProof(g, o.gindex, Keys(logs))) /\ ht' = ht
        BY <3>1
      <3>3. QED
        BY <1>1, <1>2, <3>2, Zenon DEF Die
    <2>7. QED
      BY <2>1, <2>2, <2>3, <2>4, <2>5, <2>6
  <1>5. QED
    BY <1>3, <1>4, Finished DEF A, K

LEMMA AdvanceStep == ASSUME BlockInv, Advance PROVE BlockInv'
  <1>1. /\ pc = "idle" /\ height' \in Heights /\ result' = Nothing
        /\ UNCHANGED <<blocks, ht, pc, req, logs, pi, whole, ti, prev, roots, requests, faults>>
    BY DEF Advance
  <1>2. Heights' = Heights
    BY <1>1 DEF Heights
  <1>3. TypeOK'
    BY <1>1, <1>2 DEF BlockInv, TypeOK, Nothing
  <1>4. BuildInv'
    BY <1>1 DEF BlockInv, BuildInv, Root
  <1>5. ReqInv'
    BY <1>1 DEF BlockInv, ReqInv, Proving, Building
  <1>6. QED
    BY <1>3, <1>4, <1>5 DEF BlockInv

LEMMA BlockInvStep == BlockInv /\ [Next]_vars => BlockInv'
  <1> SUFFICES ASSUME BlockInv, [Next]_vars PROVE BlockInv'
    OBVIOUS
  <1>1. CASE Ask
    <2>1. \/ \E s \in Heights : \E r \in {s, Orphaned(s)} : AskBlock([slot |-> s, root |-> r])
          \/ \E s \in Heights : WarmUp(s)
          \/ \E l \in Logs : AskMessage(l)
      BY <1>1, Zenon DEF Ask
    <2>2. QED
      BY <2>1, AskBlockStep, WarmUpStep, AskMessageStep, Zenon
  <1>2. CASE ProveSummary \/ BuildTrie \/ FindPrev \/ NoPrev \/ Fill \/ KeepTrie \/ Advance
    BY <1>2, ProveSummaryStep, BuildTrieStep, FindPrevStep, NoPrevStep, FillStep, KeepTrieStep,
       AdvanceStep, Zenon
  <1>3. CASE \/ ProveByRoot \/ StateProofFails \/ StateProofSpoiled \/ ProveByTrie
             \/ MakeMessageProof \/ MessageFails \/ ReceiptsRootSpoiled
    BY <1>3, FinishingSteps, SpoiledStep, Zenon
  <1>4. CASE UNCHANGED vars
    <2>1. UNCHANGED <<blocks, height, ht, pc, req, logs, pi, whole, ti, prev, roots, result, requests, faults>>
      BY <1>4 DEF vars
    <2>2. Heights' = Heights /\ Logs' = Logs
      BY <2>1 DEF Heights, Logs
    <2>3. TypeOK'
      BY <2>1, <2>2 DEF BlockInv, TypeOK
    <2>4. BuildInv'
      BY <2>1 DEF BlockInv, BuildInv, Root, StartSlot
    <2>5. Summary(SlotToHistoricalSummariesIndex(req.slot))'
            = Summary(SlotToHistoricalSummariesIndex(req.slot))
      BY <2>1 DEF Summary, LastBlock
    <2>6. ReqInv'
      BY <2>1, <2>2, <2>5 DEF BlockInv, ReqInv, Proving, Building, Old, Orphaned
    <2>7. QED
      BY <2>3, <2>4, <2>6 DEF BlockInv
  <1>5. QED
    BY <1>1, <1>2, <1>3, <1>4, Zenon DEF Next

LEMMA BlockInvHolds == Spec => []BlockInv
  <1>1. QED
    BY BlockInvInit, BlockInvStep, PTL DEF Spec

\* Whatever blocks there are, requests are made, calls fail and panics lose the tries,
\* a request is of a slot of the fork, its window begins at a slot a trie can be kept
\* for (ht of getHistoricalSummariesTrie), and a trie kept has no nil root.
THEOREM BlockProofsTyped == Spec => []TypeOK
  <1>1. BlockInv => TypeOK
    BY DEF BlockInv
  <1>2. QED
    BY <1>1, BlockInvHolds, PTL

------------------------------------------------------------------------------
(* The tries kept (getHistoricalSummariesTrie) *)

TriesInv == BlockInv /\ RootsInv /\ TriesRight

\* The last block up to a slot without a block is the one up to the slot before.
LEMMA LastBlockBefore ==
    ASSUME blocks \in Chains, NEW s \in Nat \ {0}, s \notin blocks
    PROVE  LastBlock(s) = LastBlock(s - 1)
  <1> DEFINE b == LastBlock(s - 1)
  <1>1. s - 1 \in Nat /\ s \in Nat
    OBVIOUS
  <1>2. b \in blocks /\ b <= s - 1 /\ \A c \in blocks : c <= s - 1 => c <= b
    BY <1>1, LastBlockIs
  <1>3. blocks \subseteq Nat
    BY BlocksAre
  <1> HIDE DEF b
  <1>4. b \in Nat /\ b <= s
    BY <1>1, <1>2, <1>3
  <1>5. (b + 1 .. s) \cap blocks = {}
    <2> SUFFICES ASSUME NEW c \in blocks, c \in b + 1 .. s PROVE FALSE
      BY Zenon
    <2>1. c \in Nat /\ c # s
      BY <1>3
    <2>2. c <= s - 1
      BY <1>4, <2>1
    <2>3. QED
      BY <1>2, <1>4, <2>1, <2>2
  <1>6. LastBlock(s) = b
    BY <1>1, <1>2, <1>4, <1>5, LastBlockUnique
  <1>7. QED
    BY <1>6 DEF b

LEMMA OwnLastBlock ==
    ASSUME blocks \in Chains, NEW s \in blocks
    PROVE  LastBlock(s) = s
  <1>1. s \in Nat
    BY BlocksAre
  <1>2. (s + 1 .. s) = {} /\ s <= s
    BY <1>1
  <1>3. QED
    BY <1>1, <1>2, LastBlockUnique

\* No call is forgotten to have failed.
LEMMA FaultsStay ==
    ASSUME TypeOK, [Next]_vars
    PROVE  faults' = 0 => faults = 0
  <1>1. CASE Ask
    <2>1. faults' = faults
      <3>1. \/ \E h : AskBlock(h)
            \/ \E s : WarmUp(s)
            \/ \E l : AskMessage(l)
        BY <1>1, Zenon DEF Ask
      <3>2. QED
        BY <3>1 DEF AskBlock, WarmUp, AskMessage
    <2>2. QED
      BY <2>1
  <1>2. CASE ProveByRoot \/ ProveSummary \/ KeepTrie \/ ProveByTrie \/ MakeMessageProof
    <2>1. faults' = faults
      BY <1>2, Zenon DEF ProveByRoot, ProveSummary, KeepTrie, ProveByTrie, MakeMessageProof
    <2>2. QED
      BY <2>1
  <1>3. CASE StateProofFails \/ StateProofSpoiled \/ MessageFails \/ ReceiptsRootSpoiled
    <2>1. Fault
      BY <1>3, Zenon DEF StateProofFails, StateProofSpoiled, MessageFails, ReceiptsRootSpoiled
    <2>2. QED
      BY <2>1, FaultIs DEF TypeOK
  <1>4. CASE BuildTrie \/ FindPrev \/ NoPrev \/ Fill \/ Advance \/ UNCHANGED vars
    <2>1. faults' = faults \/ Fault
      BY <1>4 DEF BuildTrie, FindPrev, NoPrev, Fill, Advance, RootOf, NoRootOf, vars
    <2>2. QED
      BY <2>1, FaultIs DEF TypeOK
  <1>5. QED
    BY <1>1, <1>2, <1>3, <1>4, Zenon DEF Next

\* A step that keeps the tries or loses them, and works on no window then.
LEMMA OtherStepsKeepTries ==
    ASSUME TriesInv, [Next]_vars, ~BuildTrie, ~FindPrev, ~NoPrev, ~Fill, ~KeepTrie
    PROVE  /\ blocks' = blocks
           /\ \/ ht' \in {ht, NoTries} /\ pc' \notin {"prev", "fill"}
              \/ UNCHANGED vars
  <1> USE DEF Finish, Die
  <1>1. CASE Ask
    <2>1. \/ \E h : AskBlock(h)
          \/ \E s : WarmUp(s)
          \/ \E l : AskMessage(l)
      BY <1>1, Zenon DEF Ask
    <2>2. QED
      BY <2>1 DEF AskBlock, WarmUp, AskMessage
  <1>2. CASE ProveByRoot
    <2>1. UNCHANGED <<blocks, ht>> /\ pc' = "idle"
      BY <1>2, Zenon DEF ProveByRoot, TakeRoot
    <2>2. QED
      BY <2>1
  <1>3. CASE StateProofFails
    <2>1. UNCHANGED <<blocks, ht>> /\ pc' = "idle"
      BY <1>3, Zenon DEF StateProofFails
    <2>2. QED
      BY <2>1
  <1>3b. CASE StateProofSpoiled
    <2>1. UNCHANGED blocks /\ pc' \in {"idle", "trie"} /\ (ht' = ht \/ ht' = NoTries)
      BY <1>3b, SpoiledIs, Zenon DEF TakeRoot, TakeSummary
    <2>2. QED
      BY <2>1
  <1>4. CASE ProveSummary \/ ProveByTrie \/ MessageFails \/ Advance
    BY <1>4, StateProofIs DEF ProveSummary, TakeSummary, ProveByTrie, MessageFails, Advance
  <1>5. CASE MakeMessageProof
    <2>1. UNCHANGED <<blocks, ht>> /\ pc' = "idle"
      BY <1>5, Zenon DEF MakeMessageProof
    <2>2. QED
      BY <2>1
  <1>6. CASE ReceiptsRootSpoiled
    <2>1. PICK g, body, o : /\ CASE o = Dies -> Die(body)
                                 [] o = Error -> Finish(Failed) /\ UNCHANGED ht
                                 [] OTHER -> Finish(MessageProof(g, o.gindex, Keys(logs))) /\ UNCHANGED ht
                            /\ UNCHANGED blocks
      BY <1>6, Zenon DEF ReceiptsRootSpoiled
    <2>2. QED
      BY <2>1
  <1>7. CASE UNCHANGED vars
    BY <1>7 DEF vars
  <1>8. QED
    BY <1>1, <1>2, <1>3, <1>3b, <1>4, <1>5, <1>6, <1>7, Zenon DEF Next

LEMMA TriesKept ==
    ASSUME TriesRight, blocks' = blocks, faults' = 0 => faults = 0, ht' \in {ht, NoTries}
    PROVE  TriesRight'
  <1>1. \A k : Summary(k)' = Summary(k)
    BY DEF Summary, LastBlock
  <1>2. \A s \in DOMAIN NoTries : NoTries[s] = NotThere
    BY DEF NoTries
  <1>3. QED
    BY <1>1, <1>2 DEF TriesRight

LEMMA BuildTrieRoots == ASSUME TriesInv, BuildTrie PROVE RootsInv' /\ TriesRight'
  <1>1. /\ pc' = "prev" /\ ti' = StartSlot - 1 /\ UNCHANGED <<blocks, ht, req, faults>>
    BY DEF BuildTrie
  <1>2. StartSlot \in Nat /\ StartSlot' = StartSlot
    BY <1>1, RequestIs DEF TriesInv, BlockInv, TypeOK, StartSlot
  <1>3. (ti' + 1 .. StartSlot - 1) = {}
    BY <1>1, <1>2
  <1>4. NoBlocks(ti + 1, StartSlot - 1)'
    BY <1>2, <1>3, Zenon DEF NoBlocks
  <1>5. RootsInv'
    BY <1>1, <1>4 DEF RootsInv
  <1>6. TriesRight'
    BY <1>1, TriesKept DEF TriesInv
  <1>7. QED
    BY <1>5, <1>6

LEMMA FindPrevRoots == ASSUME TriesInv, FindPrev PROVE RootsInv' /\ TriesRight'
  <1>1. /\ pc = "prev" /\ UNCHANGED <<blocks, ht, req, roots>>
    BY DEF FindPrev
  <1>2. faults' = 0 => faults = 0
    BY FaultsStay DEF TriesInv, BlockInv, Next
  <1>3. /\ StartSlot \in Nat /\ StartSlot' = StartSlot
        /\ ti \in Int /\ ti < StartSlot /\ roots = <<>>
    BY <1>1, RequestIs, ConstantsAre DEF TriesInv, BlockInv, TypeOK, BuildInv, StartSlot
  <1>4. \/ ti \in blocks /\ prev' = ti /\ pc' = "fill" /\ ti' = StartSlot
        \/ (ti \in blocks => faults' # 0) /\ ti' = ti - 1 /\ pc' = pc /\ prev' = prev
    BY FaultIs DEF FindPrev, RootOf, NoRootOf, TriesInv, BlockInv, TypeOK
  <1>5. TriesRight'
    BY <1>1, <1>2, TriesKept DEF TriesInv
  <1>6. RootsInv'
    <2> SUFFICES ASSUME faults' = 0 PROVE RootsInv'
      BY DEF RootsInv
    <2>1. NoBlocks(ti + 1, StartSlot - 1)
      BY <1>1, <1>2 DEF TriesInv, RootsInv
    <2>2. CASE ti \in blocks /\ prev' = ti /\ pc' = "fill" /\ ti' = StartSlot
      <3>1. ti # NilRoot
        BY <2>2, BlocksAre, HeightIs DEF TriesInv, BlockInv, TypeOK
      <3>2. NoBlocks(prev + 1, StartSlot - 1)'
        BY <1>1, <1>3, <2>1, <2>2 DEF NoBlocks
      <3>3. Len(roots') = 0
        BY <1>1, <1>3
      <3>4. ~\E i \in 1 .. Len(roots') : TRUE
        BY <3>3
      <3>5. QED
        BY <1>1, <1>3, <2>2, <3>1, <3>2, <3>4 DEF RootsInv
    <2>3. CASE ti \notin blocks /\ ti' = ti - 1 /\ pc' = pc /\ prev' = prev
      <3>1. \A s \in ti .. StartSlot - 1 : s = ti \/ s \in ti + 1 .. StartSlot - 1
        BY <1>3
      <3>2. (ti .. StartSlot - 1) \cap blocks = {}
        BY <2>1, <2>3, <3>1 DEF NoBlocks
      <3>3. ti' + 1 = ti
        BY <1>3, <2>3
      <3>4. NoBlocks(ti + 1, StartSlot - 1)'
        BY <1>1, <1>3, <3>2, <3>3 DEF NoBlocks
      <3>5. QED
        BY <1>1, <2>3, <3>4 DEF RootsInv
    <2>4. QED
      BY <1>4, <2>2, <2>3
  <1>7. QED
    BY <1>5, <1>6

LEMMA NoPrevRoots == ASSUME TriesInv, NoPrev PROVE RootsInv' /\ TriesRight'
  <1>1. /\ pc = "prev" /\ pc' = "fill" /\ ~(ti > StartSlot - Window)
        /\ UNCHANGED <<blocks, ht, req, roots, prev, faults>>
    BY DEF NoPrev, Looking
  <1>2. /\ StartSlot \in Nat /\ Window \in Nat \ {0} /\ StartSlot' = StartSlot
        /\ ti \in StartSlot - Window .. StartSlot - 1 /\ roots = <<>> /\ prev = NilRoot
    BY <1>1, RequestIs DEF TriesInv, BlockInv, TypeOK, BuildInv, StartSlot
  <1>3. ti = StartSlot - Window
    BY <1>1, <1>2
  <1>4. faults = 0 => NoBlocks(StartSlot - Window + 1, StartSlot - 1)
    BY <1>1, <1>3 DEF TriesInv, RootsInv
  <1>5. NoBlocks(StartSlot - Window + 1, StartSlot - 1)'
          = NoBlocks(StartSlot - Window + 1, StartSlot - 1)
    BY <1>1, <1>2 DEF NoBlocks
  <1>6. Len(roots') = 0
    BY <1>1, <1>2
  <1>7. ~\E i \in 1 .. Len(roots') : TRUE
    BY <1>6
  <1>8. RootsInv'
    BY <1>1, <1>2, <1>4, <1>5, <1>7 DEF RootsInv
  <1>9. TriesRight'
    BY <1>1, TriesKept DEF TriesInv
  <1>10. QED
    BY <1>8, <1>9

\* The root appended for the slot asked for.
LEMMA RootAppended ==
    ASSUME TriesInv, pc = "fill", faults = 0, NEW r, ti \in blocks => r = ti,
           ti \notin blocks => r = Repeated
    PROVE  \/ r = LastBlock(ti)
           \/ r = NilRoot /\ prev = NilRoot /\ NoBlocks(StartSlot, ti)
  <1>1. /\ blocks \in Chains /\ StartSlot \in Nat /\ ti \in Nat /\ ti >= StartSlot
        /\ Len(roots) = ti - StartSlot /\ roots \in Seq(Root) /\ Window \in Nat
    BY RequestIs DEF TriesInv, BlockInv, TypeOK, BuildInv
  <1>2. /\ IF prev = NilRoot THEN NoBlocks(StartSlot - Window + 1, StartSlot - 1)
           ELSE prev \in blocks /\ prev < StartSlot /\ NoBlocks(prev + 1, StartSlot - 1)
        /\ \A i \in 1 .. Len(roots) :
              \/ roots[i] = LastBlock(StartSlot + i - 1)
              \/ roots[i] = NilRoot /\ prev = NilRoot /\ NoBlocks(StartSlot, StartSlot + i - 1)
    BY DEF TriesInv, RootsInv
  <1>3. CASE ti \in blocks
    BY <1>1, <1>3, OwnLastBlock
  <1>4. CASE ti \notin blocks /\ roots = <<>>
    <2>1. ti = StartSlot /\ r = prev
      BY <1>1, <1>4 DEF Repeated
    <2>2. CASE prev = NilRoot
      <3>1. (StartSlot .. ti) = {ti}
        BY <1>1, <2>1
      <3>2. NoBlocks(StartSlot, ti)
        BY <1>4, <3>1 DEF NoBlocks
      <3>3. QED
        BY <2>1, <2>2, <3>2
    <2>3. CASE prev # NilRoot
      <3>1. prev \in blocks /\ prev < StartSlot /\ NoBlocks(prev + 1, StartSlot - 1)
        BY <1>2, <2>3
      <3>2. prev \in Nat
        BY <1>1, <3>1, BlocksAre
      <3>3. \A s \in prev + 1 .. ti : s = ti \/ s \in prev + 1 .. StartSlot - 1
        BY <1>1, <2>1, <3>2
      <3>4. (prev + 1 .. ti) \cap blocks = {}
        BY <1>4, <3>1, <3>3 DEF NoBlocks
      <3>5. LastBlock(ti) = prev
        BY <1>1, <2>1, <3>1, <3>2, <3>4, LastBlockUnique
      <3>6. QED
        BY <2>1, <3>5
    <2>4. QED
      BY <2>2, <2>3
  <1>5. CASE ti \notin blocks /\ roots # <<>>
    <2> DEFINE n == Len(roots)
    <2>1. n \in Nat /\ n >= 1 /\ r = roots[n] /\ n = ti - StartSlot
      <3> DEFINE R == Root
      <3>1. roots \in Seq(R)
        BY <1>1
      <3> HIDE DEF R
      <3>2. Len(roots) \in Nat /\ Len(roots) # 0
        BY <1>5, <3>1
      <3>3. QED
        BY <1>1, <1>5, <3>2 DEF Repeated, Last
    <2>2. \/ r = LastBlock(StartSlot + n - 1)
          \/ r = NilRoot /\ prev = NilRoot /\ NoBlocks(StartSlot, StartSlot + n - 1)
      <3>1. n \in 1 .. Len(roots)
        BY <2>1
      <3>2. QED
        BY <1>2, <2>1, <3>1
    <2> HIDE DEF n
    <2>3. StartSlot + n - 1 = ti - 1 /\ ti \in Nat \ {0}
      BY <1>1, <2>1
    <2>4. LastBlock(ti) = LastBlock(ti - 1)
      BY <1>1, <1>5, <2>3, LastBlockBefore
    <2>5. NoBlocks(StartSlot, ti - 1) => NoBlocks(StartSlot, ti)
      <3>1. \A s \in StartSlot .. ti : s = ti \/ s \in StartSlot .. ti - 1
        BY <1>1
      <3>2. QED
        BY <1>5, <3>1 DEF NoBlocks
    <2>6. QED
      BY <2>2, <2>3, <2>4, <2>5
  <1>6. QED
    BY <1>3, <1>4, <1>5

LEMMA FillRoots == ASSUME TriesInv, Fill PROVE RootsInv' /\ TriesRight'
  <1>1. /\ pc = "fill" /\ ti' = ti + 1 /\ UNCHANGED <<blocks, ht, pc, req, prev>>
    BY DEF Fill
  <1>2. faults' = 0 => faults = 0
    BY FaultsStay DEF TriesInv, BlockInv, Next
  <1>3. /\ StartSlot \in Nat /\ StartSlot' = StartSlot
        /\ ti \in Nat /\ Len(roots) = ti - StartSlot /\ Len(roots) \in Nat
    <2>1. /\ StartSlot \in Nat /\ StartSlot' = StartSlot /\ Window \in Nat \ {0}
          /\ ti \in StartSlot .. StartSlot + Window /\ Len(roots) = ti - StartSlot
      BY <1>1, RequestIs DEF TriesInv, BlockInv, TypeOK, BuildInv, StartSlot
    <2>2. QED
      BY <2>1
  <1>4. TriesRight'
    BY <1>1, <1>2, TriesKept DEF TriesInv
  <1>5. RootsInv'
    <2> SUFFICES ASSUME faults' = 0 PROVE RootsInv'
      BY DEF RootsInv
    <2> DEFINE n == Len(roots)
    <2>1. PICK r : /\ ti \in blocks => r = ti
                   /\ ti \notin blocks => r = Repeated
                   /\ Len(roots') = n + 1 /\ roots'[n + 1] = r
                   /\ \A i \in 1 .. n : roots'[i] = roots[i]
      BY FillIs DEF TriesInv
    <2>2. \/ r = LastBlock(ti)
          \/ r = NilRoot /\ prev = NilRoot /\ NoBlocks(StartSlot, ti)
      BY <1>1, <1>2, <2>1, RootAppended
    <2>3. /\ IF prev = NilRoot THEN NoBlocks(StartSlot - Window + 1, StartSlot - 1)
             ELSE prev \in blocks /\ prev < StartSlot /\ NoBlocks(prev + 1, StartSlot - 1)
          /\ \A i \in 1 .. n :
                \/ roots[i] = LastBlock(StartSlot + i - 1)
                \/ roots[i] = NilRoot /\ prev = NilRoot /\ NoBlocks(StartSlot, StartSlot + i - 1)
      BY <1>1, <1>2 DEF TriesInv, RootsInv
    <2> HIDE DEF n
    <2>4. n \in Nat /\ ti = StartSlot + (n + 1) - 1
      BY <1>3 DEF n
    <2>5. \A i \in 1 .. n + 1 : i \in 1 .. n \/ i = n + 1
      BY <2>4
    <2>6. \A i \in 1 .. Len(roots') :
             \/ roots'[i] = LastBlock(StartSlot + i - 1)
             \/ roots'[i] = NilRoot /\ prev = NilRoot /\ NoBlocks(StartSlot, StartSlot + i - 1)
      BY <2>1, <2>2, <2>3, <2>4, <2>5
    <2>7. /\ \A s : LastBlock(s)' = LastBlock(s)
          /\ \A x, y : NoBlocks(x, y)' = NoBlocks(x, y)
          /\ prev' = prev /\ StartSlot' = StartSlot /\ blocks' = blocks
      BY <1>1, <1>3 DEF LastBlock, NoBlocks
    <2>8. \A i \in 1 .. Len(roots') :
             \/ roots'[i] = LastBlock(StartSlot + i - 1)'
             \/ roots'[i] = NilRoot /\ prev' = NilRoot /\ NoBlocks(StartSlot, StartSlot + i - 1)'
      BY <2>6, <2>7
    <2>9. /\ NoBlocks(StartSlot - Window + 1, StartSlot - 1)'
               = NoBlocks(StartSlot - Window + 1, StartSlot - 1)
          /\ NoBlocks(prev + 1, StartSlot - 1)' = NoBlocks(prev + 1, StartSlot - 1)
      BY <2>7 DEF NoBlocks
    <2>10. IF prev' = NilRoot THEN NoBlocks(StartSlot - Window + 1, StartSlot - 1)'
           ELSE prev' \in blocks' /\ prev' < StartSlot' /\ NoBlocks(prev + 1, StartSlot - 1)'
      BY <2>3, <2>7, <2>9
    <2>11. pc' = "fill"
      BY <1>1
    <2>12. QED
      BY <2>8, <2>10, <2>11 DEF RootsInv
  <1>6. QED
    BY <1>4, <1>5

\* A trie that is kept without failed calls is of the roots the state sums up.
LEMMA KeptTrieIsSummary ==
    ASSUME TriesInv, pc = "fill", ti = StartSlot + Window, NilRoot \notin Range(roots), faults = 0
    PROVE  roots = Summary(SlotToHistoricalSummariesIndex(StartSlot))
  <1> DEFINE k == SlotToHistoricalSummariesIndex(StartSlot)
             S == Summary(k)
             W == Window
  <1>1. /\ blocks \in Chains /\ StartSlot \in Nat /\ W \in Nat \ {0} /\ k \in Nat
        /\ StartSlot = ForkSlot + k * W /\ roots \in Seq(Int)
    BY RequestIs DEF TriesInv, BlockInv, TypeOK
  <1>2. Len(roots) = W
    BY <1>1 DEF TriesInv, BlockInv, BuildInv
  <1> HIDE DEF k
  <1>3. Len(S) = W /\ \A i \in 1 .. W : S[i] = LastBlock(ForkSlot + k * W + i - 1)
    BY <1>1, SummaryIs
  <1>4. S \in Seq(Int)
    BY <1>1, Summed
  <1> HIDE DEF S, W
  <1>5. \A i \in 1 .. W : roots[i] \in Range(roots)
    BY <1>1, <1>2, LenProperties DEF Range
  <1>6. \A i \in 1 .. W : roots[i] = LastBlock(StartSlot + i - 1)
    BY <1>2, <1>5 DEF TriesInv, RootsInv
  <1>7. \A i \in 1 .. W : roots[i] = S[i]
    BY <1>1, <1>3, <1>6
  <1>8. roots = S
    BY <1>1, <1>2, <1>3, <1>4, <1>7, SeqEqual
  <1>9. QED
    BY <1>8 DEF S, k

LEMMA KeepTrieRoots == ASSUME TriesInv, KeepTrie PROVE RootsInv' /\ TriesRight'
  <1>1. /\ pc = "fill" /\ ti = StartSlot + Window /\ UNCHANGED <<blocks, faults>>
    BY DEF KeepTrie
  <1>2. CASE NilRoot \in Range(roots)
    <2>1. ht' \in {ht, NoTries} /\ pc' = "idle"
      BY <1>2 DEF KeepTrie, Die, Finish
    <2>2. QED
      BY <1>1, <2>1, TriesKept DEF TriesInv, RootsInv
  <1>3. CASE NilRoot \notin Range(roots)
    <2>1. ht' = [ht EXCEPT ![StartSlot] = roots] /\ pc' = "trie"
      BY <1>3 DEF KeepTrie
    <2>2. DOMAIN ht = 0 .. MaxSlot
      BY DEF TriesInv, BlockInv, TypeOK
    <2>3. \A k : Summary(k)' = Summary(k)
      BY <1>1 DEF Summary, LastBlock
    <2>4. faults = 0 => roots = Summary(SlotToHistoricalSummariesIndex(StartSlot))
      BY <1>1, <1>3, KeptTrieIsSummary
    <2>5. DOMAIN ht' = DOMAIN ht
          /\ \A s \in DOMAIN ht : ht'[s] = IF s = StartSlot THEN roots ELSE ht[s]
      BY <2>1
    <2>6. TriesRight'
      BY <1>1, <2>3, <2>4, <2>5 DEF TriesInv, TriesRight
    <2>7. RootsInv'
      BY <2>1 DEF RootsInv
    <2>8. QED
      BY <2>6, <2>7
  <1>4. QED
    BY <1>2, <1>3

LEMMA TriesInvStep == TriesInv /\ [Next]_vars => TriesInv'
  <1> SUFFICES ASSUME TriesInv, [Next]_vars PROVE RootsInv' /\ TriesRight'
    BY BlockInvStep DEF TriesInv
  <1>1. CASE BuildTrie \/ FindPrev \/ NoPrev \/ Fill \/ KeepTrie
    BY <1>1, BuildTrieRoots, FindPrevRoots, NoPrevRoots, FillRoots, KeepTrieRoots, Zenon
  <1>2. CASE ~BuildTrie /\ ~FindPrev /\ ~NoPrev /\ ~Fill /\ ~KeepTrie
    <2>1. faults' = 0 => faults = 0
      BY FaultsStay DEF TriesInv, BlockInv
    <2>2. /\ blocks' = blocks
          /\ \/ ht' \in {ht, NoTries} /\ pc' \notin {"prev", "fill"}
             \/ UNCHANGED vars
      BY <1>2, OtherStepsKeepTries
    <2>3. ht' \in {ht, NoTries}
      BY <2>2 DEF vars
    <2>4. TriesRight'
      BY <2>1, <2>2, <2>3, TriesKept DEF TriesInv
    <2>5. CASE pc' \notin {"prev", "fill"}
      BY <2>4, <2>5 DEF RootsInv
    <2>6. CASE UNCHANGED vars
      <3>1. UNCHANGED <<blocks, pc, req, ti, prev, roots, faults>>
        BY <2>6 DEF vars
      <3>2. RootsInv'
        BY <3>1 DEF TriesInv, RootsInv, NoBlocks, LastBlock, StartSlot
      <3>3. QED
        BY <2>4, <3>2
    <2>7. QED
      BY <2>2, <2>5, <2>6
  <1>3. QED
    BY <1>1, <1>2

LEMMA TriesInvHolds == Spec => []TriesInv
  <1>1. Init => TriesInv
    <2>1. \A s \in DOMAIN NoTries : NoTries[s] = NotThere
      BY DEF NoTries
    <2>2. QED
      BY <2>1, BlockInvInit DEF Init, TriesInv, RootsInv, TriesRight
  <1>2. QED
    BY <1>1, TriesInvStep, PTL DEF Spec

\* As long as no call has failed, every trie getHistoricalSummariesTrie keeps is of
\* the roots the beacon state sums up, for every chain: also when slots at the
\* beginning of its window have no block and the root is looked for before it, and
\* for any number of requests that share a kept trie.
THEOREM TriesAreRight == Spec => []TriesRight
  <1>1. TriesInv => TriesRight
    BY DEF TriesInv
  <1>2. QED
    BY <1>1, TriesInvHolds, PTL

------------------------------------------------------------------------------
(* The proofs made (blockProofForMessageProof) *)

\* A result that a step leaves or makes is no proof of a block but for four.
LEMMA ProofsComeFrom ==
    ASSUME BlockInv, [Next]_vars, result'.is = "block", result' # result
    PROVE  \/ \E s \in Heights : \E r \in {s, Orphaned(s)} : AskBlock([slot |-> s, root |-> r])
           \/ ProveByRoot
           \/ pc = "root" /\ Fault /\ TakeRoot(Short(GIndexAsked))
           \/ ProveByTrie
  <1>1. /\ \A g, x, keys : MessageProof(g, x, keys).is # "block"
        /\ Failed.is # "block" /\ Nothing.is # "block" /\ \A body : Crashed(body).is # "block"
    BY DEF MessageProof, Failed, Nothing, Crashed
  <1>2. CASE Ask
    <2>1. \/ \E s \in Heights : \E r \in {s, Orphaned(s)} : AskBlock([slot |-> s, root |-> r])
          \/ \E s : WarmUp(s)
          \/ \E l : AskMessage(l)
      BY <1>2, Zenon DEF Ask
    <2>2. QED
      BY <1>1, <2>1 DEF WarmUp, AskMessage
  <1>3. ~StateProofFails
    BY <1>1, Zenon DEF StateProofFails, Finish
  <1>3b. CASE StateProofSpoiled
    BY <1>1, <1>3b, SpoiledIs, Zenon DEF Die, Finish, TakeSummary
  <1>4. ~MakeMessageProof /\ ~MessageFails
    BY <1>1, Zenon DEF MakeMessageProof, MessageFails, Finish
  <1>5. ~ReceiptsRootSpoiled
    <2> SUFFICES ASSUME ReceiptsRootSpoiled PROVE FALSE
      OBVIOUS
    <2>1. PICK g, body, o : CASE o = Dies -> Die(body)
                              [] o = Error -> Finish(Failed) /\ UNCHANGED ht
                              [] OTHER -> Finish(MessageProof(g, o.gindex, Keys(logs))) /\ UNCHANGED ht
      BY Zenon DEF ReceiptsRootSpoiled
    <2>2. \/ Finish(Crashed(body)) \/ Finish(Failed) \/ Finish(MessageProof(g, o.gindex, Keys(logs)))
      BY <2>1 DEF Die
    <2>3. QED
      BY <1>1, <2>2, Zenon DEF Finish
  <1>6. ~KeepTrie
    BY <1>1 DEF KeepTrie, Die, Finish
  <1>7. ~Advance
    BY <1>1 DEF Advance
  <1>8. ~ProveSummary /\ ~BuildTrie /\ ~FindPrev /\ ~NoPrev /\ ~Fill /\ ~UNCHANGED vars
    BY StateProofIs DEF ProveSummary, TakeSummary, BuildTrie, FindPrev, NoPrev, Fill, vars
  <1>9. QED
    BY <1>2, <1>3, <1>3b, <1>4, <1>5, <1>6, <1>7, <1>8, Zenon DEF Next

\* A header of the height needs no proof.
LEMMA SameSlotVerifies ==
    ASSUME BlockInv, NEW s \in Heights, NEW r \in {s, Orphaned(s)},
           AskBlock([slot |-> s, root |-> r]), result'.is = "block"
    PROVE  BlockProofVerifies'
  <1> DEFINE q == [slot |-> s, root |-> r]
  <1>1. q.slot = s /\ q.root = r
    OBVIOUS
  <1>2. s = height /\ result' = [BlockProof(NotThere, TRUE, NotThere, 0) EXCEPT !.header = q]
    <2> DEFINE b == [BlockProof(NotThere, TRUE, NotThere, 0) EXCEPT !.header = q]
    <2>1. (s = height /\ result' = b) \/ result' = Nothing
      BY Zenon DEF AskBlock
    <2>2. Nothing.is = "none"
      BY DEF Nothing
    <2> HIDE DEF b
    <2>3. s = height /\ result' = b
      BY <2>1, <2>2
    <2>4. QED
      BY <2>3 DEF b
  <1>3. result'.header = q /\ result'.height = height
    BY <1>2 DEF BlockProof
  <1>4. height \in Nat
    BY HeightIs DEF BlockInv, TypeOK
  <1>5. CASE r = s
    <2>1. Verifies(result')
      BY <1>1, <1>2, <1>3, <1>5 DEF Verifies
    <2>2. QED
      BY <2>1 DEF BlockProofVerifies
  <1>6. CASE r = Orphaned(s)
    <2>1. height - s \notin 1 .. Window - 1
      BY <1>2, <1>4
    <2>2. /\ result'.header.root = Orphaned(result'.header.slot)
          /\ result'.height - result'.header.slot \notin 1 .. Window - 1
      BY <1>1, <1>2, <1>3, <1>6, <2>1
    <2>3. QED
      BY <2>2 DEF BlockProofVerifies, Orphaned
  <1>7. QED
    BY <1>5, <1>6

\* A proof that verifies with the node's hashes is one of those allowed.
LEMMA AllowedIs ==
    ASSUME NEW leaf, NEW w \in BOOLEAN, NEW trie, NEW x,
           result' = BlockProof(leaf, w, trie, x), Verifies(BlockProof(leaf, TRUE, trie, x)),
           ~w => faults' > 0
    PROVE  BlockProofVerifies'
  <1> DEFINE p == BlockProof(leaf, w, trie, x)
             q == BlockProof(leaf, TRUE, trie, x)
  <1>1. p.whole = w /\ [p EXCEPT !.whole = TRUE] = q /\ (w => p = q)
    <2>1. \A v, u : /\ [BlockProof(leaf, v, trie, x) EXCEPT !.whole = u] = BlockProof(leaf, u, trie, x)
                    /\ BlockProof(leaf, v, trie, x).whole = v
      BY DEF BlockProof
    <2>2. [p EXCEPT !.whole = TRUE] = q /\ p.whole = w
      BY <2>1
    <2>3. CASE w = TRUE
      BY <2>2, <2>3
    <2>4. CASE w = FALSE
      BY <2>2, <2>4
    <2>5. QED
      BY <2>3, <2>4
  <1> HIDE DEF p, q
  <1>2. result' = p /\ Verifies(q)
    BY DEF p, q
  <1>3. Verifies(result') \/ (~result'.whole /\ Verifies([result' EXCEPT !.whole = TRUE]))
    BY <1>1, <1>2
  <1>4. QED
    BY <1>1, <1>2, <1>3 DEF BlockProofVerifies, Verifies

\* TakeRoot compares the leaf with the header's root, whatever the hashes.
LEMMA RootProofVerifies ==
    ASSUME BlockInv, pc = "root", NEW o, TakeRoot(o), o.is # "ok" => faults' > 0,
           result'.is = "block"
    PROVE  BlockProofVerifies'
  <1>1. height - req.slot \in 1 .. Window - 1
    BY DEF BlockInv, ReqInv
  <1> DEFINE w == (o.is = "ok")
             b == BlockProof(<<req.root>>, w, NotThere, 0)
             q == BlockProof(<<req.root>>, TRUE, NotThere, 0)
  <1>2. result' = b
    <2> DEFINE l == StateAt(height, o.gindex)
    <2>1. result' = IF l = <<req.root>> THEN BlockProof(l, w, NotThere, 0) ELSE Failed
      BY Zenon DEF TakeRoot, Finish
    <2> HIDE DEF l, w
    <2>2. QED
      BY <2>1 DEF Failed
  <1>3. q.header = req /\ q.height = height /\ q.leaf = <<req.root>> /\ q.trie = NotThere /\ q.whole
    BY DEF BlockProof
  <1>4. req.slot # height
    <2>1. height \in Nat /\ req.slot \in Nat /\ Window \in Nat
      BY RequestIs, HeightIs DEF BlockInv, TypeOK
    <2>2. QED
      BY <1>1, <2>1
  <1>5. Verifies(q)
    <2> HIDE DEF q
    <2>1. QED
      BY <1>3, <1>4 DEF Verifies
  <1>6. w \in BOOLEAN /\ (~w => faults' > 0)
    OBVIOUS
  <1> HIDE DEF w
  <1>7. QED
    BY <1>2, <1>5, <1>6, AllowedIs

LEMMA TrieProofVerifies ==
    ASSUME BlockInv, ProveByTrie, result'.is = "block"
    PROVE  BlockProofVerifies'
  <1> DEFINE k == SlotToHistoricalSummariesIndex(req.slot)
             i == SlotToBlockRootsIndex(req.slot)
             W == Window
             t == ht[StartSlot]
             x == ArrayIdxToGIndex(1, Window, i, 1)
  <1>1. /\ pc = "trie" /\ t # NotThere /\ req.root # NilRoot /\ blocks' = blocks
        /\ result' = BlockProof(pi, whole, t, x) /\ faults' = faults
    BY DEF ProveByTrie, Finish, Nothing
  <1>2. /\ req.slot \in Heights /\ req.root \in {req.slot, Orphaned(req.slot)}
        /\ height - req.slot >= W /\ pi = Summary(k)
        /\ whole \in BOOLEAN /\ (~whole => faults > 0)
    BY <1>1, ProofAssumption DEF BlockInv, TypeOK, ReqInv, Proving, Building, Old
  <1>3. /\ result'.header = req /\ result'.height = height /\ result'.leaf = Summary(k)
        /\ result'.trie = t /\ result'.index = x
    BY <1>1, <1>2 DEF BlockProof
  <1>4. /\ blocks \in Chains /\ k \in Nat /\ i \in 0 .. W - 1 /\ W \in Nat \ {0}
        /\ req.slot = ForkSlot + k * W + i /\ req.slot \in Nat /\ height \in Nat
    <2>1. blocks \in Chains /\ height \in Heights /\ req \in Header
      BY DEF BlockInv, TypeOK
    <2>2. height \in Nat
      BY <2>1, HeightIs
    <2>3. /\ k \in Nat /\ i \in 0 .. W - 1 /\ W \in Nat \ {0} /\ req.slot \in Nat
          /\ StartSlot = ForkSlot + k * W /\ req.slot = StartSlot + i
      BY <2>1, RequestIs
    <2> HIDE DEF k, i, W, t, x
    <2>4. req.slot = ForkSlot + k * W + i
      BY <2>3, Zenon
    <2>5. QED
      BY <2>1, <2>2, <2>3, <2>4, Zenon
  <1>5. CASE t # Summary(k)
    <2>1. Summary(SlotToHistoricalSummariesIndex(result.header.slot))' = Summary(k)
      BY <1>1, <1>3 DEF Summary, LastBlock
    <2>2. QED
      BY <1>1, <1>3, <1>5, <2>1 DEF BlockProofVerifies, NotThere
  <1>6. CASE t = Summary(k) /\ req.root = req.slot
    <2>1. x = W + i
      BY <1>4, RootGIndex
    <2> HIDE DEF k, i, W, t, x
    <2>2. x - W + 1 = i + 1 /\ i + 1 \in 1 .. W /\ ForkSlot + k * W + (i + 1) - 1 = req.slot
      <3> DEFINE p == k * W
      <3>1. p \in Nat /\ ForkSlot \in Nat
        BY <1>4, ConstantsAre
      <3> HIDE DEF p
      <3>2. req.slot = ForkSlot + p + i
        BY <1>4 DEF p
      <3>3. ForkSlot + p + (i + 1) - 1 = req.slot
        BY <1>4, <3>1, <3>2
      <3>4. QED
        BY <1>4, <2>1, <3>3 DEF p
    <2>3. Summary(k)[i + 1] = LastBlock(ForkSlot + k * W + (i + 1) - 1)
      BY <1>4, <2>2, SummaryIs DEF W
    <2>4. LastBlock(req.slot) = req.slot
      BY <1>2, <1>4, OwnLastBlock DEF Heights
    <2>5. Summary(k)[x - W + 1] = req.slot
      BY <2>2, <2>3, <2>4
    <2>6. req.slot # height
      BY <1>2, <1>4
    <2> DEFINE q == BlockProof(pi, TRUE, t, x)
    <2>7. /\ q.header = req /\ q.height = height /\ q.leaf = Summary(k) /\ q.whole
          /\ q.trie = t /\ q.index = x
      BY <1>2 DEF BlockProof
    <2>8. Verifies(q)
      <3> HIDE DEF q
      <3>1. QED
        BY <1>1, <1>6, <2>5, <2>6, <2>7 DEF Verifies, W
    <2>9. QED
      BY <1>1, <1>2, <2>8, AllowedIs
  <1>7. CASE req.root = Orphaned(req.slot)
    <2>1. height - req.slot \notin 1 .. W - 1
      BY <1>2, <1>4
    <2>2. QED
      BY <1>3, <1>7, <2>1 DEF BlockProofVerifies, Orphaned
  <1>8. QED
    BY <1>2, <1>5, <1>6, <1>7

LEMMA VerifiesStep ==
    BlockInv /\ BlockProofVerifies /\ [Next]_vars => BlockProofVerifies'
  <1> SUFFICES ASSUME BlockInv, BlockProofVerifies, [Next]_vars, result'.is = "block"
               PROVE  BlockProofVerifies'
    BY DEF BlockProofVerifies
  <1>1. CASE result' = result
    <2>1. blocks' = blocks
      BY SpoiledIs DEF Next, Ask, AskBlock, WarmUp, AskMessage, ProveByRoot, ProveSummary,
         StateProofFails, BuildTrie, FindPrev, NoPrev, Fill, KeepTrie, ProveByTrie,
         MakeMessageProof, MessageFails, ReceiptsRootSpoiled, Advance, vars
    <2>2. \A k : Summary(k)' = Summary(k)
      BY <2>1 DEF Summary, LastBlock
    <2>3. faults > 0 => faults' > 0
      <3>1. faults \in Nat /\ faults' \in Nat
        BY ProofAssumption, BlockInvStep DEF BlockInv, TypeOK
      <3>2. QED
        BY <3>1, FaultsStay DEF BlockInv
    <2>4. QED
      BY <1>1, <2>2, <2>3 DEF BlockProofVerifies, Verifies, Orphaned
  <1>2. ASSUME NEW o, TakeRoot(o), pc = "root", o.is # "ok" => faults' > 0
        PROVE  BlockProofVerifies'
    BY <1>2, RootProofVerifies
  <1>3. CASE ProveByRoot
    BY <1>2, <1>3, StateProofIs DEF ProveByRoot
  <1>4. CASE pc = "root" /\ Fault /\ TakeRoot(Short(GIndexAsked))
    <2>1. faults' > 0
      BY <1>4, ProofAssumption DEF Fault, BlockInv, TypeOK
    <2>2. QED
      BY <1>2, <1>4, <2>1
  <1>5. CASE result' # result
    BY <1>3, <1>4, <1>5, ProofsComeFrom, SameSlotVerifies, TrieProofVerifies, Zenon
  <1>6. QED
    BY <1>1, <1>5

\* A block proof blockProofForMessageProof makes of a header of the chain verifies
\* at the height it was made for, for every age of the block: by the height's own
\* header, by the state's block roots or by a historical summary and the leaf of its
\* trie that the generalized indices lead to.  What remains are a state proof made of
\* an answer a few bytes short, which NewSingleProof takes, and which but for its last
\* hash is the right one; a trie kept from a failed call; and a header of an orphaned
\* block that no block root is compared with.
THEOREM BlockProofsVerify == Spec => []BlockProofVerifies
  <1>1. Init => BlockProofVerifies
    BY DEF Init, BlockProofVerifies, Nothing
  <1>2. QED
    BY <1>1, BlockInvHolds, VerifiesStep, PTL DEF Spec

\* Without failed calls only two steps refuse: ProveByRoot, of an orphaned block ...
LEMMA RootRefused ==
    ASSUME BlockInv, ProveByRoot, result'.is = "error"
    PROVE  req.root = Orphaned(req.slot)
  <1> DEFINE g == BlockRootsIdxToGIndex(SlotToBlockRootsIndex(req.slot))
             b == BlockProof(StateAt(height, g), TRUE, NotThere, 0)
  <1>1. /\ height - req.slot \in 1 .. Window - 1 /\ pc = "root"
        /\ req.slot \in Heights /\ req.root \in {req.slot, Orphaned(req.slot)}
    BY DEF BlockInv, ReqInv, Proving, ProveByRoot
  <1>2. blocks \in Chains /\ height \in Nat /\ req.slot \in Nat /\ Window \in Nat
    BY RequestIs, HeightIs DEF BlockInv, TypeOK
  <1>3. req.slot \in height - Window .. height - 1
    BY <1>1, <1>2
  <1>4. StateAt(height, g) = <<LastBlock(req.slot)>>
    BY <1>2, <1>3, StateAtRoot
  <1>5. LastBlock(req.slot) = req.slot
    BY <1>1, <1>2, OwnLastBlock DEF Heights
  <1>6. result' = IF StateAt(height, g) = <<req.root>> THEN b ELSE Failed
    <2>1. GIndexAsked = g
      BY <1>1 DEF GIndexAsked
    <2>2. TakeRoot(Ok(g)) /\ Ok(g).gindex = g /\ (Ok(g).is = "ok") = TRUE
      BY <2>1, StateProofIs DEF ProveByRoot
    <2> HIDE DEF g
    <2>3. QED
      BY <2>2 DEF TakeRoot, Finish
  <1>7. StateAt(height, g) # <<req.root>>
    <2>1. b.is # "error"
      BY DEF BlockProof
    <2> HIDE DEF g, b
    <2>2. QED
      BY <1>6, <2>1
  <1> HIDE DEF g
  <1>8. req.root # req.slot
    BY <1>4, <1>5, <1>7
  <1>9. QED
    BY <1>1, <1>8

\* ... and KeepTrie, when there is no block from before the window to its first slot.
LEMMA TrieRefused ==
    ASSUME TriesInv, KeepTrie, result'.is = "error", faults = 0
    PROVE  (StartSlot - Window + 1 .. StartSlot) \cap blocks = {}
  <1>1. pc = "fill"
    BY DEF KeepTrie
  <1>2. NilRoot \in Range(roots)
    <2> SUFFICES ASSUME NilRoot \notin Range(roots) PROVE FALSE
      OBVIOUS
    <2>1. result' = result /\ result = Nothing
      BY <1>1, Zenon DEF KeepTrie, TriesInv, BlockInv, ReqInv
    <2>2. QED
      BY <2>1 DEF Nothing
  <1>3. /\ blocks \in Chains /\ roots \in Seq(Int) /\ StartSlot \in Nat /\ Window \in Nat \ {0}
        /\ height \in Heights
    BY RequestIs DEF TriesInv, BlockInv, TypeOK
  <1>4. PICK i \in 1 .. Len(roots) : roots[i] = NilRoot
    BY <1>2, <1>3, LenProperties DEF Range
  <1>5. i \in Nat \ {0}
    BY <1>3, <1>4
  <1>6. LastBlock(StartSlot + i - 1) # NilRoot
    <2>1. StartSlot + i - 1 \in Nat
      BY <1>3, <1>5
    <2>2. LastBlock(StartSlot + i - 1) \in 0 .. MaxSlot
      BY <1>3, <2>1, LastBlockIs, BlocksAre
    <2>3. QED
      BY <1>3, <2>2, HeightIs
  <1>7. prev = NilRoot /\ NoBlocks(StartSlot, StartSlot + i - 1)
    BY <1>1, <1>4, <1>6 DEF TriesInv, RootsInv
  <1>8. NoBlocks(StartSlot - Window + 1, StartSlot - 1)
    BY <1>1, <1>7 DEF TriesInv, RootsInv
  <1>9. \A s \in StartSlot - Window + 1 .. StartSlot :
           s \in StartSlot - Window + 1 .. StartSlot - 1 \/ s \in StartSlot .. StartSlot + i - 1
    BY <1>3, <1>5
  <1>10. QED
    BY <1>7, <1>8, <1>9 DEF NoBlocks

LEMMA RefusalsStep ==
    ASSUME TriesInv, [Next]_vars, ~UNCHANGED vars, result'.is = "error", faults' = 0
    PROVE  ProveByRoot \/ KeepTrie
  <1>1. faults \in Nat /\ faults' = 0
    BY ProofAssumption DEF TriesInv, BlockInv, TypeOK
  <1>2. ~Fault
    BY <1>1 DEF Fault
  <1>3. /\ \A g, x, keys : MessageProof(g, x, keys).is # "error"
        /\ \A leaf, w, trie, index : BlockProof(leaf, w, trie, index).is # "error"
        /\ Nothing.is # "error" /\ \A body : Crashed(body).is # "error"
    BY DEF MessageProof, BlockProof, Nothing, Crashed
  <1>4. ~Ask
    <2> SUFFICES ASSUME Ask PROVE FALSE
      OBVIOUS
    <2>1. \/ \E h : AskBlock(h)
          \/ \E s : WarmUp(s)
          \/ \E l : AskMessage(l)
      BY Zenon DEF Ask
    <2>2. CASE \E h : AskBlock(h)
      <3>1. PICK h : AskBlock(h)
        BY <2>2
      <3>2. result' = Nothing \/ result' = [BlockProof(NotThere, TRUE, NotThere, 0) EXCEPT !.header = h]
        BY <3>1 DEF AskBlock
      <3>3. [BlockProof(NotThere, TRUE, NotThere, 0) EXCEPT !.header = h].is = "block"
        BY DEF BlockProof
      <3>4. QED
        BY <1>3, <3>2, <3>3
    <2>3. QED
      BY <1>3, <2>1, <2>2 DEF WarmUp, AskMessage
  <1>5. ~StateProofFails /\ ~StateProofSpoiled /\ ~MessageFails /\ ~ReceiptsRootSpoiled
    BY <1>2, Zenon DEF StateProofFails, StateProofSpoiled, MessageFails, ReceiptsRootSpoiled
  <1>6. ~MakeMessageProof
    BY <1>3, Zenon DEF MakeMessageProof, Finish
  <1>7. ~ProveByTrie
    BY <1>3 DEF ProveByTrie, Finish
  <1>8. ~Advance
    BY <1>3 DEF Advance
  <1>9. ~ProveSummary /\ ~BuildTrie /\ ~FindPrev /\ ~NoPrev /\ ~Fill
    <2>1. pc # "idle" => result.is # "error"
      BY <1>3 DEF TriesInv, BlockInv, ReqInv
    <2>2. QED
      BY <2>1, StateProofIs DEF ProveSummary, TakeSummary, BuildTrie, FindPrev, NoPrev, Fill
  <1>10. QED
    BY <1>4, <1>5, <1>6, <1>7, <1>8, <1>9, Zenon DEF Next

\* Without failed calls blockProofForMessageProof proves every header of the chain up
\* to the verifier's height, for every chain, but one whose summary begins after a
\* window's length of slots without a block: getHistoricalSummariesTrie then finds no
\* root to begin with.
THEOREM HeadersAreProved == Spec => NoneRefused
  <1>1. /\ TriesInv /\ [Next]_vars
        => [result'.is = "error" /\ faults' = 0 =>
              \/ req.root = Orphaned(req.slot)
              \/ (StartSlot - Window + 1 .. StartSlot) \cap blocks = {}]_vars
    <2> SUFFICES ASSUME TriesInv, [Next]_vars, ~UNCHANGED vars, result'.is = "error", faults' = 0
                 PROVE  \/ req.root = Orphaned(req.slot)
                        \/ (StartSlot - Window + 1 .. StartSlot) \cap blocks = {}
      BY Zenon
    <2>1. faults = 0
      BY FaultsStay DEF TriesInv, BlockInv
    <2>2. ProveByRoot \/ KeepTrie
      BY RefusalsStep
    <2>3. QED
      BY <2>1, <2>2, RootRefused, TrieRefused DEF TriesInv
  <1>2. QED
    BY <1>1, TriesInvHolds, PTL DEF Spec, NoneRefused

------------------------------------------------------------------------------
(* The proof of a message (makeMessageProofData) *)

\* The answer for a receipts root is decoded to the index asked for, and one that is
\* spoiled to none.
LEMMA ReceiptsRootIs ==
    ASSUME NEW g \in ReceiptsGIndices
    PROVE  /\ \A o \in TreeOffsetProofToSSZProof(Answer(TreeOffsetKind, g)) : o.gindex = g
           /\ \A body \in Spoiled(Answer(TreeOffsetKind, g)) :
                 \A o \in TreeOffsetProofToSSZProof(body) : o.gindex = 0
  <1> DEFINE a == Answer(TreeOffsetKind, g)
  <1>1. a.kind = TreeOffsetKind /\ a.empty = FALSE /\ a.gindex = g /\ a.missing = 0
        /\ a = [kind |-> TreeOffsetKind, empty |-> FALSE, gindex |-> g, missing |-> 0]
    BY DEF Answer
  <1>2. GetGIndex(OffsetsOf(g)) = g
    BY ProofAssumption, GIndexOfOffsets
  <1>3. NewTreeOffsetProof(a) = {Ok(GetGIndex(OffsetsOf(g)))}
    <2> HIDE DEF a
    <2>1. QED
      BY <1>1 DEF NewTreeOffsetProof
  <1>4. TreeOffsetProofToSSZProof(a) = {Ok(g)}
    <2> HIDE DEF a
    <2>1. Ok(g) # Error
      BY DEF Ok, Error
    <2>2. QED
      BY <1>2, <1>3, <2>1 DEF TreeOffsetProofToSSZProof
  <1>5. \A o \in TreeOffsetProofToSSZProof(a) : o.gindex = g
    BY <1>4 DEF Ok
  <1>6. ASSUME NEW body \in Spoiled(a) PROVE NewTreeOffsetProof(body) \subseteq {Dies, Error, Wrong}
    <2>1. \/ body.empty = TRUE
          \/ body.empty = FALSE /\ body.kind = OtherKind
          \/ body.empty = FALSE /\ body.kind = TreeOffsetKind /\ body.missing \in {1, 3, 4}
      BY <1>1 DEF Spoiled
    <2>2. OtherKind # TreeOffsetKind
      BY DEF OtherKind, TreeOffsetKind
    <2>3. QED
      BY <2>1, <2>2 DEF NewTreeOffsetProof
  <1> HIDE DEF a
  <1>7. ASSUME NEW body \in Spoiled(a), NEW o \in TreeOffsetProofToSSZProof(body) PROVE o.gindex = 0
    <2>1. o \in {Dies, Error, Wrong}
      BY <1>6, <1>7 DEF TreeOffsetProofToSSZProof
    <2>2. QED
      BY <2>1 DEF Dies, Error, Wrong
  <1>8. QED
    BY <1>5, <1>7 DEF a

\* The messages a proof is made of are a sequence of transactions.
LEMMA LogsAre ==
    ASSUME TypeOK
    PROVE  logs \in Seq(0 .. MaxTx - 1)
  <1> DEFINE V == 0 .. MaxTx - 1
  <1>1. logs = <<>> \/ \E n \in 1 .. MaxLogs : logs \in [1 .. n -> V]
    BY Zenon DEF TypeOK, Logs
  <1> HIDE DEF V
  <1>2. MaxLogs \in Nat
    BY ProofAssumption
  <1>3. \A n \in 1 .. MaxLogs : n \in Nat
    BY <1>2
  <1>4. \A n \in 1 .. MaxLogs : [1 .. n -> V] \subseteq Seq(V)
    BY <1>3, SeqDef, Zenon
  <1>5. logs \in Seq(V)
    BY <1>1, <1>4, EmptySeq
  <1>6. QED
    BY <1>5 DEF V

LEMMA MessageProofs ==
    ASSUME BlockInv, MessageProofRight, [Next]_vars, result'.is = "message"
    PROVE  \/ result' = result
           \/ \E g \in ReceiptsGIndices, x \in Nat :
                 (x = g \/ x = 0) /\ result' = MessageProof(g, x, Keys(logs))
  <1>1. /\ \A leaf, w, trie, index : BlockProof(leaf, w, trie, index).is # "message"
        /\ Failed.is # "message" /\ Nothing.is # "message" /\ \A body : Crashed(body).is # "message"
    BY DEF BlockProof, Failed, Nothing, Crashed
  <1>2. ReceiptsGIndices \subseteq Nat /\ 0 \in Nat
    BY ProofAssumption
  <1>3. CASE Ask
    <2>1. \/ \E h : AskBlock(h)
          \/ \E s : WarmUp(s)
          \/ \E l : AskMessage(l)
      BY <1>3, Zenon DEF Ask
    <2>2. CASE \E h : AskBlock(h)
      <3>1. PICK h : AskBlock(h)
        BY <2>2
      <3>2. result' = Nothing \/ result' = [BlockProof(NotThere, TRUE, NotThere, 0) EXCEPT !.header = h]
        BY <3>1 DEF AskBlock
      <3>3. [BlockProof(NotThere, TRUE, NotThere, 0) EXCEPT !.header = h].is = "block"
        BY DEF BlockProof
      <3>4. QED
        BY <1>1, <3>2, <3>3
    <2>3. QED
      BY <1>1, <2>1, <2>2 DEF WarmUp, AskMessage
  <1>4. CASE MakeMessageProof
    <2>1. PICK g \in ReceiptsGIndices :
             \E o \in TreeOffsetProofToSSZProof(Answer(TreeOffsetKind, g)) :
                result' = MessageProof(g, o.gindex, Keys(logs))
      BY <1>4, Zenon DEF MakeMessageProof, Finish
    <2>2. \A o \in TreeOffsetProofToSSZProof(Answer(TreeOffsetKind, g)) : o.gindex = g
      BY ReceiptsRootIs
    <2>3. QED
      BY <1>2, <2>1, <2>2
  <1>5. CASE ReceiptsRootSpoiled
    <2>1. PICK g \in ReceiptsGIndices :
           \E body \in Spoiled(Answer(TreeOffsetKind, g)) :
            \E o \in TreeOffsetProofToSSZProof(body) :
             CASE o = Dies -> Die(body)
               [] o = Error -> Finish(Failed) /\ UNCHANGED ht
               [] OTHER -> Finish(MessageProof(g, o.gindex, Keys(logs))) /\ UNCHANGED ht
      BY <1>5, Zenon DEF ReceiptsRootSpoiled
    <2>2. PICK body \in Spoiled(Answer(TreeOffsetKind, g)) :
           \E o \in TreeOffsetProofToSSZProof(body) :
             CASE o = Dies -> Die(body)
               [] o = Error -> Finish(Failed) /\ UNCHANGED ht
               [] OTHER -> Finish(MessageProof(g, o.gindex, Keys(logs))) /\ UNCHANGED ht
      BY <2>1
    <2>3. PICK o \in TreeOffsetProofToSSZProof(body) :
             CASE o = Dies -> Die(body)
               [] o = Error -> Finish(Failed) /\ UNCHANGED ht
               [] OTHER -> Finish(MessageProof(g, o.gindex, Keys(logs))) /\ UNCHANGED ht
      BY <2>2
    <2>4. \/ Finish(Crashed(body)) \/ Finish(Failed) \/ Finish(MessageProof(g, o.gindex, Keys(logs)))
      BY <2>3 DEF Die
    <2>5. result' = MessageProof(g, o.gindex, Keys(logs))
      BY <1>1, <2>4, Zenon DEF Finish
    <2>6. o.gindex = 0
      BY ReceiptsRootIs
    <2>7. QED
      BY <1>2, <2>5, <2>6
  <1>6. /\ ~ProveByRoot /\ ~StateProofFails /\ ~MessageFails
        /\ StateProofSpoiled => result' = result
    <2>1. ~\E o : TakeRoot(o)
      <3> SUFFICES ASSUME NEW o, TakeRoot(o) PROVE FALSE
        OBVIOUS
      <3>1. \E leaf, w : result' = IF leaf = <<req.root>> THEN BlockProof(leaf, w, NotThere, 0)
                                  ELSE Failed
        BY Zenon DEF TakeRoot, Finish
      <3>2. QED
        BY <1>1, <3>1
    <2>2. ~ProveByRoot /\ ~StateProofFails /\ ~MessageFails
      BY <1>1, <2>1, Zenon DEF ProveByRoot, StateProofFails, MessageFails, Finish
    <2>3. StateProofSpoiled => result' = result
      BY <1>1, <2>1, SpoiledIs, Zenon DEF Die, Finish, TakeSummary
    <2>4. QED
      BY <2>2, <2>3
  <1>7. ~ProveByTrie /\ ~Advance
    BY <1>1 DEF ProveByTrie, Advance, Finish
  <1>8. CASE KeepTrie
    BY <1>1, <1>8 DEF KeepTrie, Die, Finish
  <1>9. CASE ProveSummary \/ BuildTrie \/ FindPrev \/ NoPrev \/ Fill \/ UNCHANGED vars
    BY <1>9, StateProofIs DEF ProveSummary, TakeSummary, BuildTrie, FindPrev, NoPrev, Fill, vars
  <1>10. QED
    BY <1>3, <1>4, <1>5, <1>6, <1>7, <1>8, <1>9, Zenon DEF Next

\* A message proof makeMessageProofData makes is of the receipts root it asked for,
\* decoded from the offsets of the node's answer, and has a proof of the receipt of
\* every transaction with a message, once each, for every number of messages and
\* transactions; unless the answer was cut short by up to three bytes.
THEOREM MessageProofsAreRight == Spec => []MessageProofRight
  <1>1. Init => MessageProofRight
    BY DEF Init, MessageProofRight, Nothing
  <1>2. BlockInv /\ MessageProofRight /\ [Next]_vars => MessageProofRight'
    <2> SUFFICES ASSUME BlockInv, MessageProofRight, [Next]_vars,
                        result'.is = "message", result'.gindex # 0
                 PROVE  /\ result'.gindex = result'.asked
                        /\ IsInjective(result'.keys) /\ ToSet(result'.keys) = result'.txs
      BY DEF MessageProofRight
    <2>1. CASE result' = result
      BY <2>1 DEF MessageProofRight
    <2>2. CASE \E g \in ReceiptsGIndices, x \in Nat :
                 (x = g \/ x = 0) /\ result' = MessageProof(g, x, Keys(logs))
      <3>1. PICK g \in ReceiptsGIndices, x \in Nat :
                   (x = g \/ x = 0) /\ result' = MessageProof(g, x, Keys(logs))
        BY <2>2
      <3>2. /\ result'.asked = g /\ result'.gindex = x /\ result'.txs = ToSet(logs)
            /\ result'.keys = Keys(logs)
        BY <3>1 DEF MessageProof
      <3>3. IsInjective(Keys(logs)) /\ ToSet(Keys(logs)) = ToSet(logs)
        <4>1. logs \in Seq(0 .. MaxTx - 1)
          BY LogsAre DEF BlockInv
        <4>2. QED
          BY <4>1, KeysRight
      <3>4. QED
        BY <3>1, <3>2, <3>3
    <2>3. QED
      BY <2>1, <2>2, MessageProofs
  <1>3. QED
    BY <1>1, <1>2, BlockInvHolds, PTL DEF Spec
=============================================================================
