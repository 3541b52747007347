-------------------------- MODULE BlockUpdateProofs --------------------------
(***************************************************************************)
(* Proofs about BlockUpdates: its types, the order of the statuses, the    *)
(* relay's idea of the verifier's height, and that a status leads the      *)
(* verifier on over any number of sync committee periods.                  *)
(***************************************************************************)
EXTENDS BlockUpdates, SequenceTheorems, FiniteSetTheorems, WellFoundedInduction, TLAPS

------------------------------------------------------------------------------
(* Induction and recursive definitions: the predicate is a set, the step a     *)
(* function, which the provers can instantiate                                 *)

LEMMA Induction ==
    ASSUME NEW T, 0 \in T, \A n \in Nat : n \in T => n + 1 \in T
    PROVE  Nat \subseteq T
  <1> DEFINE U == Nat \ T
             R == OpToRel(<, Nat)
  <1> SUFFICES ASSUME U # {} PROVE FALSE
    OBVIOUS
  <1>1. IsWellFoundedOn(R, Nat)
    BY NatLessThanWellFounded
  <1>2. U \subseteq Nat
    OBVIOUS
  <1> HIDE DEF U
  <1>3. \E x \in U : \A y \in U : ~(<<y, x>> \in R)
    <2> HIDE DEF R
    <2>1. QED
      BY <1>1, <1>2, WFMin
  <1>4. PICK x \in U : \A y \in U : ~(y < x)
    BY <1>2, <1>3 DEF OpToRel
  <1>5. x # 0 /\ x - 1 \in Nat /\ x - 1 \notin U
    BY <1>2, <1>4 DEF U
  <1>6. x - 1 \in T /\ (x - 1) + 1 = x
    BY <1>2, <1>4, <1>5 DEF U
  <1>7. QED
    BY <1>4, <1>5, <1>6 DEF U

\* A function that is defined from its value before.
Steps(V, v, N, g, f) ==
    f \in [0 .. N -> V] /\ f[0] = v /\ \A i \in 1 .. N : f[i] = g[<<f[i - 1], i>>]

LEMMA Recursion ==
    ASSUME NEW V, NEW v \in V, NEW N \in Nat, NEW g \in [V \X (1 .. N) -> V]
    PROVE  \E f : Steps(V, v, N, g, f)
  <1> DEFINE Ok(f, n) == /\ f \in [0 .. n -> V] /\ f[0] = v
                         /\ \A i \in 1 .. n : f[i] = g[<<f[i - 1], i>>]
             T == {n \in Nat : n <= N => \E f : Ok(f, n)}
  <1>1. 0 \in T
    <2> DEFINE f == [i \in 0 .. 0 |-> v]
    <2>1. Ok(f, 0)
      OBVIOUS
    <2> HIDE DEF Ok, f
    <2>2. QED
      BY <2>1
  <1>2. ASSUME NEW n \in Nat, n \in T PROVE n + 1 \in T
    <2> SUFFICES ASSUME n + 1 <= N PROVE \E f : Ok(f, n + 1)
      OBVIOUS
    <2>1. PICK f : Ok(f, n)
      BY <1>2
    <2> DEFINE h == [i \in 0 .. n + 1 |-> IF i = n + 1 THEN g[<<f[n], n + 1>>] ELSE f[i]]
    <2>2. f[n] \in V /\ n + 1 \in 1 .. N
      BY <2>1
    <2>3. g[<<f[n], n + 1>>] \in V
      BY <2>2
    <2>4. h \in [0 .. n + 1 -> V]
      BY <2>1, <2>3
    <2>5. h[0] = v
      BY <2>1
    <2>6. \A i \in 1 .. n + 1 : h[i] = g[<<h[i - 1], i>>]
      <3> SUFFICES ASSUME NEW i \in 1 .. n + 1 PROVE h[i] = g[<<h[i - 1], i>>]
        OBVIOUS
      <3>1. i - 1 \in 0 .. n + 1 /\ i \in 0 .. n + 1 /\ i - 1 # n + 1
        OBVIOUS
      <3>2. h[i - 1] = f[i - 1]
        BY <3>1
      <3>3. CASE i = n + 1
        BY <3>1, <3>2, <3>3
      <3>4. CASE i # n + 1
        <4>1. i \in 1 .. n
          BY <3>4
        <4>2. h[i] = f[i] /\ f[i] = g[<<f[i - 1], i>>]
          BY <2>1, <3>1, <3>4, <4>1
        <4>3. QED
          BY <3>2, <4>2
      <3>5. QED
        BY <3>3, <3>4
    <2> HIDE DEF h
    <2>7. QED
      BY <2>4, <2>5, <2>6
  <1> HIDE DEF T
  <1>3. Nat \subseteq T
    BY <1>1, <1>2, Induction
  <1>4. N \in T /\ N <= N
    BY <1>3
  <1>5. \E f : Ok(f, N)
    <2> HIDE DEF Ok
    <2>1. QED
      BY <1>4 DEF T
  <1>6. QED
    BY <1>5 DEF Steps

\* A bounded set of numbers has a greatest.
LEMMA MaxOf ==
    ASSUME NEW S \in SUBSET Nat, S # {}, NEW b \in Nat, \A x \in S : x <= b
    PROVE  Max(S) \in S /\ \A x \in S : x <= Max(S)
  <1>1. \E m \in S : \A x \in S : m >= x
    <2> SUFFICES ASSUME \A m \in S : \E x \in S : ~(m >= x) PROVE FALSE
      OBVIOUS
    <2> DEFINE T == {n \in Nat : \E x \in S : x >= n}
    <2>1. 0 \in T
      <3>1. PICK x \in S : TRUE
        OBVIOUS
      <3>2. x \in Nat /\ x >= 0
        OBVIOUS
      <3>3. QED
        BY <3>2
    <2>2. ASSUME NEW n \in Nat, n \in T PROVE n + 1 \in T
      <3>1. PICK m \in S : m >= n
        BY <2>2
      <3>2. PICK x \in S : ~(m >= x)
        OBVIOUS
      <3>3. x >= n + 1
        BY <3>1, <3>2
      <3>4. QED
        BY <3>3
    <2> HIDE DEF T
    <2>3. b + 1 \in T
      BY <2>1, <2>2, Induction
    <2>4. QED
      BY <2>3 DEF T
  <1>2. QED
    BY <1>1 DEF Max

------------------------------------------------------------------------------
(* The inductive invariant *)

\* The last slot block a can have finalized.
Checkpoint(a) == ((a - FinalityDelay) \div SlotPerEpoch) * SlotPerEpoch

\* Updates are of blocks, and a later one does not finalize less.
UpdatesInv ==
    /\ FirstSlot \in blocks /\ blocks \subseteq FirstSlot .. head
    /\ \A u \in updates :
         /\ u.sig \in FirstSlot + 1 .. head
         /\ u.a \in blocks /\ u.a < u.sig /\ FirstSlot <= u.a - FinalityDelay
         /\ u.f \in blocks /\ u.f <= Checkpoint(u.a)
    /\ \A u, w \in updates : u.sig <= w.sig => u.f <= w.f

Handling == pc \in {"read", "periods", "edge"}

\* A height the handler is done with: an update that is still to come, or that
\* is being handled, finalizes no less.
Reached(h) == h \in {0, FirstSlot} \/ \E u \in updates : u.f = h
Before(h) == \A u \in updates : u.sig > ev => h <= u.f
Old(h) == Reached(h) /\ Before(h) /\ (Handling => h <= upd.f)

\* The handler moves from checkpoint to checkpoint, and so do the verifier and
\* the relay's idea of it.
HandlerInv ==
    /\ ev <= head
    /\ Old(lastFU) /\ Old(blsHeight) /\ Old(bmv.height)
    /\ Handling => upd \in updates /\ upd.sig >= ev /\ Before(upd.f) /\ slot = upd.f
    /\ pc = "read" => lastFU < upd.f
    /\ pc \in {"periods", "edge"} => upd.f = lastFU /\ upd.strong /\ \A i \in DOMAIN rss : rss[i].slot < upd.f

\* What a status brings ends with its own checkpoint, which nothing before exceeds.
StatusInv(s) ==
    /\ s.buds # <<>>
    /\ s.buds[Len(s.buds)].upd.f = s.slot
    /\ \A i \in DOMAIN s.buds : s.buds[i].upd \in updates /\ s.buds[i].upd.f <= s.slot

RssInv ==
    /\ \A i \in DOMAIN rss : StatusInv(rss[i]) /\ rss[i].slot <= lastFU
    /\ StatusesAscend

\* The relay takes the verifier to be where what was relayed ends.
SentInv ==
    /\ bmv.height <= blsHeight
    /\ IF sent = <<>> THEN blsHeight = bmv.height
       ELSE /\ sent[Len(sent)].upd.f = blsHeight
            /\ \A i \in DOMAIN sent : sent[i].upd.f <= blsHeight

\* The block updates made are of the periods up to the update's, one each, or up to
\* one the node has no update of.
BudsInv ==
    /\ pc \in {"idle", "read", "periods", "dead"} => buds = <<>>
    /\ pc = "edge" => /\ from <= Period(upd.f) /\ Len(buds) <= Period(upd.f) - from
                      /\ Len(buds) < Period(upd.f) - from => Best(from + Len(buds)) = {}
                      /\ \A i \in DOMAIN buds : \E u \in Best(from + i - 1) : buds[i] = LightClientBud(u)

IInv == TypeOK /\ UpdatesInv /\ HandlerInv /\ RssInv /\ SentInv /\ BudsInv

------------------------------------------------------------------------------
(* Slots, epochs and periods *)

LEMMA Division ==
    \A n \in Nat \ {0}, a \in Nat :
        a \div n \in Nat /\ a % n \in Nat /\ a = n * (a \div n) + (a % n) /\ a % n < n
  BY SMTT(30)

LEMMA Multiples == \A n, x, y \in Nat : x < y => n * x + n <= n * y
  <1>1. \A n, x, d \in Nat : n * x + n <= n * (x + 1 + d)
    BY SMTT(30)
  <1>2. ASSUME NEW n \in Nat, NEW x \in Nat, NEW y \in Nat, x < y PROVE n * x + n <= n * y
    <2>1. y - x - 1 \in Nat /\ y = x + 1 + (y - x - 1)
      BY <1>2
    <2>2. QED
      BY <1>1, <2>1
  <1>3. QED
    BY <1>2

LEMMA DivisionAscends ==
    ASSUME NEW n \in Nat \ {0}, NEW x \in Nat, NEW y \in Nat, x <= y
    PROVE  x \div n <= y \div n
  <1> DEFINE c == x \div n
             d == y \div n
  <1>1. /\ c \in Nat /\ d \in Nat /\ x % n \in Nat /\ y % n \in Nat /\ y % n < n
        /\ x = n * c + (x % n) /\ y = n * d + (y % n)
    BY Division
  <1>2. n * c \in Nat /\ n * d \in Nat
    BY <1>1
  <1>3. d < c => n * d + n <= n * c
    BY <1>1, Multiples
  <1> HIDE DEF c, d
  <1>4. ASSUME d < c PROVE FALSE
    <2> DEFINE C == n * c
               D == n * d
               r == x % n
               q == y % n
    <2>1. C \in Nat /\ D \in Nat /\ r \in Nat /\ q \in Nat /\ q < n
          /\ x = C + r /\ y = D + q /\ D + n <= C
      BY <1>1, <1>2, <1>3, <1>4
    <2> HIDE DEF C, D, r, q
    <2>2. QED
      BY <2>1
  <1>5. c <= d
    BY <1>1, <1>4
  <1>6. QED
    BY <1>5 DEF c, d

LEMMA PeriodAscends ==
    ASSUME NEW x \in Nat, NEW y \in Nat, x <= y
    PROVE  Period(x) \in Nat /\ Period(y) \in Nat /\ Period(x) <= Period(y)
  <1> DEFINE c == x \div SlotPerEpoch
             d == y \div SlotPerEpoch
             n == EpochsPerSyncCommitteePeriod
  <1>1. c \in Nat /\ d \in Nat /\ n \in Nat \ {0} /\ c <= d
    BY TimeAssumption, DivisionAscends, Division
  <1>2. Period(x) = c \div n /\ Period(y) = d \div n
    BY DEF Period, SlotToSyncCommitteePeriod, EpochToSyncCommitteePeriod, SlotToEpoch
  <1> HIDE DEF c, d, n
  <1>3. c \div n \in Nat /\ d \div n \in Nat /\ c \div n <= d \div n
    BY <1>1, DivisionAscends, Division
  <1>4. QED
    BY <1>2, <1>3

LEMMA PeriodType == \A x \in Nat : Period(x) \in Nat
  <1> SUFFICES ASSUME NEW x \in Nat PROVE Period(x) \in Nat
    OBVIOUS
  <1>1. x <= x
    OBVIOUS
  <1>2. QED
    BY <1>1, PeriodAscends

\* What a block can have finalized is not before the first slot, and ascends.
LEMMA CheckpointAscends ==
    ASSUME NEW x \in Nat, NEW y \in Nat, x <= y, FirstSlot <= x - FinalityDelay
    PROVE  /\ Checkpoint(x) \in Nat /\ Checkpoint(y) \in Nat
           /\ FirstSlot <= Checkpoint(x) /\ Checkpoint(x) <= Checkpoint(y) /\ Checkpoint(y) < y
  <1> DEFINE n == SlotPerEpoch
             p == x - FinalityDelay
             q == y - FinalityDelay
             c == FirstSlot \div n
             d == p \div n
             e == q \div n
  <1>1. /\ n \in Nat \ {0} /\ FirstSlot \in Nat /\ FirstSlot % n = 0 /\ FinalityDelay \in Nat \ {0}
    BY TimeAssumption, UpdateAssumption DEF IsCheckPoint
  <1>2. p \in Nat /\ q \in Nat /\ FirstSlot <= p /\ p <= q /\ q < y
    BY <1>1
  <1>3. Checkpoint(x) = d * n /\ Checkpoint(y) = e * n
    BY DEF Checkpoint
  <1> HIDE DEF n, p, q
  <1>4. c \in Nat /\ d \in Nat /\ e \in Nat /\ c <= d /\ d <= e
    BY <1>1, <1>2, Division, DivisionAscends
  <1>5. FirstSlot = n * c /\ n * e <= q
    <2>1. /\ FirstSlot = n * c + (FirstSlot % n)
          /\ q = n * e + (q % n) /\ q % n \in Nat
      BY <1>1, <1>2, Division
    <2>2. n * c \in Nat /\ n * e \in Nat
      BY <1>1, <1>4
    <2> HIDE DEF c, e
    <2>3. QED
      BY <1>1, <1>2, <2>1, <2>2
  <1> HIDE DEF c, d, e
  <1>6. \A a, b, m \in Nat : a <= b => m * a <= m * b /\ m * a \in Nat /\ a * m = m * a
    BY SMTT(30)
  <1>7. n * c <= n * d /\ n * d <= n * e /\ n * d \in Nat /\ n * e \in Nat /\ d * n = n * d /\ e * n = n * e
    BY <1>1, <1>4, <1>6
  <1>8. QED
    BY <1>1, <1>2, <1>3, <1>5, <1>7

------------------------------------------------------------------------------
(* The beacon node *)

\* The slots and periods of the state, as numbers.
LEMMA Numbers ==
    ASSUME TypeOK
    PROVE  /\ FirstSlot \in Nat /\ MaxSlot \in Nat /\ FinalityDelay \in Nat \ {0}
           /\ head \in Nat /\ FirstSlot <= head /\ head <= MaxSlot
           /\ Slots \subseteq Nat /\ ev \in Nat /\ lastFU \in Nat /\ blsHeight \in Nat /\ bmv.height \in Nat
           /\ \A u \in Update : u.a \in Nat /\ u.f \in Nat /\ u.sig \in Nat /\ u.f \in Slots
           /\ upd \in Update /\ \A u \in updates : u \in Update
  <1>1. FirstSlot \in Nat /\ MaxSlot \in Nat /\ FinalityDelay \in Nat \ {0}
    BY UpdateAssumption
  <1>2. Slots \subseteq Nat
    BY <1>1 DEF Slots
  <1>3. \A u \in Update : u.a \in Nat /\ u.f \in Nat /\ u.sig \in Nat /\ u.f \in Slots
    BY <1>2 DEF Update
  <1>4. head \in Nat /\ FirstSlot <= head /\ head <= MaxSlot
    BY <1>1 DEF TypeOK, Slots
  <1>5. ev \in Nat /\ lastFU \in Nat /\ blsHeight \in Nat
    BY <1>2 DEF TypeOK
  <1>6. bmv.height \in Nat
    BY <1>2 DEF TypeOK
  <1>7. upd \in Update /\ \A u \in updates : u \in Update
    BY DEF TypeOK
  <1>8. QED
    BY <1>1, <1>2, <1>3, <1>4, <1>5, <1>6, <1>7

LEMMA LastBlockIs ==
    ASSUME TypeOK, UpdatesInv, NEW s \in Nat, FirstSlot <= s
    PROVE  /\ LastBlock(s) \in blocks /\ LastBlock(s) <= s
           /\ \A b \in blocks : b <= s => b <= LastBlock(s)
  <1> DEFINE S == {b \in blocks : b <= s}
  <1>1. S \in SUBSET Nat /\ FirstSlot \in S
    BY Numbers DEF TypeOK, UpdatesInv
  <1>2. \A x \in S : x <= s
    OBVIOUS
  <1>3. LastBlock(s) = Max(S)
    BY DEF LastBlock
  <1> HIDE DEF S
  <1>4. S # {}
    BY <1>1
  <1>5. Max(S) \in S /\ \A x \in S : x <= Max(S)
    BY <1>1, <1>2, <1>4, MaxOf
  <1>6. QED
    BY <1>3, <1>5 DEF S

\* The update a new block carries.
LEMMA SignsUpdate ==
    ASSUME TypeOK, UpdatesInv, head < MaxSlot, NEW strong \in BOOLEAN, NEW u \in Signs(head + 1, strong)
    PROVE  /\ u \in Update /\ u.sig = head + 1
           /\ u.a \in blocks /\ FirstSlot <= u.a - FinalityDelay
           /\ \A b \in blocks : b <= u.a
           /\ u.f \in blocks /\ u.f <= Checkpoint(u.a)
           /\ \A b \in blocks : b <= Checkpoint(u.a) => b <= u.f
  <1> DEFINE a == LastBlock(head + 1)
  <1>1. /\ head + 1 \in Slots /\ head + 1 \in Nat /\ FirstSlot <= head + 1
    BY Numbers DEF Slots
  <1>2. a \in blocks /\ \A b \in blocks : b <= head + 1 => b <= a
    BY <1>1, LastBlockIs
  <1>3. a \in Slots /\ a \in Nat /\ \A b \in blocks : b <= a
    <2>1. \A b \in blocks : b \in Slots /\ b \in Nat /\ b <= head + 1
      BY <1>1, Numbers DEF TypeOK, UpdatesInv
    <2>2. QED
      BY <1>2, <2>1
  <1> HIDE DEF a
  <1>4. FirstSlot <= a - FinalityDelay /\ u = [a |-> a, f |-> Finalized(a), sig |-> head + 1, strong |-> strong]
    <2>1. u \in IF a - FinalityDelay < FirstSlot THEN {}
                ELSE {[a |-> a, f |-> Finalized(a), sig |-> head + 1, strong |-> strong]}
      BY DEF Signs, a
    <2>2. a - FinalityDelay \in Int /\ FirstSlot \in Int
      BY <1>3, Numbers
    <2>3. QED
      BY <2>1, <2>2
  <1>5. Checkpoint(a) \in Nat /\ FirstSlot <= Checkpoint(a)
    BY <1>3, <1>4, CheckpointAscends
  <1>6. Finalized(a) = LastBlock(Checkpoint(a))
    BY DEF Finalized, Checkpoint
  <1>7. /\ Finalized(a) \in blocks /\ Finalized(a) <= Checkpoint(a)
        /\ \A b \in blocks : b <= Checkpoint(a) => b <= Finalized(a)
    BY <1>5, <1>6, LastBlockIs
  <1>8. Finalized(a) \in Slots
    BY <1>7 DEF TypeOK
  <1>9. u \in Update
    BY <1>1, <1>3, <1>4, <1>8 DEF Update
  <1>10. QED
    BY <1>2, <1>3, <1>4, <1>7, <1>9

LEMMA TroubleIs ==
    ASSUME TypeOK, trouble' = trouble \/ Trouble
    PROVE  trouble' \in 0 .. MaxTrouble
  <1>1. MaxTrouble \in Nat /\ trouble \in 0 .. MaxTrouble
    BY UpdateAssumption DEF TypeOK
  <1>2. QED
    BY <1>1 DEF Trouble

\* What time changes: the chain grows by a slot.
LEMMA TickIs ==
    ASSUME TypeOK, UpdatesInv, Tick
    PROVE  /\ head' = head + 1 /\ head + 1 \in Slots
           /\ blocks \subseteq blocks' /\ blocks' \subseteq blocks \cup {head + 1}
           /\ updates \subseteq updates'
           /\ \A u \in updates' \ updates : \E strong \in BOOLEAN : u \in Signs(head + 1, strong)
           /\ \A u, w \in updates' \ updates : u = w
           /\ trouble' \in 0 .. MaxTrouble
  <1>1. head' = head + 1 /\ head + 1 \in Slots
    BY Numbers DEF Tick, Slots
  <1>2. trouble' \in 0 .. MaxTrouble
    <2>1. trouble' = trouble \/ Trouble
      BY DEF Tick
    <2>2. QED
      BY <2>1, TroubleIs
  <1>3. \A strong : \A u, w \in Signs(head + 1, strong) : u = w
    BY DEF Signs
  <1>4. CASE NewBlock(TRUE)
    BY <1>1, <1>2, <1>3, <1>4 DEF NewBlock
  <1>5. CASE NewBlock(FALSE)
    BY <1>1, <1>2, <1>3, <1>5 DEF NewBlock
  <1>6. CASE UNCHANGED <<blocks, updates>>
    BY <1>1, <1>2, <1>6
  <1>7. QED
    BY <1>4, <1>5, <1>6 DEF Tick

\* The newest update.
LEMMA LatestIs ==
    ASSUME TypeOK, UpdatesInv, updates # {}
    PROVE  /\ Latest \in updates /\ Latest \in Update
           /\ \A u \in updates : u.sig <= Latest.sig /\ u.f <= Latest.f
  <1> DEFINE S == {u.sig : u \in updates}
  <1>1. S \in SUBSET Nat /\ S # {}
    BY Numbers
  <1>2. \A x \in S : x <= MaxSlot
    BY Numbers DEF UpdatesInv
  <1>3. MaxSlot \in Nat
    BY Numbers
  <1> HIDE DEF S
  <1>4. Max(S) \in S /\ \A x \in S : x <= Max(S)
    BY <1>1, <1>2, <1>3, MaxOf
  <1>5. \E u \in updates : \A w \in updates : w.sig <= u.sig
    BY <1>4 DEF S
  <1>6. Latest \in updates /\ \A w \in updates : w.sig <= Latest.sig
    BY <1>5 DEF Latest
  <1>7. QED
    BY <1>6, Numbers DEF UpdatesInv

------------------------------------------------------------------------------
(* What is relayed, and the verifier *)

\* The block updates of the statuses, one status after the other.
LEMMA FlattenSteps ==
    ASSUME NEW S, NEW s \in Seq(Seq(S)), s # <<>>
    PROVE  \E f \in [1 .. Len(s) -> Seq(S)] :
              /\ f[1] = s[1]
              /\ \A i \in 1 .. Len(s) - 1 : f[i + 1] = f[i] \o s[i + 1]
              /\ FlattenSeq(s) = f[Len(s)]
  <1> DEFINE F(f) == f = [i \in 1 .. Len(s) |-> IF i = 1 THEN s[1] ELSE f[i - 1] \o s[i]]
             V == Seq(S)
             N == Len(s) - 1
             g == [x \in V \X (1 .. N) |-> x[1] \o s[x[2] + 1]]
  <1>1. Len(s) \in Nat \ {0} /\ \A i \in 1 .. Len(s) : s[i] \in V
    <2> HIDE DEF V
    <2>1. s \in Seq(V)
      BY DEF V
    <2>2. Len(s) \in Nat /\ \A i \in 1 .. Len(s) : s[i] \in V
      BY <2>1, ElementOfSeq, LenProperties
    <2>3. Len(s) # 0
      BY EmptySeq, LenProperties, SeqEqual
    <2>4. QED
      BY <2>2, <2>3
  <1>2. FlattenSeq(s) = (CHOOSE f : F(f))[Len(s)]
    BY <1>1 DEF FlattenSeq
  <1>3. N \in Nat /\ s[1] \in V
    BY <1>1
  <1>4. g \in [V \X (1 .. N) -> V]
    <2> SUFFICES ASSUME NEW x \in V \X (1 .. N) PROVE x[1] \o s[x[2] + 1] \in V
      OBVIOUS
    <2>1. x[1] \in V /\ x[2] \in 1 .. N /\ x[2] + 1 \in 1 .. Len(s)
      BY <1>1
    <2>2. s[x[2] + 1] \in V
      BY <1>1, <2>1
    <2>3. QED
      BY <2>1, <2>2, ConcatProperties
  <1> HIDE DEF V
  <1>5. PICK h : Steps(V, s[1], N, g, h)
    <2> HIDE DEF g, N
    <2>1. QED
      BY <1>3, <1>4, Recursion, Zenon
  <1> DEFINE f == [i \in 1 .. Len(s) |-> h[i - 1]]
  <1>6. F(f)
    <2>1. \A i \in 1 .. Len(s) : f[i] = IF i = 1 THEN s[1] ELSE f[i - 1] \o s[i]
      <3> SUFFICES ASSUME NEW i \in 1 .. Len(s) PROVE f[i] = IF i = 1 THEN s[1] ELSE f[i - 1] \o s[i]
        OBVIOUS
      <3>1. CASE i = 1
        BY <1>1, <1>5, <3>1 DEF Steps
      <3>2. CASE i # 1
        <4>1. /\ i - 1 \in 1 .. N /\ i - 1 \in 1 .. Len(s) /\ i - 1 - 1 \in 0 .. N /\ i - 1 + 1 = i
          BY <1>1, <3>2
        <4>2. f[i] = h[i - 1] /\ f[i - 1] = h[i - 1 - 1]
          BY <4>1
        <4>3. h[i - 1] = g[<<h[i - 1 - 1], i - 1>>]
          BY <1>5, <4>1 DEF Steps
        <4>4. <<h[i - 1 - 1], i - 1>> \in V \X (1 .. N)
          BY <1>5, <4>1 DEF Steps
        <4>5. g[<<h[i - 1 - 1], i - 1>>] = h[i - 1 - 1] \o s[i]
          BY <4>1, <4>4
        <4> HIDE DEF f, g
        <4>6. QED
          BY <3>2, <4>2, <4>3, <4>5
      <3>3. QED
        BY <3>1, <3>2
    <2>2. QED
      BY <2>1
  <1> DEFINE c == CHOOSE e : F(e)
  <1>7. F(c)
    <2> HIDE DEF f
    <2>1. \E e : F(e)
      BY <1>6
    <2>2. QED
      BY <2>1
  <1> DEFINE C == c
  <1>8. C = [i \in 1 .. Len(s) |-> IF i = 1 THEN s[1] ELSE C[i - 1] \o s[i]]
    BY <1>7
  <1>9. FlattenSeq(s) = C[Len(s)]
    BY <1>2
  <1> HIDE DEF C, c, f, g
  <1>10. C[1] = s[1]
    BY <1>1, <1>8
  <1>11. \A i \in 1 .. Len(s) - 1 : C[i + 1] = C[i] \o s[i + 1]
    <2> SUFFICES ASSUME NEW i \in 1 .. Len(s) - 1 PROVE C[i + 1] = C[i] \o s[i + 1]
      OBVIOUS
    <2>1. i + 1 \in 1 .. Len(s) /\ i + 1 # 1 /\ (i + 1) - 1 = i
      BY <1>1
    <2>2. C[i + 1] = C[(i + 1) - 1] \o s[i + 1]
      BY <1>8, <2>1
    <2>3. QED
      BY <2>1, <2>2
  <1> DEFINE T == {n \in Nat : n + 1 <= Len(s) => C[n + 1] \in V}
  <1>12. 0 \in T
    BY <1>3, <1>10
  <1>13. ASSUME NEW n \in Nat, n \in T PROVE n + 1 \in T
    <2> SUFFICES ASSUME n + 1 + 1 <= Len(s) PROVE C[n + 1 + 1] \in V
      OBVIOUS
    <2>1. n + 1 \in 1 .. Len(s) - 1 /\ n + 1 <= Len(s) /\ n + 1 + 1 \in 1 .. Len(s)
      BY <1>1
    <2>2. C[n + 1] \in V /\ s[n + 1 + 1] \in V
      BY <1>1, <1>13, <2>1
    <2>3. C[n + 1 + 1] = C[n + 1] \o s[n + 1 + 1]
      BY <1>11, <2>1
    <2>4. QED
      BY <2>2, <2>3, ConcatProperties DEF V
  <1> HIDE DEF T
  <1>14. Nat \subseteq T
    BY <1>12, <1>13, Induction
  <1>15. \A i \in 1 .. Len(s) : C[i] \in V
    <2> SUFFICES ASSUME NEW i \in 1 .. Len(s) PROVE C[i] \in V
      OBVIOUS
    <2>1. i - 1 \in T /\ i - 1 + 1 = i /\ i <= Len(s)
      BY <1>1, <1>14
    <2>2. QED
      BY <2>1 DEF T
  <1>16. C \in [1 .. Len(s) -> V]
    BY <1>8, <1>15
  <1>17. QED
    BY <1>9, <1>10, <1>11, <1>16 DEF V

LEMMA FlattenIs ==
    ASSUME NEW S, NEW s \in Seq(Seq(S)), s # <<>>, s[Len(s)] # <<>>
    PROVE  /\ FlattenSeq(s) \in Seq(S) /\ FlattenSeq(s) # <<>>
           /\ \A k \in DOMAIN FlattenSeq(s) :
                 \E i \in DOMAIN s : \E j \in DOMAIN s[i] : FlattenSeq(s)[k] = s[i][j]
           /\ FlattenSeq(s)[Len(FlattenSeq(s))] = s[Len(s)][Len(s[Len(s)])]
  <1> DEFINE V == Seq(S)
             n == Len(s)
             From(q) == \A k \in 1 .. Len(q) : \E i \in 1 .. n : \E j \in 1 .. Len(s[i]) : q[k] = s[i][j]
  <1>1. PICK f \in [1 .. Len(s) -> Seq(S)] :
              /\ f[1] = s[1]
              /\ \A i \in 1 .. Len(s) - 1 : f[i + 1] = f[i] \o s[i + 1]
              /\ FlattenSeq(s) = f[Len(s)]
    BY FlattenSteps
  <1>2. n \in Nat \ {0} /\ DOMAIN s = 1 .. n /\ \A i \in 1 .. n : s[i] \in V
    <2> HIDE DEF V
    <2>1. s \in Seq(V)
      BY DEF V
    <2>2. n \in Nat /\ DOMAIN s = 1 .. n /\ \A i \in 1 .. n : s[i] \in V
      BY <2>1, ElementOfSeq, LenProperties
    <2>3. n # 0
      BY EmptySeq, LenProperties, SeqEqual
    <2>4. QED
      BY <2>2, <2>3
  <1>3. \A q \in V : Len(q) \in Nat /\ DOMAIN q = 1 .. Len(q)
    BY LenProperties
  <1>4. \A p, q \in V : From(p) /\ From(q) => From(p \o q)
    <2> SUFFICES ASSUME NEW p \in V, NEW q \in V, From(p), From(q),
                        NEW k \in 1 .. Len(p \o q)
                 PROVE  \E i \in 1 .. n : \E j \in 1 .. Len(s[i]) : (p \o q)[k] = s[i][j]
      OBVIOUS
    <2> DEFINE c == p \o q
    <2>1. /\ Len(p) \in Nat /\ Len(q) \in Nat /\ k \in 1 .. Len(p) + Len(q)
          /\ c[k] = IF k <= Len(p) THEN p[k] ELSE q[k - Len(p)]
      <3>1. Len(p) \in Nat /\ Len(q) \in Nat
        BY LenProperties
      <3>2. /\ Len(c) = Len(p) + Len(q)
            /\ \A i \in 1 .. Len(p) + Len(q) : c[i] = IF i <= Len(p) THEN p[i] ELSE q[i - Len(p)]
        BY ConcatProperties
      <3> HIDE DEF c
      <3>3. k \in 1 .. Len(c)
        BY DEF c
      <3>4. QED
        BY <3>1, <3>2, <3>3
    <2> HIDE DEF c
    <2>5. \E i \in 1 .. n : \E j \in 1 .. Len(s[i]) : c[k] = s[i][j]
      <3>1. CASE k <= Len(p)
        <4>1. c[k] = p[k] /\ k \in 1 .. Len(p)
          BY <2>1, <3>1
        <4>2. \E i \in 1 .. n : \E j \in 1 .. Len(s[i]) : p[k] = s[i][j]
          BY <4>1, Zenon
        <4>3. QED
          BY <4>1, <4>2, Zenon
      <3>2. CASE ~(k <= Len(p))
        <4>1. c[k] = q[k - Len(p)]
          BY <2>1, <3>2
        <4>2. k - Len(p) \in 1 .. Len(q)
          <5>1. \A x, y \in Nat : \A z \in 1 .. x + y : ~(z <= x) => z - x \in 1 .. y
            OBVIOUS
          <5>2. QED
            BY <2>1, <3>2, <5>1
        <4>3. \E i \in 1 .. n : \E j \in 1 .. Len(s[i]) : q[k - Len(p)] = s[i][j]
          BY <4>2, Zenon
        <4>4. QED
          BY <4>1, <4>3, Zenon
      <3>3. QED
        BY <3>1, <3>2
    <2>6. QED
      BY <2>5 DEF c
  <1>5. \A i \in 1 .. n : From(s[i])
    OBVIOUS
  <1> HIDE DEF From, n
  <1>6. f \in [1 .. n -> V] /\ f[1] = s[1] /\ FlattenSeq(s) = f[n]
        /\ \A i \in 1 .. n - 1 : f[i + 1] = f[i] \o s[i + 1]
    BY <1>1 DEF n
  <1> HIDE DEF V
  <1> DEFINE T == {m \in Nat : m + 1 <= n => From(f[m + 1])}
  <1>7. 0 \in T
    BY <1>2, <1>5, <1>6
  <1>8. ASSUME NEW m \in Nat, m \in T PROVE m + 1 \in T
    <2> SUFFICES ASSUME m + 1 + 1 <= n PROVE From(f[m + 1 + 1])
      OBVIOUS
    <2>1. m + 1 \in 1 .. n - 1 /\ m + 1 <= n /\ m + 1 \in 1 .. n /\ m + 1 + 1 \in 1 .. n
      BY <1>2
    <2>2. f[m + 1 + 1] = f[m + 1] \o s[m + 1 + 1] /\ f[m + 1] \in V /\ s[m + 1 + 1] \in V
      BY <1>2, <1>6, <2>1
    <2>3. From(f[m + 1]) /\ From(s[m + 1 + 1])
      BY <1>5, <1>8, <2>1
    <2>4. QED
      BY <1>4, <2>2, <2>3
  <1> HIDE DEF T
  <1>9. Nat \subseteq T
    BY <1>7, <1>8, Induction
  <1>10. From(f[n])
    <2>1. n - 1 \in T /\ n - 1 + 1 = n /\ n <= n
      BY <1>2, <1>9
    <2>2. QED
      BY <2>1 DEF T
  <1>11. f[n] \in V /\ s[n] \in V /\ s[n] # <<>>
    BY <1>2, <1>6 DEF n
  <1>12. Len(s[n]) \in Nat \ {0}
    BY <1>11, EmptySeq, LenProperties, SeqEqual DEF V
  <1>13. Len(f[n]) # 0 /\ f[n][Len(f[n])] = s[n][Len(s[n])]
    <2>1. CASE n = 1
      BY <1>6, <1>12, <2>1
    <2>2. CASE n # 1
      <3>1. n - 1 \in 1 .. n - 1 /\ n - 1 \in 1 .. n /\ n - 1 + 1 = n
        BY <1>2, <2>2
      <3>2. f[n] = f[n - 1] \o s[n] /\ f[n - 1] \in V
        BY <1>6, <3>1
      <3> DEFINE p == f[n - 1]
                 q == s[n]
      <3>3. p \in V /\ q \in V /\ f[n] = p \o q /\ Len(q) \in Nat \ {0}
        BY <1>11, <1>12, <3>2
      <3> HIDE DEF p, q
      <3>4. /\ Len(p) \in Nat /\ Len(p \o q) = Len(p) + Len(q)
            /\ \A k \in 1 .. Len(p) + Len(q) : (p \o q)[k] = IF k <= Len(p) THEN p[k] ELSE q[k - Len(p)]
        BY <3>3, ConcatProperties, LenProperties DEF V
      <3>5. Len(p) + Len(q) \in 1 .. Len(p) + Len(q) /\ Len(p) + Len(q) - Len(p) = Len(q) /\ ~(Len(p) + Len(q) <= Len(p))
        BY <3>3, <3>4
      <3>6. (p \o q)[Len(p \o q)] = q[Len(q)] /\ Len(p \o q) # 0
        BY <3>3, <3>4, <3>5
      <3>7. QED
        BY <3>3, <3>6 DEF q
    <2>3. QED
      BY <2>1, <2>2
  <1>14. f[n] # <<>>
    BY <1>13, EmptySeq
  <1>15. \A k \in DOMAIN f[n] : \E i \in DOMAIN s : \E j \in DOMAIN s[i] : f[n][k] = s[i][j]
    <2>1. DOMAIN f[n] = 1 .. Len(f[n]) /\ \A i \in 1 .. n : DOMAIN s[i] = 1 .. Len(s[i])
      BY <1>2, <1>3, <1>11
    <2>2. QED
      BY <1>2, <1>10, <2>1 DEF From
  <1>16. QED
    BY <1>6, <1>11, <1>13, <1>14, <1>15 DEF n, V

\* The state of the verifier, and what a block update makes of it.
BmvState == [height : Slots, next : BOOLEAN]

LEMMA AdvanceIs ==
    ASSUME NEW v \in BmvState, NEW b \in Bud
    PROVE  /\ Advance(v, b) \in BmvState
           /\ Advance(v, b).height = IF b.upd.f <= v.height THEN v.height ELSE b.upd.f
           /\ Advance(v, b).next = \/ Period(Advance(v, b).height) = Period(v.height) /\ v.next
                                   \/ b.nsc # 0 /\ Period(b.upd.a) = Period(Advance(v, b).height)
  <1> DEFINE f == b.upd.f
             h == v.height
  <1>1. Slots \subseteq Nat
    BY UpdateAssumption DEF Slots
  <1>2. f \in Slots /\ h \in Slots /\ f \in Nat /\ h \in Nat
    BY <1>1 DEF Bud, Update, BmvState
  <1>3. Advance(v, b) = [height |-> Max({f, h}),
                         next |-> \/ Period(Max({f, h})) = Period(h) /\ v.next
                                  \/ b.nsc # 0 /\ Period(b.upd.a) = Period(Max({f, h}))]
    BY DEF Advance
  <1> HIDE DEF f, h
  <1> DEFINE S == {f, h}
  <1>4. S \in SUBSET Nat /\ S # {} /\ f + h \in Nat /\ \A x \in S : x <= f + h
    BY <1>2
  <1>5. Max(S) \in S /\ \A x \in S : x <= Max(S)
    <2> HIDE DEF S
    <2>1. QED
      BY <1>4, MaxOf
  <1>6. Max({f, h}) = IF f <= h THEN h ELSE f
    BY <1>2, <1>5
  <1> HIDE DEF S
  <1> DEFINE m == Max({f, h})
             c == \/ Period(m) = Period(h) /\ v.next
                  \/ b.nsc # 0 /\ Period(b.upd.a) = Period(m)
  <1>7. m \in Slots /\ c \in BOOLEAN /\ Advance(v, b) = [height |-> m, next |-> c]
    <2>1. m \in Slots
      BY <1>2, <1>6
    <2>2. c \in BOOLEAN
      <3>1. v.next \in BOOLEAN
        BY DEF BmvState
      <3>2. QED
        BY <3>1
    <2>3. Advance(v, b) = [height |-> m, next |-> c]
      BY <1>3
    <2>4. QED
      BY <2>1, <2>2, <2>3
  <1>8. m = IF f <= h THEN h ELSE f
    BY <1>6
  <1>9. c = \/ Period(m) = Period(h) /\ v.next
            \/ b.nsc # 0 /\ Period(b.upd.a) = Period(m)
    OBVIOUS
  <1> HIDE DEF m, c
  <1>10. Advance(v, b).height = m /\ Advance(v, b).next = c /\ Advance(v, b) \in BmvState
    BY <1>7 DEF BmvState
  <1>11. QED
    BY <1>8, <1>9, <1>10 DEF f, h

LEMMA CourseIs ==
    ASSUME NEW v \in BmvState, NEW bus \in Seq(Bud)
    PROVE  /\ Course(v, bus) \in [0 .. Len(bus) -> BmvState]
           /\ Course(v, bus)[0] = v
           /\ \A i \in 1 .. Len(bus) : Course(v, bus)[i] = Advance(Course(v, bus)[i - 1], bus[i])
  <1> DEFINE n == Len(bus)
             F(f) == f = [i \in 0 .. n |-> IF i = 0 THEN v ELSE Advance(f[i - 1], bus[i])]
             g == [x \in BmvState \X (1 .. n) |-> Advance(x[1], bus[x[2]])]
  <1>1. n \in Nat /\ \A i \in 1 .. n : bus[i] \in Bud
    BY ElementOfSeq, LenProperties
  <1>2. Course(v, bus) = CHOOSE f : F(f)
    BY DEF Course
  <1> HIDE DEF n
  <1>3. g \in [BmvState \X (1 .. n) -> BmvState]
    <2> SUFFICES ASSUME NEW x \in BmvState \X (1 .. n) PROVE Advance(x[1], bus[x[2]]) \in BmvState
      OBVIOUS
    <2>1. x[1] \in BmvState /\ bus[x[2]] \in Bud
      BY <1>1
    <2>2. QED
      BY <2>1, AdvanceIs
  <1>4. PICK h : Steps(BmvState, v, n, g, h)
    <2> HIDE DEF g
    <2>1. QED
      BY <1>1, <1>3, Recursion, Zenon
  <1>5. F(h)
    <2>1. \A i \in 0 .. n : h[i] = IF i = 0 THEN v ELSE Advance(h[i - 1], bus[i])
      <3> SUFFICES ASSUME NEW i \in 0 .. n PROVE h[i] = IF i = 0 THEN v ELSE Advance(h[i - 1], bus[i])
        OBVIOUS
      <3>1. CASE i = 0
        BY <1>4, <3>1 DEF Steps
      <3>2. CASE i # 0
        <4>1. i \in 1 .. n /\ i - 1 \in 0 .. n
          BY <1>1, <3>2
        <4>2. h[i] = g[<<h[i - 1], i>>] /\ h[i - 1] \in BmvState
          BY <1>4, <4>1 DEF Steps
        <4>3. <<h[i - 1], i>> \in BmvState \X (1 .. n)
          BY <4>1, <4>2
        <4>4. g[<<h[i - 1], i>>] = Advance(h[i - 1], bus[i])
          BY <4>3
        <4> HIDE DEF g
        <4>5. QED
          BY <3>2, <4>2, <4>4
      <3>3. QED
        BY <3>1, <3>2
    <2>2. h = [i \in 0 .. n |-> h[i]]
      BY <1>4 DEF Steps
    <2>3. QED
      BY <2>1, <2>2
  <1> DEFINE C == CHOOSE f : F(f)
  <1>6. F(C)
    <2>1. \E f : F(f)
      BY <1>5
    <2>2. QED
      BY <2>1
  <1>7. C = [i \in 0 .. n |-> IF i = 0 THEN v ELSE Advance(C[i - 1], bus[i])]
    BY <1>6
  <1> HIDE DEF C, g
  <1>8. C[0] = v
    BY <1>1, <1>7
  <1>9. \A i \in 1 .. n : C[i] = Advance(C[i - 1], bus[i])
    <2> SUFFICES ASSUME NEW i \in 1 .. n PROVE C[i] = Advance(C[i - 1], bus[i])
      OBVIOUS
    <2>1. i \in 0 .. n /\ i # 0
      BY <1>1
    <2>2. QED
      BY <1>7, <2>1
  <1> DEFINE T == {m \in Nat : m <= n => C[m] \in BmvState}
  <1>10. 0 \in T
    BY <1>8
  <1>11. ASSUME NEW m \in Nat, m \in T PROVE m + 1 \in T
    <2> SUFFICES ASSUME m + 1 <= n PROVE C[m + 1] \in BmvState
      OBVIOUS
    <2>1. m + 1 \in 1 .. n /\ m <= n /\ (m + 1) - 1 = m
      BY <1>1
    <2>2. C[m] \in BmvState /\ bus[m + 1] \in Bud
      BY <1>1, <1>11, <2>1
    <2>3. C[m + 1] = Advance(C[m], bus[m + 1])
      BY <1>9, <2>1
    <2>4. QED
      BY <2>2, <2>3, AdvanceIs
  <1> HIDE DEF T
  <1>12. Nat \subseteq T
    BY <1>10, <1>11, Induction
  <1>13. \A i \in 0 .. n : C[i] \in BmvState
    <2> SUFFICES ASSUME NEW i \in 0 .. n PROVE C[i] \in BmvState
      OBVIOUS
    <2>1. i \in T /\ i <= n
      BY <1>1, <1>12
    <2>2. QED
      BY <2>1 DEF T
  <1>14. C \in [0 .. n -> BmvState]
    BY <1>7, <1>13
  <1>15. Course(v, bus) = C
    BY <1>2 DEF C
  <1>16. QED
    BY <1>8, <1>9, <1>14, <1>15 DEF n

\* The course never goes back, and passes every block update's height.
LEMMA CourseRises ==
    ASSUME NEW v \in BmvState, NEW bus \in Seq(Bud), NEW top \in Nat,
           v.height <= top, \A i \in 1 .. Len(bus) : bus[i].upd.f <= top
    PROVE  \A i \in 0 .. Len(bus) :
              /\ Course(v, bus)[i] \in BmvState /\ Course(v, bus)[i].height \in Nat
              /\ Course(v, bus)[i].height <= top
              /\ i > 0 => bus[i].upd.f <= Course(v, bus)[i].height
  <1> DEFINE n == Len(bus)
             C == Course(v, bus)
  <1>1. /\ C \in [0 .. n -> BmvState] /\ C[0] = v
        /\ \A i \in 1 .. n : C[i] = Advance(C[i - 1], bus[i])
    BY CourseIs
  <1>2. n \in Nat /\ \A i \in 1 .. n : bus[i] \in Bud /\ bus[i].upd.f <= top
    BY ElementOfSeq, LenProperties
  <1> HIDE DEF n, C
  <1>3. Slots \subseteq Nat
    BY UpdateAssumption DEF Slots
  <1>4. \A b \in Bud : b.upd.f \in Nat
    BY <1>3 DEF Bud, Update
  <1>5. \A w \in BmvState : w.height \in Nat
    BY <1>3 DEF BmvState
  <1>6. \A i \in 1 .. n : /\ i - 1 \in 0 .. n
                          /\ C[i].height = IF bus[i].upd.f <= C[i - 1].height
                                           THEN C[i - 1].height ELSE bus[i].upd.f
    <2> SUFFICES ASSUME NEW i \in 1 .. n
                 PROVE  /\ i - 1 \in 0 .. n
                        /\ C[i].height = IF bus[i].upd.f <= C[i - 1].height
                                         THEN C[i - 1].height ELSE bus[i].upd.f
      OBVIOUS
    <2>1. i - 1 \in 0 .. n
      BY <1>2
    <2>2. C[i - 1] \in BmvState /\ bus[i] \in Bud /\ C[i] = Advance(C[i - 1], bus[i])
      BY <1>1, <1>2, <2>1
    <2>3. QED
      BY <2>1, <2>2, AdvanceIs
  <1> DEFINE T == {m \in Nat : m <= n => C[m].height <= top}
  <1>7. 0 \in T
    BY <1>1
  <1>8. ASSUME NEW m \in Nat, m \in T PROVE m + 1 \in T
    <2> SUFFICES ASSUME m + 1 <= n PROVE C[m + 1].height <= top
      OBVIOUS
    <2>1. m + 1 \in 1 .. n /\ m <= n /\ (m + 1) - 1 = m
      BY <1>2
    <2>2. C[m].height <= top /\ bus[m + 1].upd.f <= top
      BY <1>2, <1>8, <2>1
    <2>3. C[m + 1].height = IF bus[m + 1].upd.f <= C[m].height THEN C[m].height ELSE bus[m + 1].upd.f
      BY <1>6, <2>1
    <2>4. QED
      BY <2>2, <2>3
  <1> HIDE DEF T
  <1>9. Nat \subseteq T
    BY <1>7, <1>8, Induction
  <1>10. ASSUME NEW i \in 0 .. n
         PROVE  /\ C[i] \in BmvState /\ C[i].height \in Nat /\ C[i].height <= top
                /\ i > 0 => bus[i].upd.f <= C[i].height
    <2>1. C[i] \in BmvState /\ C[i].height \in Nat
      BY <1>1, <1>5
    <2>2. C[i].height <= top
      <3>1. i \in T /\ i <= n
        BY <1>2, <1>9
      <3>2. QED
        BY <3>1 DEF T
    <2>3. ASSUME i > 0 PROVE bus[i].upd.f <= C[i].height
      <3>1. i \in 1 .. n
        BY <1>2, <2>3
      <3>2. bus[i].upd.f \in Nat /\ C[i - 1].height \in Nat
        BY <1>1, <1>2, <1>4, <1>5, <1>6, <3>1
      <3>3. QED
        BY <1>6, <3>1, <3>2
    <2>4. QED
      BY <2>1, <2>2, <2>3
  <1>11. QED
    BY <1>10 DEF n, C

------------------------------------------------------------------------------
(* Every step keeps the invariant *)

LEMMA InitIInv == Init => IInv
  <1> SUFFICES ASSUME Init PROVE IInv
    OBVIOUS
  <1>1. /\ FirstSlot \in Nat /\ MaxSlot \in Nat /\ FirstSlot <= MaxSlot /\ MaxRetry \in Nat
        /\ MaxTrouble \in Nat /\ MaxRestarts \in Nat /\ FirstSlot \in Slots
    BY UpdateAssumption DEF Slots
  <1>2. TypeOK
    <2>1. upd \in Update
      BY <1>1 DEF Init, NoUpdate, Update
    <2>2. buds \in Seq(Bud) /\ rss \in Seq(Status) /\ sent \in Seq(Bud)
      BY EmptySeq DEF Init
    <2>3. bmv \in [height : Slots, next : BOOLEAN] /\ blsHeight \in Slots
      BY <1>1 DEF Init, InitData
    <2>4. QED
      BY <1>1, <2>1, <2>2, <2>3 DEF Init, TypeOK
  <1>3. UpdatesInv
    BY <1>1 DEF Init, UpdatesInv
  <1>4. HandlerInv
    BY <1>1 DEF Init, InitData, HandlerInv, Old, Reached, Before, Handling
  <1>5. RssInv
    <2>1. rss = <<>> /\ DOMAIN rss = {}
      BY DEF Init
    <2>2. QED
      BY <2>1 DEF RssInv, StatusesAscend
  <1>6. SentInv /\ BudsInv
    BY <1>1 DEF Init, InitData, SentInv, BudsInv
  <1>7. QED
    BY <1>2, <1>3, <1>4, <1>5, <1>6 DEF IInv

\* An update is of blocks at and before the one that signs it.
LEMMA UpdateOrder ==
    ASSUME TypeOK, UpdatesInv, NEW u \in updates
    PROVE  /\ u.f < u.a /\ u.a < u.sig /\ u.sig <= head
           /\ Period(u.f) \in Nat /\ Period(u.a) \in Nat /\ Period(u.sig) \in Nat
           /\ Period(u.f) <= Period(u.a) /\ Period(u.a) <= Period(u.sig)
  <1>1. u.f \in Nat /\ u.a \in Nat /\ u.sig \in Nat
    BY Numbers
  <1>2. FirstSlot <= u.a - FinalityDelay /\ u.f <= Checkpoint(u.a) /\ u.a < u.sig /\ u.sig <= head
    BY Numbers DEF UpdatesInv
  <1>3. Checkpoint(u.a) \in Nat /\ Checkpoint(u.a) < u.a
    BY <1>1, <1>2, CheckpointAscends
  <1>4. u.f < u.a
    BY <1>1, <1>2, <1>3
  <1>5. u.f <= u.a /\ u.a <= u.sig
    BY <1>1, <1>2, <1>4
  <1>6. QED
    BY <1>1, <1>2, <1>4, <1>5, PeriodAscends

\* A new block's update finalizes no less than those before it.
LEMMA TickUpdates ==
    ASSUME TypeOK, UpdatesInv, Tick
    PROVE  /\ UpdatesInv' /\ updates' \subseteq Update /\ blocks' \subseteq Slots
           /\ \A u \in updates' \ updates : u.sig = head + 1 /\ u.f \in blocks
  <1>1. /\ head' = head + 1 /\ head + 1 \in Slots
        /\ blocks \subseteq blocks' /\ blocks' \subseteq blocks \cup {head + 1}
        /\ updates \subseteq updates'
        /\ \A u \in updates' \ updates : \E strong \in BOOLEAN : u \in Signs(head + 1, strong)
        /\ \A u, w \in updates' \ updates : u = w
    BY TickIs
  <1>2. head < MaxSlot
    BY DEF Tick
  <1>3. ASSUME NEW u \in updates' \ updates
        PROVE  /\ u \in Update /\ u.sig = head + 1
               /\ u.a \in blocks /\ FirstSlot <= u.a - FinalityDelay
               /\ \A b \in blocks : b <= u.a
               /\ u.f \in blocks /\ u.f <= Checkpoint(u.a)
               /\ \A b \in blocks : b <= Checkpoint(u.a) => b <= u.f
    <2>1. PICK strong \in BOOLEAN : u \in Signs(head + 1, strong)
      BY <1>1
    <2>2. QED
      BY <1>2, <2>1, SignsUpdate
  <1>4. \A b \in blocks : b \in Nat /\ b <= head
    BY Numbers DEF UpdatesInv, TypeOK
  <1>5. FirstSlot \in blocks' /\ blocks' \subseteq FirstSlot .. head'
    BY <1>1, Numbers DEF UpdatesInv, Slots
  <1>6. updates' \subseteq Update
    BY <1>1, <1>3 DEF TypeOK
  <1>7. ASSUME NEW u \in updates'
        PROVE  /\ u.sig \in FirstSlot + 1 .. head'
               /\ u.a \in blocks' /\ u.a < u.sig /\ FirstSlot <= u.a - FinalityDelay
               /\ u.f \in blocks' /\ u.f <= Checkpoint(u.a)
    <2>1. CASE u \in updates
      BY <1>1, <2>1, Numbers DEF UpdatesInv
    <2>2. CASE u \notin updates
      <3>1. u.a < u.sig
        BY <1>3, <1>4, <2>2, Numbers
      <3>2. u.sig \in FirstSlot + 1 .. head'
        BY <1>1, <1>3, <2>2, Numbers
      <3>3. QED
        BY <1>1, <1>3, <2>2, <3>1, <3>2
    <2>3. QED
      BY <2>1, <2>2
  <1>8. ASSUME NEW u \in updates', NEW w \in updates', u.sig <= w.sig
        PROVE  u.f <= w.f
    <2>1. u \in Update /\ w \in Update
      BY <1>6
    <2>2. CASE u \in updates /\ w \in updates
      BY <1>8, <2>2 DEF UpdatesInv
    <2>3. CASE u \notin updates /\ w \in updates
      <3>1. u.sig = head + 1 /\ w.sig <= head
        <4>1. u.sig = head + 1
          BY <1>3, <2>3
        <4>2. w.sig <= head
          BY <2>3, UpdateOrder
        <4>3. QED
          BY <4>1, <4>2
      <3>2. head \in Nat /\ w.sig \in Nat
        BY <2>1, Numbers
      <3>3. QED
        BY <1>8, <3>1, <3>2
    <2>4. CASE u \in updates /\ w \notin updates
      <3>1. u.a \in blocks /\ u.f \in blocks /\ FirstSlot <= u.a - FinalityDelay /\ u.f <= Checkpoint(u.a)
        BY <2>4 DEF UpdatesInv
      <3>2. u.a <= w.a /\ u.a \in Nat /\ w.a \in Nat
        BY <1>3, <1>4, <2>4, <3>1
      <3>3. Checkpoint(u.a) \in Nat /\ Checkpoint(w.a) \in Nat /\ Checkpoint(u.a) <= Checkpoint(w.a)
        BY <3>1, <3>2, CheckpointAscends
      <3>4. u.f <= Checkpoint(w.a)
        BY <1>4, <3>1, <3>3
      <3>5. QED
        BY <1>3, <2>4, <3>1, <3>4
    <2>5. CASE u \notin updates /\ w \notin updates
      <3>1. u = w
        BY <1>1, <2>5
      <3>2. u.f \in Nat
        BY <2>1, Numbers
      <3>3. QED
        BY <3>1, <3>2
    <2>6. QED
      BY <2>2, <2>3, <2>4, <2>5
  <1>9. blocks' \subseteq Slots
    BY <1>1 DEF TypeOK
  <1>10. QED
    BY <1>3, <1>5, <1>6, <1>7, <1>8, <1>9 DEF UpdatesInv

\* The best update of a period the chain has left remains the best.
LEMMA BestStays ==
    ASSUME TypeOK, UpdatesInv, Tick, NEW s \in Nat, s <= head, NEW p \in Int, p < Period(s)
    PROVE  Best(p)' = Best(p)
  <1>1. head < MaxSlot /\ updates \subseteq updates'
        /\ \A u \in updates' \ updates : \E strong \in BOOLEAN : u \in Signs(head + 1, strong)
    BY TickIs DEF Tick
  <1>2. ASSUME NEW u \in updates' \ updates PROVE Period(u.sig) # p
    <2>1. PICK strong \in BOOLEAN : u \in Signs(head + 1, strong)
      BY <1>1
    <2>2. u.sig = head + 1
      BY <1>1, <2>1, SignsUpdate
    <2>3. head + 1 \in Nat /\ s <= head + 1
      BY Numbers
    <2>4. Period(s) \in Nat /\ Period(head + 1) \in Nat /\ Period(s) <= Period(head + 1)
      BY <2>3, PeriodAscends
    <2>5. QED
      BY <2>2, <2>4
  <1>3. OfPeriod(p)' = OfPeriod(p)
    BY <1>1, <1>2 DEF OfPeriod
  <1>4. OfPeriod(p) \subseteq updates
    BY DEF OfPeriod
  <1>5. OfPeriod(p) \cap Strong' = OfPeriod(p) \cap Strong
    BY <1>1, <1>4 DEF Strong
  <1>6. Prefer(OfPeriod(p), Strong)' = Prefer(OfPeriod(p), Strong)
    BY <1>3, <1>5 DEF Prefer
  <1> DEFINE P == Prefer(OfPeriod(p), Strong)
  <1>7. P \subseteq updates
    BY <1>4 DEF Prefer
  <1>8. P \cap FinalInPeriod' = P \cap FinalInPeriod
    BY <1>1, <1>7 DEF FinalInPeriod
  <1>9. QED
    BY <1>6, <1>8 DEF Best, Prefer

LEMMA BestAre ==
    ASSUME NEW p, NEW u \in Best(p)
    PROVE  u \in updates /\ Period(u.sig) = p /\ Period(u.a) = p
  BY DEF Best, Prefer, OfPeriod

LEMMA TickIInv == IInv /\ Tick => IInv'
  <1> SUFFICES ASSUME IInv, Tick PROVE IInv'
    OBVIOUS
  <1>1. TypeOK /\ UpdatesInv /\ HandlerInv /\ RssInv /\ SentInv /\ BudsInv
    BY DEF IInv
  <1>2. UNCHANGED <<fork, handlerVars, linkVars, restarts>>
    BY DEF Tick
  <1>3. UNCHANGED <<pc, ev, slot, upd, retry, lastFU, from, buds, rss, blsHeight, sent, bmv>>
    BY <1>2 DEF handlerVars, linkVars
  <1>4. /\ head' = head + 1 /\ head + 1 \in Slots /\ updates \subseteq updates'
        /\ \A u \in updates' \ updates : \E strong \in BOOLEAN : u \in Signs(head + 1, strong)
        /\ trouble' \in 0 .. MaxTrouble
    BY <1>1, TickIs
  <1>5. /\ UpdatesInv' /\ updates' \subseteq Update /\ blocks' \subseteq Slots
        /\ \A u \in updates' \ updates : u.sig = head + 1 /\ u.f \in blocks
    BY <1>1, TickUpdates
  <1>6. TypeOK'
    BY <1>1, <1>2, <1>3, <1>4, <1>5 DEF TypeOK
  <1>7. ASSUME NEW h, Reached(h), \A u \in updates : u.sig > ev => h <= u.f,
               NEW u \in updates', u.sig > ev
        PROVE  h <= u.f
    <2>1. CASE u \in updates
      BY <1>7, <2>1
    <2>2. CASE u \notin updates
      <3>3. u.sig = head + 1 /\ u.f \in blocks
        BY <1>5, <1>7, <2>2
      <3>4. u.f \in Nat /\ FirstSlot \in Nat /\ FirstSlot <= u.f /\ head \in Nat
        <4>1. FirstSlot \in Nat /\ head \in Nat
          BY <1>1, Numbers
        <4>2. u.f \in FirstSlot .. head
          BY <1>1, <3>3 DEF UpdatesInv
        <4>3. QED
          BY <4>1, <4>2
      <3>5. CASE h \in {0, FirstSlot}
        BY <3>4, <3>5
      <3>6. CASE \E w \in updates : w.f = h
        <4>1. PICK w \in updates : w.f = h
          BY <3>6
        <4>2. w.sig <= head /\ w \in updates' /\ w.sig \in Nat
          BY <1>1, <1>4, UpdateOrder, Numbers
        <4>3. w.sig <= u.sig
          BY <3>3, <3>4, <4>2
        <4>4. QED
          BY <1>5, <4>1, <4>2, <4>3 DEF UpdatesInv
      <3>7. QED
        BY <1>7, <3>5, <3>6 DEF Reached
    <2>3. QED
      BY <2>1, <2>2
  <1>8. \A h : Reached(h) => h \in {0, FirstSlot} \/ \E u \in updates' : u.f = h
    BY <1>4 DEF Reached
  <1>9. HandlerInv'
    <2>1. \A h : Old(h) => /\ h \in {0, FirstSlot} \/ \E u \in updates' : u.f = h
                           /\ \A u \in updates' : u.sig > ev => h <= u.f
                           /\ Handling => h <= upd.f
      BY <1>7, <1>8 DEF Old, Before
    <2>2. Old(lastFU)'
      BY <1>1, <1>3, <2>1 DEF HandlerInv, Old, Reached, Before, Handling
    <2>3. Old(blsHeight)'
      BY <1>1, <1>3, <2>1 DEF HandlerInv, Old, Reached, Before, Handling
    <2>4. Old(bmv.height)'
      BY <1>1, <1>3, <2>1 DEF HandlerInv, Old, Reached, Before, Handling
    <2>5. ev' <= head'
      BY <1>1, <1>3, <1>4, Numbers DEF HandlerInv
    <2>6. Handling => Reached(upd.f)
      BY <1>1 DEF HandlerInv, Reached
    <2>7. (Handling => upd \in updates /\ upd.sig >= ev /\ Before(upd.f) /\ slot = upd.f)'
      BY <1>1, <1>3, <1>4, <1>7, <2>6 DEF HandlerInv, Before, Handling
    <2>8. (pc = "read" => lastFU < upd.f)'
      BY <1>1, <1>3 DEF HandlerInv
    <2>9. (pc \in {"periods", "edge"} =>
              upd.f = lastFU /\ upd.strong /\ \A i \in DOMAIN rss : rss[i].slot < upd.f)'
      BY <1>1, <1>3 DEF HandlerInv
    <2>10. QED
      BY <2>2, <2>3, <2>4, <2>5, <2>7, <2>8, <2>9 DEF HandlerInv
  <1>10. RssInv'
    BY <1>1, <1>3, <1>4 DEF RssInv, StatusInv, StatusesAscend
  <1>11. SentInv'
    BY <1>1, <1>3 DEF SentInv
  <1>12. BudsInv'
    <2>1. (pc \in {"idle", "read", "periods", "dead"} => buds = <<>>)'
      BY <1>1, <1>3 DEF BudsInv
    <2>2. ASSUME pc = "edge"
          PROVE  /\ from <= Period(upd.f) /\ Len(buds) <= Period(upd.f) - from
                 /\ Len(buds) < Period(upd.f) - from => Best(from + Len(buds))' = {}
                 /\ \A i \in DOMAIN buds : \E u \in Best(from + i - 1)' : buds[i] = LightClientBud(u)
      <3>1. /\ from <= Period(upd.f) /\ Len(buds) <= Period(upd.f) - from
            /\ Len(buds) < Period(upd.f) - from => Best(from + Len(buds)) = {}
            /\ \A i \in DOMAIN buds : \E u \in Best(from + i - 1) : buds[i] = LightClientBud(u)
        BY <1>1, <2>2 DEF BudsInv
      <3>2. /\ from \in Nat /\ Len(buds) \in Nat /\ DOMAIN buds = 1 .. Len(buds)
            /\ upd \in updates /\ upd.f \in Nat /\ Period(upd.f) \in Nat /\ upd.f <= head
        <4>1. from \in Nat /\ Len(buds) \in Nat /\ DOMAIN buds = 1 .. Len(buds)
          BY <1>1, LenProperties DEF TypeOK
        <4>2. upd \in updates
          BY <1>1, <2>2 DEF HandlerInv, Handling
        <4>3. upd.f \in Nat /\ upd.a \in Nat /\ upd.sig \in Nat /\ head \in Nat
          BY <1>1, Numbers
        <4>4. upd.f < upd.a /\ upd.a < upd.sig /\ upd.sig <= head /\ Period(upd.f) \in Nat
          BY <1>1, <4>2, UpdateOrder
        <4>5. upd.f <= head
          BY <4>3, <4>4
        <4>6. QED
          BY <4>1, <4>2, <4>3, <4>4, <4>5
      <3>3. ASSUME NEW k \in 0 .. Len(buds), k < Period(upd.f) - from PROVE Best(from + k)' = Best(from + k)
        <4> DEFINE p == from + k
        <4>1. p \in Int /\ p < Period(upd.f)
          BY <3>1, <3>2, <3>3
        <4>2. p' = p
          BY <1>3
        <4> HIDE DEF p
        <4>3. Best(p)' = Best(p)
          <5> DEFINE s == upd.f
          <5>1. s \in Nat /\ s <= head /\ p < Period(s)
            BY <3>2, <4>1
          <5> HIDE DEF s
          <5>2. \A q \in Int : q < Period(s) => Best(q)' = Best(q)
            BY <1>1, <5>1, BestStays
          <5>3. QED
            BY <4>1, <4>2, <5>1, <5>2
        <4>4. QED
          BY <4>3 DEF p
      <3>4. Len(buds) < Period(upd.f) - from => Best(from + Len(buds))' = {}
        <4>1. Len(buds) \in 0 .. Len(buds)
          BY <3>2
        <4> DEFINE k == Len(buds)
        <4>2. k < Period(upd.f) - from => Best(from + k)' = Best(from + k)
          <5> HIDE DEF k
          <5>1. k' = k
            BY <1>3 DEF k
          <5>2. \A l \in 0 .. k : l < Period(upd.f) - from => Best(from + l)' = Best(from + l)
            BY <3>3 DEF k
          <5>3. k \in 0 .. k
            BY <4>1 DEF k
          <5>4. QED
            BY <5>1, <5>2, <5>3
        <4>3. QED
          BY <3>1, <4>2
      <3>5. ASSUME NEW i \in DOMAIN buds PROVE \E u \in Best(from + i - 1)' : buds[i] = LightClientBud(u)
        <4>1. i - 1 \in 0 .. Len(buds) /\ i - 1 < Period(upd.f) - from /\ from + (i - 1) = from + i - 1
          BY <3>1, <3>2
        <4>2. Best(from + (i - 1))' = Best(from + (i - 1))
          BY <3>3, <4>1
        <4>3. Best(from + i - 1)' = Best(from + i - 1)
          BY <4>1, <4>2
        <4>4. QED
          BY <3>1, <4>3
      <3>6. QED
        BY <3>1, <3>4, <3>5
    <2>3. QED
      BY <1>3, <2>1, <2>2 DEF BudsInv
  <1>13. QED
    BY <1>5, <1>6, <1>9, <1>10, <1>11, <1>12 DEF IInv

LEMMA ChainFrame ==
    ASSUME TypeOK, UpdatesInv, UNCHANGED chainVars
    PROVE  /\ UpdatesInv'
           /\ head' = head /\ blocks' = blocks /\ updates' = updates /\ fork' = fork
           /\ \A p : Best(p)' = Best(p)
  BY DEF chainVars, UpdatesInv, Best, Prefer, OfPeriod, Strong, FinalInPeriod

\* An update is dropped, or the relay dies.
LEMMA StopIInv ==
    ASSUME IInv, Panic \/ Return, UNCHANGED <<chainVars, linkVars, restarts>>,
           trouble' = trouble \/ Trouble
    PROVE  IInv'
  <1>1. TypeOK /\ UpdatesInv /\ HandlerInv /\ RssInv /\ SentInv /\ BudsInv
    BY DEF IInv
  <1>2. /\ pc' \in {"dead", "idle"} /\ slot' = FirstSlot /\ upd' = NoUpdate /\ retry' = 0 /\ from' = 0 /\ buds' = <<>>
        /\ UNCHANGED <<ev, lastFU, rss, blsHeight, sent, bmv, restarts>>
    BY DEF Panic, Return, linkVars
  <1>3. /\ UpdatesInv' /\ head' = head /\ blocks' = blocks /\ updates' = updates /\ fork' = fork
    BY <1>1, ChainFrame
  <1>4. TypeOK'
    <2>1. upd' \in Update /\ slot' \in Slots
      BY <1>2, UpdateAssumption DEF NoUpdate, Update, Slots
    <2>2. buds' \in Seq(Bud) /\ retry' \in 0 .. MaxRetry
      BY <1>2, EmptySeq, UpdateAssumption
    <2>3. trouble' \in 0 .. MaxTrouble
      BY <1>1, TroubleIs
    <2>4. QED
      BY <1>1, <1>2, <1>3, <2>1, <2>2, <2>3 DEF TypeOK
  <1>5. HandlerInv'
    BY <1>1, <1>2, <1>3 DEF HandlerInv, Old, Reached, Before, Handling
  <1>6. RssInv'
    BY <1>1, <1>2, <1>3 DEF RssInv, StatusInv, StatusesAscend
  <1>7. SentInv' /\ BudsInv'
    BY <1>1, <1>2 DEF SentInv, BudsInv
  <1>8. QED
    BY <1>3, <1>4, <1>5, <1>6, <1>7 DEF IInv

LEMMA TakeIInv == IInv /\ (\E u \in updates : TakeEvent(u)) => IInv'
  <1> SUFFICES ASSUME IInv, NEW u \in updates, TakeEvent(u) PROVE IInv'
    OBVIOUS
  <1>1. TypeOK /\ UpdatesInv /\ HandlerInv /\ RssInv /\ SentInv /\ BudsInv
    BY DEF IInv
  <1>2. /\ pc = "idle" /\ pc' = "read" /\ ev' = u.sig /\ slot' = u.f /\ upd' = u /\ u.sig > ev /\ lastFU # u.f
        /\ UNCHANGED <<retry, lastFU, from, buds, rss, blsHeight, sent, bmv, trouble, restarts>>
    BY DEF TakeEvent, Wanted, linkVars
  <1>3. UNCHANGED chainVars
    BY DEF TakeEvent
  <1>4. UpdatesInv' /\ head' = head /\ blocks' = blocks /\ updates' = updates /\ fork' = fork
    BY <1>1, <1>3, ChainFrame
  <1>5. u \in Update /\ u.sig \in Slots /\ u.sig \in Nat /\ u.f \in Slots /\ u.f \in Nat /\ u.sig <= head
    BY <1>1, Numbers, UpdateOrder DEF Update
  <1>6. ev \in Nat /\ lastFU \in Nat
    BY <1>1, Numbers
  <1>7. TypeOK'
    BY <1>1, <1>2, <1>4, <1>5 DEF TypeOK
  <1>8. \A w \in updates : w.sig > u.sig => u.f <= w.f /\ w.sig > ev
    <2> SUFFICES ASSUME NEW w \in updates, w.sig > u.sig PROVE u.f <= w.f /\ w.sig > ev
      OBVIOUS
    <2>1. w.sig \in Nat
      BY <1>1, Numbers
    <2>2. u.sig <= w.sig /\ w.sig > ev
      BY <1>2, <1>5, <1>6, <2>1
    <2>3. QED
      BY <1>1, <2>2 DEF UpdatesInv
  <1>9. \A h : Old(h) => h <= u.f /\ \A w \in updates : w.sig > u.sig => h <= w.f
    BY <1>2, <1>8 DEF Old, Before
  <1>10. HandlerInv'
    <2>1. Old(lastFU)'
      BY <1>1, <1>2, <1>4, <1>9 DEF HandlerInv, Old, Reached, Before
    <2>2. Old(blsHeight)'
      BY <1>1, <1>2, <1>4, <1>9 DEF HandlerInv, Old, Reached, Before
    <2>3. Old(bmv.height)'
      BY <1>1, <1>2, <1>4, <1>9 DEF HandlerInv, Old, Reached, Before
    <2>4. (ev <= head /\ upd \in updates /\ upd.sig >= ev /\ Before(upd.f) /\ slot = upd.f)'
      BY <1>2, <1>4, <1>5, <1>8 DEF Before
    <2>5. lastFU <= u.f
      BY <1>1, <1>9 DEF HandlerInv
    <2>6. lastFU < u.f
      BY <1>2, <1>5, <1>6, <2>5
    <2>7. QED
      BY <1>2, <2>1, <2>2, <2>3, <2>4, <2>6 DEF HandlerInv
  <1>11. RssInv'
    BY <1>1, <1>2, <1>4 DEF RssInv, StatusInv, StatusesAscend
  <1>12. SentInv' /\ BudsInv'
    BY <1>1, <1>2 DEF SentInv, BudsInv
  <1>13. QED
    BY <1>4, <1>7, <1>10, <1>11, <1>12 DEF IInv

\* The update read finalizes what the event's does: a later checkpoint ends the
\* handling of this one.
LEMMA ReadIs ==
    ASSUME IInv, pc = "read", Latest.f <= upd.f
    PROVE  /\ Read \in updates /\ Read \in Update /\ Read.f = upd.f /\ Read.sig >= ev
  <1>1. TypeOK /\ UpdatesInv /\ upd \in updates /\ upd.sig >= ev
    BY DEF IInv, HandlerInv, Handling
  <1>2. /\ Latest \in updates /\ Latest \in Update
        /\ upd.sig <= Latest.sig /\ upd.f <= Latest.f
    BY <1>1, LatestIs
  <1>3. /\ upd \in Update /\ upd.f \in Nat /\ upd.sig \in Nat /\ ev \in Nat
        /\ Latest.f \in Nat /\ Latest.sig \in Nat
    BY <1>1, <1>2, Numbers
  <1>4. CASE retry = 0
    BY <1>1, <1>3, <1>4 DEF Read
  <1>5. CASE retry # 0
    BY <1>1, <1>2, <1>3, <1>5 DEF Read
  <1>6. QED
    BY <1>4, <1>5

LEMMA ReadAgainIInv == IInv /\ ReadAgain => IInv'
  <1> SUFFICES ASSUME IInv, ReadAgain PROVE IInv'
    OBVIOUS
  <1>1. TypeOK /\ UpdatesInv /\ HandlerInv /\ RssInv /\ SentInv /\ BudsInv
    BY DEF IInv
  <1>2. /\ pc = "read" /\ Latest.f <= upd.f /\ retry < MaxRetry /\ upd' = Read /\ retry' = retry + 1
        /\ UNCHANGED <<pc, ev, slot, lastFU, from, buds, rss, blsHeight, sent, bmv, trouble, restarts>>
    BY DEF ReadAgain, linkVars
  <1>3. UNCHANGED chainVars
    BY DEF ReadAgain
  <1>4. UpdatesInv' /\ head' = head /\ blocks' = blocks /\ updates' = updates /\ fork' = fork
    BY <1>1, <1>3, ChainFrame
  <1>5. Read \in updates /\ Read \in Update /\ Read.f = upd.f /\ Read.sig >= ev
    BY <1>2, ReadIs
  <1>6. retry' \in 0 .. MaxRetry
    BY <1>1, <1>2, UpdateAssumption DEF TypeOK
  <1>7. TypeOK'
    BY <1>1, <1>2, <1>4, <1>5, <1>6 DEF TypeOK
  <1>8. upd'.f = upd.f /\ upd' \in updates' /\ upd'.sig >= ev'
    BY <1>2, <1>4, <1>5
  <1>9. HandlerInv'
    <2>1. Old(lastFU)'
      BY <1>1, <1>2, <1>4, <1>8 DEF HandlerInv, Old, Reached, Before, Handling
    <2>2. Old(blsHeight)'
      BY <1>1, <1>2, <1>4, <1>8 DEF HandlerInv, Old, Reached, Before, Handling
    <2>3. Old(bmv.height)'
      BY <1>1, <1>2, <1>4, <1>8 DEF HandlerInv, Old, Reached, Before, Handling
    <2>4. (ev <= head /\ upd \in updates /\ upd.sig >= ev /\ Before(upd.f) /\ slot = upd.f /\ lastFU < upd.f)'
      BY <1>1, <1>2, <1>4, <1>8 DEF HandlerInv, Before, Handling
    <2>5. QED
      BY <1>2, <2>1, <2>2, <2>3, <2>4 DEF HandlerInv
  <1>10. RssInv'
    BY <1>1, <1>2, <1>4 DEF RssInv, StatusInv, StatusesAscend
  <1>11. SentInv' /\ BudsInv'
    BY <1>1, <1>2 DEF SentInv, BudsInv
  <1>12. QED
    BY <1>4, <1>7, <1>9, <1>10, <1>11 DEF IInv

LEMMA ReadUpdateIInv == IInv /\ ReadUpdate => IInv'
  <1> SUFFICES ASSUME IInv, ReadUpdate PROVE IInv'
    OBVIOUS
  <1>1. TypeOK /\ UpdatesInv /\ HandlerInv /\ RssInv /\ SentInv /\ BudsInv
    BY DEF IInv
  <1>2. /\ pc = "read" /\ Latest.f <= upd.f /\ Read.strong /\ upd' = Read /\ lastFU' = Read.f
        /\ pc' = "periods"
        /\ UNCHANGED <<ev, slot, retry, from, buds, rss, blsHeight, sent, bmv, trouble, restarts>>
    BY DEF ReadUpdate, linkVars
  <1>3. UNCHANGED chainVars
    BY DEF ReadUpdate
  <1>4. UpdatesInv' /\ head' = head /\ blocks' = blocks /\ updates' = updates /\ fork' = fork
    BY <1>1, <1>3, ChainFrame
  <1>5. Read \in updates /\ Read \in Update /\ Read.f = upd.f /\ Read.sig >= ev
    BY <1>2, ReadIs
  <1>6. Read.f \in Slots /\ upd.f \in Nat /\ lastFU \in Nat
    BY <1>1, <1>5, Numbers
  <1>7. TypeOK'
    BY <1>1, <1>2, <1>4, <1>5, <1>6 DEF TypeOK
  <1>8. upd'.f = upd.f /\ upd' \in updates' /\ upd'.sig >= ev' /\ lastFU' = upd.f /\ upd'.strong
    BY <1>2, <1>4, <1>5
  <1>9. lastFU < upd.f /\ upd \in updates /\ Before(upd.f) /\ slot = upd.f
    BY <1>1, <1>2 DEF HandlerInv, Handling
  <1>10. \A i \in DOMAIN rss : rss[i].slot < upd.f /\ rss[i].slot <= upd.f
    <2> SUFFICES ASSUME NEW i \in DOMAIN rss PROVE rss[i].slot < upd.f /\ rss[i].slot <= upd.f
      OBVIOUS
    <2>1. rss[i].slot <= lastFU
      BY <1>1 DEF RssInv
    <2>2. rss[i].slot \in Nat
      <3>1. rss[i] \in Status
        BY <1>1, ElementOfSeq, LenProperties DEF TypeOK
      <3>2. QED
        BY <1>1, <3>1, Numbers DEF Status
    <2>3. QED
      BY <1>6, <1>9, <2>1, <2>2
  <1>11. HandlerInv'
    <2>1. Old(lastFU)'
      BY <1>4, <1>2, <1>6, <1>8, <1>9 DEF Old, Reached, Before, Handling
    <2>2. Old(blsHeight)'
      BY <1>1, <1>2, <1>4, <1>8 DEF HandlerInv, Old, Reached, Before, Handling
    <2>3. Old(bmv.height)'
      BY <1>1, <1>2, <1>4, <1>8 DEF HandlerInv, Old, Reached, Before, Handling
    <2>4. (ev <= head /\ upd \in updates /\ upd.sig >= ev /\ Before(upd.f) /\ slot = upd.f)'
      BY <1>1, <1>2, <1>4, <1>8, <1>9 DEF HandlerInv, Before
    <2>5. (upd.f = lastFU /\ upd.strong /\ \A i \in DOMAIN rss : rss[i].slot < upd.f)'
      BY <1>2, <1>8, <1>10
    <2>6. QED
      BY <1>2, <2>1, <2>2, <2>3, <2>4, <2>5 DEF HandlerInv
  <1>12. RssInv'
    BY <1>1, <1>2, <1>4, <1>8, <1>10 DEF RssInv, StatusInv, StatusesAscend
  <1>13. SentInv' /\ BudsInv'
    BY <1>1, <1>2 DEF SentInv, BudsInv
  <1>14. QED
    BY <1>4, <1>7, <1>11, <1>12, <1>13 DEF IInv

\* The node answers with the best update of each period from start on, and of as many
\* of the periods as it has an update of.
LEMMA UpdatesGot ==
    ASSUME NEW start \in Nat, NEW n \in Nat, NEW best \in LightClientUpdates(start, n)
    PROVE  \E m \in 0 .. n : /\ DOMAIN best = 1 .. m
                             /\ \A i \in 1 .. m : best[i] \in Best(start + i - 1)
                             /\ m < n => Best(start + m) = {}
  <1> DEFINE S == {m \in 0 .. n : Known(start, m)}
  <1>1. 0 \in S
    BY DEF Known
  <1>2. S \in SUBSET Nat /\ S # {} /\ \A x \in S : x <= n
    BY <1>1
  <1> HIDE DEF S
  <1>3. Max(S) \in S /\ \A x \in S : x <= Max(S)
    BY <1>2, MaxOf
  <1> DEFINE m == Max(S)
  <1>4. m \in 0 .. n /\ Known(start, m)
    BY <1>3 DEF S
  <1>5. best \in {b \in [1 .. m -> updates] : \A i \in 1 .. m : b[i] \in Best(start + i - 1)}
    BY DEF LightClientUpdates, S
  <1> HIDE DEF m
  <1>6. ASSUME m < n PROVE Best(start + m) = {}
    <2> SUFFICES ASSUME Best(start + m) # {} PROVE FALSE
      OBVIOUS
    <2>1. Known(start, m + 1)
      <3> SUFFICES ASSUME NEW p \in start .. start + (m + 1) - 1 PROVE Best(p) # {}
        BY DEF Known
      <3>1. p = start + m \/ p \in start .. start + m - 1
        BY <1>4
      <3>2. QED
        BY <1>4, <3>1 DEF Known
    <2>2. m + 1 \in S
      BY <1>4, <1>6, <2>1 DEF S
    <2>3. m + 1 <= m
      BY <1>3, <2>2 DEF m
    <2>4. QED
      BY <1>4, <2>3
  <1>7. QED
    BY <1>4, <1>5, <1>6

\* The periods asked for are those from the relay's idea of the verifier up to the
\* update's.
LEMMA FetchIs ==
    ASSUME IInv, FetchPeriods
    PROVE  /\ from' = Period(blsHeight) /\ from' \in Nat /\ from' <= Period(upd.f)
           /\ buds' \in Seq(Bud) /\ Len(buds') <= Period(upd.f) - from'
           /\ Len(buds') < Period(upd.f) - from' => Best(from' + Len(buds')) = {}
           /\ \A i \in DOMAIN buds' : \E u \in Best(from' + i - 1) : buds'[i] = LightClientBud(u)
  <1> DEFINE a == Period(blsHeight)
             b == Period(upd.f)
             P == a .. b - 1
             n == Cardinality(P)
             start == IF n = 0 THEN 0 ELSE Min(P)
  <1>1. TypeOK /\ UpdatesInv /\ HandlerInv /\ pc = "periods"
    BY DEF IInv, FetchPeriods
  <1>2. a \in Nat /\ b \in Nat /\ a <= b
    <2>1. blsHeight \in Nat /\ upd.f \in Nat /\ blsHeight <= upd.f
      BY <1>1, Numbers DEF HandlerInv, Old, Handling
    <2>2. QED
      BY <2>1, PeriodAscends
  <1>3. P = PeriodsToFetch /\ from' = a
    BY DEF PeriodsToFetch, FetchPeriods
  <1>4. PICK best \in LightClientUpdates(start, n) :
            buds' = [i \in DOMAIN best |-> LightClientBud(best[i])]
    BY DEF PeriodsToFetch, FetchPeriods
  <1> HIDE DEF a, b
  <1>5. n = b - a /\ n \in Nat
    <2>1. a \in Int /\ b - 1 \in Int
      BY <1>2
    <2>2. Cardinality(a .. b - 1) = IF a > b - 1 THEN 0 ELSE (b - 1) - a + 1
      BY <2>1, FS_Interval
    <2>3. QED
      BY <1>2, <2>2
  <1>6. n > 0 => start = a
    <2> SUFFICES ASSUME n > 0 PROVE Min(P) = a
      BY <1>5
    <2>1. a \in P /\ \A x \in P : a <= x /\ x \in Int
      BY <1>2, <1>5
    <2> HIDE DEF P
    <2>2. \E x \in P : \A y \in P : x <= y
      BY <2>1
    <2>3. Min(P) \in P /\ \A y \in P : Min(P) <= y
      BY <2>2 DEF Min
    <2>4. Min(P) \in Int /\ a <= Min(P) /\ Min(P) <= a
      BY <2>1, <2>3, Zenon
    <2>5. QED
      BY <1>2, <2>4
  <1> HIDE DEF P
  <1>7. start \in Nat
    BY <1>2, <1>5, <1>6
  <1> HIDE DEF n, start
  <1>8. PICK m \in 0 .. n : /\ DOMAIN best = 1 .. m
                            /\ \A i \in 1 .. m : best[i] \in Best(start + i - 1)
                            /\ m < n => Best(start + m) = {}
    BY <1>5, <1>7, UpdatesGot
  <1>9. /\ \A i \in 1 .. m : best[i] \in Best(a + i - 1)
        /\ m < n => Best(a + m) = {}
    <2>1. CASE n > 0
      BY <1>6, <1>8, <2>1
    <2>2. CASE ~(n > 0)
      BY <1>5, <1>8, <2>2
    <2>3. QED
      BY <2>1, <2>2
  <1>10. \A u \in updates : LightClientBud(u) \in Bud
    BY <1>1, Numbers DEF LightClientBud, FinalityBud, Bud, Update
  <1>11. buds' \in [1 .. m -> Bud]
    <2>1. \A i \in 1 .. m : LightClientBud(best[i]) \in Bud
      BY <1>9, <1>10, BestAre
    <2>2. QED
      BY <1>4, <1>8, <2>1
  <1>12. buds' \in Seq(Bud) /\ Len(buds') = m /\ DOMAIN buds' = 1 .. m
    BY <1>5, <1>8, <1>11
  <1>13. \A i \in DOMAIN buds' : \E u \in Best(a + i - 1) : buds'[i] = LightClientBud(u)
    BY <1>4, <1>8, <1>9, <1>12
  <1>14. m <= b - a /\ (m < b - a => Best(a + m) = {})
    BY <1>5, <1>8, <1>9
  <1>15. QED
    BY <1>2, <1>3, <1>12, <1>13, <1>14 DEF a, b

LEMMA FetchIInv == IInv /\ FetchPeriods => IInv'
  <1> SUFFICES ASSUME IInv, FetchPeriods PROVE IInv'
    OBVIOUS
  <1>1. TypeOK /\ UpdatesInv /\ HandlerInv /\ RssInv /\ SentInv /\ BudsInv
    BY DEF IInv
  <1>2. /\ pc = "periods" /\ pc' = "edge"
        /\ UNCHANGED <<ev, slot, upd, retry, lastFU, rss, blsHeight, sent, bmv, trouble, restarts>>
    BY DEF FetchPeriods, linkVars
  <1>3. UNCHANGED chainVars
    BY DEF FetchPeriods
  <1>4. /\ UpdatesInv' /\ head' = head /\ blocks' = blocks /\ updates' = updates /\ fork' = fork
        /\ \A p : Best(p)' = Best(p)
    BY <1>1, <1>3, ChainFrame
  <1>5. /\ from' \in Nat /\ from' <= Period(upd.f)
        /\ buds' \in Seq(Bud) /\ Len(buds') <= Period(upd.f) - from'
        /\ Len(buds') < Period(upd.f) - from' => Best(from' + Len(buds')) = {}
        /\ \A i \in DOMAIN buds' : \E u \in Best(from' + i - 1) : buds'[i] = LightClientBud(u)
    BY FetchIs
  <1>6. TypeOK'
    BY <1>1, <1>2, <1>4, <1>5 DEF TypeOK
  <1>7. HandlerInv'
    <2>1. Old(lastFU)' /\ Old(blsHeight)' /\ Old(bmv.height)'
      BY <1>1, <1>2, <1>4 DEF HandlerInv, Old, Reached, Before, Handling
    <2>2. (ev <= head /\ upd \in updates /\ upd.sig >= ev /\ Before(upd.f) /\ slot = upd.f)'
      BY <1>1, <1>2, <1>4 DEF HandlerInv, Before, Handling
    <2>3. (upd.f = lastFU /\ upd.strong /\ \A i \in DOMAIN rss : rss[i].slot < upd.f)'
      BY <1>1, <1>2 DEF HandlerInv
    <2>4. QED
      BY <1>2, <2>1, <2>2, <2>3 DEF HandlerInv
  <1>8. RssInv'
    BY <1>1, <1>2, <1>4 DEF RssInv, StatusInv, StatusesAscend
  <1>9. SentInv'
    BY <1>1, <1>2 DEF SentInv
  <1>10. BudsInv'
    <2>1. \A i \in DOMAIN buds' : \E u \in Best(from + i - 1)' : buds'[i] = LightClientBud(u)
      BY <1>4, <1>5 DEF Best, Prefer, OfPeriod, Strong, FinalInPeriod
    <2>2. (Len(buds) < Period(upd.f) - from => Best(from + Len(buds)) = {})'
      BY <1>2, <1>4, <1>5 DEF Best, Prefer, OfPeriod, Strong, FinalInPeriod
    <2>3. QED
      BY <1>2, <1>5, <2>1, <2>2 DEF BudsInv
  <1>11. QED
    BY <1>4, <1>6, <1>7, <1>8, <1>9, <1>10 DEF IInv

\* The status announced: the block updates made, and the update's own.
LEMMA AnnounceIs ==
    ASSUME IInv, Announce
    PROVE  \E bud \in LastBud :
              /\ bud \in Bud /\ bud.upd = upd
              /\ Append(buds, bud) \in Seq(Bud)
              /\ [slot |-> upd.f, buds |-> Append(buds, bud)] \in Status
              /\ StatusInv([slot |-> upd.f, buds |-> Append(buds, bud)])
              /\ rss' = Append(rss, [slot |-> upd.f, buds |-> Append(buds, bud)])
  <1>1. TypeOK /\ UpdatesInv /\ HandlerInv /\ BudsInv /\ pc = "edge"
    BY DEF IInv, Announce
  <1>2. PICK bud \in LastBud : rss' = Append(rss, [slot |-> upd.f, buds |-> Append(buds, bud)])
    <2>1. slot = upd.f
      BY <1>1 DEF HandlerInv, Handling
    <2>2. QED
      BY <2>1 DEF Announce
  <1>3. upd \in Update /\ upd.f \in Slots /\ upd.f \in Nat /\ upd \in updates /\ Period(upd.f) \in Nat
    <2>1. upd \in updates
      BY <1>1 DEF HandlerInv, Handling
    <2>2. upd \in Update /\ upd.f \in Slots /\ upd.f \in Nat
      BY <1>1, Numbers
    <2>3. QED
      BY <1>1, <2>1, <2>2, UpdateOrder
  <1>4. bud \in Bud /\ bud.upd = upd
    <2>1. CASE IsSyncCommitteeEdge(upd.f)
      <3>1. PICK u \in Best(Period(upd.f)) : bud = FinalityBud(upd, u.a)
        BY <2>1 DEF LastBud
      <3>2. u \in Update
        BY <1>1, <3>1, BestAre, Numbers
      <3>3. QED
        BY <1>3, <3>1, <3>2 DEF FinalityBud, Bud, Update
    <2>2. CASE ~IsSyncCommitteeEdge(upd.f)
      <3>1. bud = FinalityBud(upd, 0)
        BY <2>2 DEF LastBud
      <3>2. QED
        BY <1>3, <3>1 DEF FinalityBud, Bud
    <2>3. QED
      BY <2>1, <2>2
  <1>5. buds \in Seq(Bud) /\ Len(buds) \in Nat /\ DOMAIN buds = 1 .. Len(buds)
    BY <1>1, LenProperties DEF TypeOK
  <1> DEFINE c == Append(buds, bud)
  <1>6. /\ c \in Seq(Bud) /\ c # <<>> /\ Len(c) = Len(buds) + 1
        /\ \A i \in 1 .. Len(buds) : c[i] = buds[i]
        /\ c[Len(buds) + 1] = bud
    BY <1>4, <1>5, AppendProperties
  <1>7. DOMAIN c = 1 .. Len(buds) + 1
    BY <1>6, LenProperties
  <1> HIDE DEF c
  <1>8. ASSUME NEW i \in 1 .. Len(buds)
        PROVE  buds[i].upd \in updates /\ buds[i].upd.f <= upd.f
    <2>1. PICK u \in Best(from + i - 1) : buds[i] = LightClientBud(u)
      BY <1>1, <1>5 DEF BudsInv
    <2>2. u \in updates /\ Period(u.sig) = from + i - 1
      BY <2>1, BestAre
    <2>3. from \in Nat /\ Len(buds) <= Period(upd.f) - from
      BY <1>1 DEF BudsInv, TypeOK
    <2>4. Period(u.f) <= Period(u.sig) /\ Period(u.f) \in Nat /\ Period(u.sig) \in Nat /\ u.f \in Nat
      <3>1. /\ Period(u.f) \in Nat /\ Period(u.a) \in Nat /\ Period(u.sig) \in Nat
            /\ Period(u.f) <= Period(u.a) /\ Period(u.a) <= Period(u.sig)
        BY <1>1, <2>2, UpdateOrder
      <3>2. u.f \in Nat
        BY <1>1, <2>2, Numbers
      <3>3. QED
        BY <3>1, <3>2
    <2>5. Period(u.f) < Period(upd.f)
      BY <1>3, <1>5, <2>2, <2>3, <2>4
    <2>6. u.f <= upd.f
      <3>1. ~(upd.f <= u.f)
        <4>1. upd.f <= u.f => Period(upd.f) <= Period(u.f)
          BY <1>3, <2>4, PeriodAscends
        <4>2. QED
          BY <1>3, <2>4, <2>5, <4>1
      <3>2. QED
        BY <1>3, <2>4, <3>1
    <2>7. buds[i].upd = u
      BY <2>1 DEF LightClientBud, FinalityBud
    <2>8. QED
      BY <2>2, <2>6, <2>7
  <1> DEFINE st == [slot |-> upd.f, buds |-> c]
  <1>9. st \in Status /\ st.buds = c /\ st.slot = upd.f
    BY <1>3, <1>6 DEF Status
  <1>10. ASSUME NEW i \in DOMAIN c PROVE c[i].upd \in updates /\ c[i].upd.f <= upd.f
    <2>1. CASE i \in 1 .. Len(buds)
      BY <1>6, <1>8, <2>1
    <2>2. CASE i \notin 1 .. Len(buds)
      <3>1. i = Len(buds) + 1
        BY <1>5, <1>7, <2>2
      <3>2. QED
        BY <1>3, <1>4, <1>6, <3>1
    <2>3. QED
      BY <2>1, <2>2
  <1>11. StatusInv(st)
    <2> HIDE DEF st
    <2>1. c[Len(c)].upd.f = upd.f
      BY <1>4, <1>6
    <2>2. QED
      BY <1>6, <1>9, <1>10, <2>1 DEF StatusInv
  <1>12. QED
    BY <1>2, <1>4, <1>6, <1>9, <1>11 DEF c

LEMMA AnnounceIInv == IInv /\ Announce => IInv'
  <1> SUFFICES ASSUME IInv, Announce PROVE IInv'
    OBVIOUS
  <1>1. TypeOK /\ UpdatesInv /\ HandlerInv /\ RssInv /\ SentInv /\ BudsInv
    BY DEF IInv
  <1>2. /\ pc = "edge" /\ pc' = "idle" /\ slot' = FirstSlot /\ upd' = NoUpdate /\ retry' = 0 /\ buds' = <<>> /\ from' = 0
        /\ UNCHANGED <<ev, lastFU, blsHeight, sent, bmv, trouble, restarts>>
    BY DEF Announce, linkVars
  <1>3. UNCHANGED chainVars
    BY DEF Announce
  <1>4. UpdatesInv' /\ head' = head /\ blocks' = blocks /\ updates' = updates /\ fork' = fork
    BY <1>1, <1>3, ChainFrame
  <1>5. PICK st \in Status : st.slot = upd.f /\ StatusInv(st) /\ rss' = Append(rss, st)
    BY AnnounceIs
  <1>6. rss \in Seq(Status) /\ Len(rss) \in Nat /\ DOMAIN rss = 1 .. Len(rss)
    BY <1>1, LenProperties DEF TypeOK
  <1>7. /\ rss' \in Seq(Status) /\ Len(rss') = Len(rss) + 1
        /\ \A i \in 1 .. Len(rss) : rss'[i] = rss[i]
        /\ rss'[Len(rss) + 1] = st
    BY <1>5, <1>6, AppendProperties
  <1>8. DOMAIN rss' = 1 .. Len(rss) + 1
    BY <1>7, LenProperties
  <1>9. TypeOK'
    <2>1. upd' \in Update /\ slot' \in Slots
      BY <1>2, UpdateAssumption DEF NoUpdate, Update, Slots
    <2>2. buds' \in Seq(Bud) /\ retry' \in 0 .. MaxRetry
      BY <1>2, EmptySeq, UpdateAssumption
    <2>3. QED
      BY <1>1, <1>2, <1>4, <1>7, <2>1, <2>2 DEF TypeOK
  <1>10. HandlerInv'
    BY <1>1, <1>2, <1>4 DEF HandlerInv, Old, Reached, Before, Handling
  <1>11. upd.f = lastFU /\ lastFU \in Nat /\ \A i \in DOMAIN rss : rss[i].slot < upd.f
    BY <1>1, <1>2, Numbers DEF HandlerInv
  <1>12. ASSUME NEW i \in DOMAIN rss'
         PROVE  /\ StatusInv(rss'[i]) /\ rss'[i].slot <= lastFU
                /\ \A j \in 1 .. i - 1 : rss'[j].slot < rss'[i].slot
    <2>1. CASE i \in 1 .. Len(rss)
      <3>1. \A j \in 1 .. i - 1 : j \in 1 .. Len(rss)
        BY <1>6, <2>1
      <3>2. StatusInv(rss[i]) /\ rss[i].slot <= lastFU /\ \A j \in 1 .. i - 1 : rss[j].slot < rss[i].slot
        BY <1>1, <1>6, <2>1 DEF RssInv, StatusesAscend
      <3>3. QED
        BY <1>7, <2>1, <3>1, <3>2
    <2>2. CASE i \notin 1 .. Len(rss)
      <3>1. i = Len(rss) + 1
        BY <1>6, <1>8, <2>2
      <3>2. \A j \in 1 .. i - 1 : j \in 1 .. Len(rss)
        BY <1>6, <3>1
      <3>3. QED
        BY <1>5, <1>6, <1>7, <1>11, <3>1, <3>2
    <2>3. QED
      BY <2>1, <2>2
  <1>13. RssInv'
    <2>1. \A s : StatusInv(s) => /\ s.buds # <<>>
                                 /\ s.buds[Len(s.buds)].upd.f = s.slot
                                 /\ \A i \in DOMAIN s.buds : s.buds[i].upd \in updates' /\ s.buds[i].upd.f <= s.slot
      BY <1>4 DEF StatusInv
    <2>2. QED
      BY <1>2, <1>12, <2>1 DEF RssInv, StatusInv, StatusesAscend
  <1>14. SentInv' /\ BudsInv'
    BY <1>1, <1>2 DEF SentInv, BudsInv
  <1>15. QED
    BY <1>4, <1>9, <1>10, <1>13, <1>14 DEF IInv

\* What is relayed ends with the last status's checkpoint.
LEMMA RelayIs ==
    ASSUME IInv, Relay
    PROVE  /\ sent' \in Seq(Bud) /\ sent' # <<>>
           /\ blsHeight' = rss[Len(rss)].slot
           /\ sent'[Len(sent')].upd.f = rss[Len(rss)].slot
           /\ \A k \in DOMAIN sent' : sent'[k].upd.f <= rss[Len(rss)].slot
           /\ Len(rss) \in DOMAIN rss
  <1>1. TypeOK /\ RssInv /\ rss # <<>> /\ sent' = BlockUpdatesOf(rss) /\ blsHeight' = TargetHeight(sent')
    BY DEF IInv, Relay
  <1> DEFINE n == Len(rss)
             s == [i \in DOMAIN rss |-> rss[i].buds]
  <1>2. /\ n \in Nat \ {0} /\ DOMAIN rss = 1 .. n
        /\ \A i \in 1 .. n : rss[i] \in Status
    <2>1. rss \in Seq(Status)
      BY <1>1 DEF TypeOK
    <2>2. n \in Nat /\ DOMAIN rss = 1 .. n /\ \A i \in 1 .. n : rss[i] \in Status
      BY <2>1, ElementOfSeq, LenProperties
    <2>3. n # 0
      BY <1>1, <2>1, EmptySeq
    <2>4. QED
      BY <2>2, <2>3
  <1> HIDE DEF n
  <1>3. n \in 1 .. n
    BY <1>2
  <1>4. \A i \in 1 .. n : rss[i].buds \in Seq(Bud) /\ rss[i].slot \in Nat
    <2>1. \A st \in Status : st.buds \in Seq(Bud) /\ st.slot \in Nat
      BY <1>1, Numbers DEF Status
    <2>2. QED
      BY <1>2, <2>1
  <1>5. s \in [1 .. n -> Seq(Bud)] /\ \A i \in 1 .. n : s[i] = rss[i].buds
    BY <1>2, <1>4
  <1>6. s \in Seq(Seq(Bud)) /\ Len(s) = n /\ DOMAIN s = 1 .. n
    BY <1>2, <1>5
  <1>7. BlockUpdatesOf(rss) = FlattenSeq(s)
    BY DEF BlockUpdatesOf
  <1> HIDE DEF s
  <1>8. s # <<>>
    BY <1>2, <1>6, EmptySeq
  <1>9. \A i \in 1 .. n : StatusInv(rss[i])
    BY <1>1, <1>2 DEF RssInv
  <1>10. s[Len(s)] # <<>>
    BY <1>3, <1>5, <1>6, <1>9 DEF StatusInv
  <1> DEFINE F == FlattenSeq(s)
  <1>11. /\ F \in Seq(Bud) /\ F # <<>>
         /\ \A k \in DOMAIN F : \E i \in DOMAIN s : \E j \in DOMAIN s[i] : F[k] = s[i][j]
         /\ F[Len(F)] = s[Len(s)][Len(s[Len(s)])]
    BY <1>6, <1>8, <1>10, FlattenIs
  <1> HIDE DEF F
  <1>12. sent' = F
    BY <1>1, <1>7 DEF F
  <1>13. F[Len(F)] = rss[n].buds[Len(rss[n].buds)]
    BY <1>3, <1>5, <1>6, <1>11
  <1>14. F[Len(F)].upd.f = rss[n].slot
    BY <1>3, <1>9, <1>13 DEF StatusInv
  <1>15. ASSUME NEW k \in DOMAIN F PROVE F[k].upd.f <= rss[n].slot
    <2>1. PICK i \in DOMAIN s : \E j \in DOMAIN s[i] : F[k] = s[i][j]
      BY <1>11
    <2>2. PICK j \in DOMAIN s[i] : F[k] = s[i][j]
      BY <2>1
    <2>3. i \in 1 .. n /\ j \in DOMAIN rss[i].buds /\ F[k] = rss[i].buds[j]
      BY <1>5, <1>6, <2>2
    <2>4. F[k].upd.f <= rss[i].slot
      BY <1>9, <2>3 DEF StatusInv
    <2>5. rss[i].slot <= rss[n].slot
      <3>1. CASE i = n
        BY <1>3, <1>4, <3>1
      <3>2. CASE i # n
        <4>1. i \in 1 .. n - 1
          BY <1>2, <2>3, <3>2
        <4>2. rss[i].slot < rss[n].slot
          BY <1>1, <1>2, <1>3, <4>1 DEF RssInv, StatusesAscend
        <4>3. QED
          BY <1>3, <1>4, <2>3, <4>2
      <3>3. QED
        BY <3>1, <3>2
    <2>6. F[k].upd.f \in Nat
      <3>1. F[k] \in Bud
        BY <1>11, ElementOfSeq, LenProperties
      <3>2. QED
        BY <1>1, <3>1, Numbers DEF Bud
    <2>7. QED
      BY <1>3, <1>4, <2>3, <2>4, <2>5, <2>6
  <1>16. blsHeight' = rss[n].slot
    BY <1>1, <1>12, <1>14 DEF TargetHeight
  <1>17. QED
    BY <1>2, <1>3, <1>11, <1>12, <1>14, <1>15, <1>16 DEF n

LEMMA RelayIInv == IInv /\ Relay => IInv'
  <1> SUFFICES ASSUME IInv, Relay PROVE IInv'
    OBVIOUS
  <1>1. TypeOK /\ UpdatesInv /\ HandlerInv /\ RssInv /\ SentInv /\ BudsInv
    BY DEF IInv
  <1>2. /\ UNCHANGED <<pc, ev, slot, upd, retry, lastFU, from, buds, rss, bmv, trouble, restarts>>
        /\ sent = <<>> /\ blsHeight < rss[Len(rss)].slot
    BY DEF Relay, handlerVars
  <1>3. UNCHANGED chainVars
    BY DEF Relay
  <1>4. /\ UpdatesInv' /\ head' = head /\ blocks' = blocks /\ updates' = updates /\ fork' = fork
        /\ \A p : Best(p)' = Best(p)
    BY <1>1, <1>3, ChainFrame
  <1> DEFINE top == rss[Len(rss)].slot
  <1>5. /\ sent' \in Seq(Bud) /\ sent' # <<>>
        /\ blsHeight' = top
        /\ sent'[Len(sent')].upd.f = top
        /\ \A k \in DOMAIN sent' : sent'[k].upd.f <= top
        /\ Len(rss) \in DOMAIN rss
    BY RelayIs
  <1>6. rss[Len(rss)] \in Status
    BY <1>1, <1>5, ElementOfSeq, LenProperties DEF TypeOK
  <1>7. top \in Slots /\ top \in Nat /\ lastFU \in Nat /\ blsHeight \in Nat /\ upd.f \in Nat
        /\ \A u \in updates : u.f \in Nat
    BY <1>1, <1>6, Numbers DEF Status
  <1>8. top <= lastFU /\ \E u \in updates : u.f = top
    <2>1. StatusInv(rss[Len(rss)]) /\ top <= lastFU
      BY <1>1, <1>5 DEF RssInv
    <2> DEFINE b == rss[Len(rss)].buds
    <2>2. b \in Seq(Bud) /\ b # <<>> /\ b[Len(b)].upd.f = top /\ \A i \in DOMAIN b : b[i].upd \in updates
      BY <1>6, <2>1 DEF StatusInv, Status
    <2> HIDE DEF b, top
    <2>3. Len(b) \in DOMAIN b
      BY <2>2, EmptySeq, LenProperties
    <2>4. QED
      BY <2>1, <2>2, <2>3 DEF top
  <1> HIDE DEF top
  <1>9. TypeOK'
    BY <1>1, <1>2, <1>4, <1>5, <1>7 DEF TypeOK
  <1>10. Old(top)
    <2>1. Reached(top)
      BY <1>8 DEF Reached
    <2>2. Before(top)
      <3> SUFFICES ASSUME NEW u \in updates, u.sig > ev PROVE top <= u.f
        BY DEF Before
      <3>1. lastFU <= u.f
        BY <1>1 DEF HandlerInv, Old, Before
      <3>2. QED
        BY <1>7, <1>8, <3>1
    <2>3. Handling => top <= upd.f
      <3>1. Handling => lastFU <= upd.f
        BY <1>1 DEF HandlerInv, Old
      <3>2. QED
        BY <1>7, <1>8, <3>1
    <2>4. QED
      BY <2>1, <2>2, <2>3 DEF Old
  <1>11. HandlerInv'
    <2>1. Old(lastFU)' /\ Old(bmv.height)'
      BY <1>1, <1>2, <1>4 DEF HandlerInv, Old, Reached, Before, Handling
    <2>2. Old(blsHeight)'
      BY <1>2, <1>4, <1>5, <1>10 DEF Old, Reached, Before, Handling
    <2>3. QED
      BY <1>1, <1>2, <1>4, <2>1, <2>2 DEF HandlerInv, Before, Handling
  <1>12. RssInv'
    BY <1>1, <1>2, <1>4 DEF RssInv, StatusInv, StatusesAscend
  <1>13. SentInv'
    <2>1. blsHeight = bmv.height
      BY <1>1, <1>2 DEF SentInv
    <2>2. bmv'.height <= blsHeight'
      BY <1>2, <1>5, <1>7, <2>1 DEF top
    <2>3. QED
      BY <1>5, <2>2 DEF SentInv
  <1>14. BudsInv'
    BY <1>1, <1>2, <1>3 DEF BudsInv, chainVars, Best, Prefer, OfPeriod, Strong, FinalInPeriod
  <1>15. QED
    BY <1>4, <1>9, <1>11, <1>12, <1>13, <1>14 DEF IInv

\* The verifier ends where the relay takes it to be.
LEMMA AcceptHeight ==
    ASSUME IInv, Accept
    PROVE  bmv' \in BmvState /\ bmv'.height = blsHeight
  <1>1. TypeOK /\ SentInv /\ sent # <<>> /\ bmv' = Course(bmv, sent)[Len(sent)]
    BY DEF IInv, Accept
  <1>2. /\ bmv \in BmvState /\ sent \in Seq(Bud) /\ blsHeight \in Nat /\ bmv.height <= blsHeight
        /\ sent[Len(sent)].upd.f = blsHeight
        /\ \A i \in DOMAIN sent : sent[i].upd.f <= blsHeight
    BY <1>1, Numbers DEF TypeOK, SentInv, BmvState
  <1>3. DOMAIN sent = 1 .. Len(sent) /\ Len(sent) \in Nat \ {0}
    BY <1>1, <1>2, EmptySeq, LenProperties
  <1> DEFINE C == Course(bmv, sent)
  <1>4. \A i \in 0 .. Len(sent) :
              /\ C[i] \in BmvState /\ C[i].height \in Nat
              /\ C[i].height <= blsHeight
              /\ i > 0 => sent[i].upd.f <= C[i].height
    BY <1>2, <1>3, CourseRises
  <1> HIDE DEF C
  <1>5. Len(sent) \in 0 .. Len(sent) /\ Len(sent) > 0
    BY <1>3
  <1>6. bmv' = C[Len(sent)]
    BY <1>1 DEF C
  <1>7. /\ C[Len(sent)] \in BmvState /\ C[Len(sent)].height \in Nat
        /\ C[Len(sent)].height <= blsHeight /\ blsHeight <= C[Len(sent)].height
    BY <1>2, <1>4, <1>5
  <1>8. QED
    BY <1>2, <1>6, <1>7

LEMMA AcceptIInv == IInv /\ Accept => IInv'
  <1> SUFFICES ASSUME IInv, Accept PROVE IInv'
    OBVIOUS
  <1>1. TypeOK /\ UpdatesInv /\ HandlerInv /\ RssInv /\ SentInv /\ BudsInv
    BY DEF IInv
  <1>2. /\ UNCHANGED <<pc, ev, slot, upd, retry, lastFU, from, buds, rss, blsHeight, trouble, restarts>>
        /\ sent' = <<>>
    BY DEF Accept, handlerVars
  <1>3. UNCHANGED chainVars
    BY DEF Accept
  <1>4. UpdatesInv' /\ head' = head /\ blocks' = blocks /\ updates' = updates /\ fork' = fork
    BY <1>1, <1>3, ChainFrame
  <1>5. bmv' \in BmvState /\ bmv'.height = blsHeight /\ blsHeight \in Nat
    BY <1>1, AcceptHeight, Numbers
  <1>6. sent' \in Seq(Bud)
    BY <1>2, EmptySeq
  <1>7. TypeOK'
    BY <1>1, <1>2, <1>4, <1>5, <1>6 DEF TypeOK, BmvState
  <1>8. HandlerInv'
    <2>1. Old(lastFU)' /\ Old(blsHeight)'
      BY <1>1, <1>2, <1>4 DEF HandlerInv, Old, Reached, Before, Handling
    <2>2. Old(bmv.height)'
      BY <1>1, <1>2, <1>4, <1>5 DEF HandlerInv, Old, Reached, Before, Handling
    <2>3. QED
      BY <1>1, <1>2, <1>4, <2>1, <2>2 DEF HandlerInv, Before, Handling
  <1>9. RssInv'
    BY <1>1, <1>2, <1>4 DEF RssInv, StatusInv, StatusesAscend
  <1>10. SentInv'
    BY <1>2, <1>5 DEF SentInv
  <1>11. BudsInv'
    BY <1>1, <1>2, <1>3 DEF BudsInv, chainVars, Best, Prefer, OfPeriod, Strong, FinalInPeriod
  <1>12. QED
    BY <1>4, <1>7, <1>8, <1>9, <1>10, <1>11 DEF IInv

LEMMA RefuseIInv == IInv /\ Refuse => IInv'
  <1> SUFFICES ASSUME IInv, Refuse PROVE IInv'
    OBVIOUS
  <1>1. TypeOK /\ UpdatesInv /\ HandlerInv /\ RssInv /\ SentInv /\ BudsInv
    BY DEF IInv
  <1>2. /\ UNCHANGED <<pc, ev, slot, upd, retry, lastFU, from, buds, rss, bmv, trouble, restarts>>
        /\ sent' = <<>> /\ blsHeight' = bmv.height
    BY DEF Refuse, handlerVars
  <1>3. UNCHANGED chainVars
    BY DEF Refuse
  <1>4. UpdatesInv' /\ head' = head /\ blocks' = blocks /\ updates' = updates /\ fork' = fork
    BY <1>1, <1>3, ChainFrame
  <1>5. bmv.height \in Slots /\ bmv.height \in Nat /\ sent' \in Seq(Bud)
    BY <1>1, <1>2, Numbers, EmptySeq DEF TypeOK
  <1>6. TypeOK'
    BY <1>1, <1>2, <1>4, <1>5 DEF TypeOK
  <1>7. HandlerInv'
    <2>1. Old(lastFU)' /\ Old(bmv.height)'
      BY <1>1, <1>2, <1>4 DEF HandlerInv, Old, Reached, Before, Handling
    <2>2. Old(blsHeight)'
      BY <1>1, <1>2, <1>4 DEF HandlerInv, Old, Reached, Before, Handling
    <2>3. QED
      BY <1>1, <1>2, <1>4, <2>1, <2>2 DEF HandlerInv, Before, Handling
  <1>8. RssInv'
    BY <1>1, <1>2, <1>4 DEF RssInv, StatusInv, StatusesAscend
  <1>9. SentInv'
    BY <1>2, <1>5 DEF SentInv
  <1>10. BudsInv'
    BY <1>1, <1>2, <1>3 DEF BudsInv, chainVars, Best, Prefer, OfPeriod, Strong, FinalInPeriod
  <1>11. QED
    BY <1>4, <1>6, <1>7, <1>8, <1>9, <1>10 DEF IInv

LEMMA ClearIInv == IInv /\ Clear => IInv'
  <1> SUFFICES ASSUME IInv, Clear PROVE IInv'
    OBVIOUS
  <1>1. TypeOK /\ UpdatesInv /\ HandlerInv /\ RssInv /\ SentInv /\ BudsInv
    BY DEF IInv
  <1>2. PICK c \in DOMAIN rss : rss' = SubSeq(rss, c + 1, Len(rss))
    BY DEF Clear
  <1>3. UNCHANGED <<pc, ev, slot, upd, retry, lastFU, from, buds, blsHeight, sent, bmv, trouble, restarts>>
    BY DEF Clear, linkVars
  <1>4. UNCHANGED chainVars
    BY DEF Clear
  <1>5. UpdatesInv' /\ head' = head /\ blocks' = blocks /\ updates' = updates /\ fork' = fork
    BY <1>1, <1>4, ChainFrame
  <1> DEFINE n == Len(rss)
  <1>6. n \in Nat /\ c \in 1 .. n /\ DOMAIN rss = 1 .. n /\ \A i \in 1 .. n : rss[i] \in Status
    BY <1>1, <1>2, ElementOfSeq, LenProperties DEF TypeOK
  <1> HIDE DEF n
  <1>7. /\ rss' \in Seq(Status) /\ DOMAIN rss' = 1 .. n - c
        /\ \A i \in 1 .. n - c : rss'[i] = rss[c + i]
    <2>1. c + 1 \in Int /\ n \in Int /\ \A i \in c + 1 .. n : rss[i] \in Status
      BY <1>6
    <2> DEFINE q == SubSeq(rss, c + 1, n)
    <2>2. /\ q \in Seq(Status)
          /\ Len(q) = IF c + 1 <= n THEN n - (c + 1) + 1 ELSE 0
          /\ \A i \in 1 .. n - (c + 1) + 1 : q[i] = rss[c + 1 + i - 1]
      BY <2>1, SubSeqProperties
    <2>3. rss' = q
      BY <1>2 DEF n
    <2> HIDE DEF q
    <2>4. DOMAIN q = 1 .. Len(q)
      BY <2>2, LenProperties
    <2>5. n - (c + 1) + 1 = n - c /\ Len(q) = n - c
      BY <1>6, <2>2
    <2>6. \A i \in 1 .. n - c : c + 1 + i - 1 = c + i
      BY <1>6
    <2>7. QED
      BY <2>2, <2>3, <2>4, <2>5, <2>6
  <1>8. \A i \in 1 .. n - c : c + i \in 1 .. n
    BY <1>6
  <1>9. TypeOK'
    BY <1>1, <1>3, <1>5, <1>7 DEF TypeOK
  <1>10. HandlerInv'
    <2>1. Old(lastFU)' /\ Old(blsHeight)' /\ Old(bmv.height)'
      BY <1>1, <1>3, <1>5 DEF HandlerInv, Old, Reached, Before, Handling
    <2>2. \A t : (\A i \in DOMAIN rss : rss[i].slot < t) => \A i \in DOMAIN rss' : rss'[i].slot < t
      BY <1>6, <1>7, <1>8
    <2>3. QED
      BY <1>1, <1>3, <1>5, <2>1, <2>2 DEF HandlerInv, Before, Handling
  <1>11. ASSUME NEW i \in DOMAIN rss'
         PROVE  /\ StatusInv(rss'[i]) /\ rss'[i].slot <= lastFU
                /\ \A j \in 1 .. i - 1 : rss'[j].slot < rss'[i].slot
    <2>1. i \in 1 .. n - c /\ c + i \in 1 .. n /\ rss'[i] = rss[c + i]
      BY <1>7, <1>8
    <2>2. StatusInv(rss[c + i]) /\ rss[c + i].slot <= lastFU
          /\ \A j \in 1 .. c + i - 1 : rss[j].slot < rss[c + i].slot
      BY <1>1, <1>6, <2>1 DEF RssInv, StatusesAscend
    <2>3. ASSUME NEW j \in 1 .. i - 1 PROVE rss'[j].slot < rss'[i].slot
      <3>1. j \in 1 .. n - c /\ c + j \in 1 .. c + i - 1
        BY <1>6, <2>1
      <3>2. rss'[j] = rss[c + j]
        BY <1>7, <3>1
      <3>3. QED
        BY <2>1, <2>2, <3>1, <3>2
    <2>4. QED
      BY <2>1, <2>2, <2>3
  <1>12. RssInv'
    <2>1. \A s : StatusInv(s) => /\ s.buds # <<>>
                                 /\ s.buds[Len(s.buds)].upd.f = s.slot
                                 /\ \A i \in DOMAIN s.buds : s.buds[i].upd \in updates' /\ s.buds[i].upd.f <= s.slot
      BY <1>5 DEF StatusInv
    <2>2. QED
      BY <1>3, <1>11, <2>1 DEF RssInv, StatusInv, StatusesAscend
  <1>13. SentInv'
    BY <1>1, <1>3 DEF SentInv
  <1>14. BudsInv'
    BY <1>1, <1>3, <1>4 DEF BudsInv, chainVars, Best, Prefer, OfPeriod, Strong, FinalInPeriod
  <1>15. QED
    BY <1>5, <1>9, <1>10, <1>12, <1>13, <1>14 DEF IInv

LEMMA StartIInv == IInv /\ Start => IInv'
  <1> SUFFICES ASSUME IInv, Start PROVE IInv'
    OBVIOUS
  <1>1. TypeOK /\ UpdatesInv /\ HandlerInv
    BY DEF IInv
  <1>2. /\ pc' = "idle" /\ slot' = FirstSlot /\ upd' = NoUpdate /\ retry' = 0 /\ lastFU' = 0 /\ from' = 0
        /\ buds' = <<>> /\ rss' = <<>> /\ ev' = head /\ blsHeight' = bmv.height /\ sent' = <<>>
        /\ restarts < MaxRestarts /\ restarts' = restarts + 1
        /\ UNCHANGED <<bmv, trouble>>
    BY DEF Start
  <1>3. UNCHANGED chainVars
    BY DEF Start
  <1>4. UpdatesInv' /\ head' = head /\ blocks' = blocks /\ updates' = updates /\ fork' = fork
    BY <1>1, <1>3, ChainFrame
  <1>5. bmv.height \in Slots /\ bmv.height \in Nat /\ head \in Nat
    BY <1>1, Numbers DEF TypeOK
  <1>6. TypeOK'
    <2>1. upd' \in Update /\ slot' \in Slots
      BY <1>2, UpdateAssumption DEF NoUpdate, Update, Slots
    <2>2. buds' \in Seq(Bud) /\ rss' \in Seq(Status) /\ sent' \in Seq(Bud) /\ retry' \in 0 .. MaxRetry
      BY <1>2, EmptySeq, UpdateAssumption
    <2>3. restarts' \in 0 .. MaxRestarts
      BY <1>1, <1>2, UpdateAssumption DEF TypeOK
    <2>4. QED
      BY <1>1, <1>2, <1>4, <1>5, <2>1, <2>2, <2>3 DEF TypeOK
  <1>7. HandlerInv'
    <2>1. \A u \in updates : ~(u.sig > head)
      <3> SUFFICES ASSUME NEW u \in updates PROVE ~(u.sig > head)
        OBVIOUS
      <3>1. u.sig <= head
        BY <1>1, UpdateOrder
      <3>2. u.sig \in Nat
        BY <1>1, Numbers
      <3>3. QED
        BY <1>5, <3>1, <3>2
    <2>2. Reached(bmv.height)
      BY <1>1 DEF HandlerInv, Old
    <2>3. Old(lastFU)' /\ Old(blsHeight)' /\ Old(bmv.height)'
      BY <1>2, <1>4, <2>1, <2>2 DEF Old, Reached, Before, Handling
    <2>4. QED
      BY <1>2, <1>4, <1>5, <2>3 DEF HandlerInv, Handling
  <1>8. RssInv'
    <2>1. DOMAIN rss' = {}
      BY <1>2
    <2>2. QED
      BY <2>1 DEF RssInv, StatusesAscend
  <1>9. SentInv' /\ BudsInv'
    BY <1>2, <1>5 DEF SentInv, BudsInv
  <1>10. QED
    BY <1>4, <1>6, <1>7, <1>8, <1>9 DEF IInv

LEMMA NextIInv == IInv /\ [Next]_vars => IInv'
  <1> SUFFICES ASSUME IInv, [Next]_vars PROVE IInv'
    OBVIOUS
  <1>1. CASE Tick
    BY <1>1, TickIInv
  <1>2. CASE Event
    <2>1. PICK u \in updates : UnknownEvent(u) \/ TakeEvent(u)
      BY <1>2 DEF Event
    <2>2. CASE UnknownEvent(u)
      BY <2>2, StopIInv DEF UnknownEvent
    <2>3. CASE TakeEvent(u)
      BY <2>3, TakeIInv
    <2>4. QED
      BY <2>1, <2>2, <2>3
  <1>3. CASE Handle
    <2>1. CASE ReadAgain
      BY <2>1, ReadAgainIInv
    <2>2. CASE GiveUp
      BY <2>2, StopIInv DEF GiveUp
    <2>3. CASE ReadFails
      <3>1. trouble' = trouble \/ Trouble
        BY <2>3 DEF ReadFails
      <3>2. Panic /\ UNCHANGED <<chainVars, linkVars, restarts>>
        BY <2>3 DEF ReadFails
      <3>3. QED
        BY <3>1, <3>2, StopIInv
    <2>4. CASE ReadUpdate
      BY <2>4, ReadUpdateIInv
    <2>5. CASE FetchPeriods
      BY <2>5, FetchIInv
    <2>6. CASE BuildFails
      <3>1. trouble' = trouble \/ Trouble
        BY <2>6 DEF BuildFails
      <3>2. Return /\ UNCHANGED <<chainVars, linkVars, restarts>>
        BY <2>6 DEF BuildFails
      <3>3. QED
        BY <3>1, <3>2, StopIInv
    <2>7. CASE NoCommittee
      <3>1. trouble' = trouble \/ Trouble
        BY <2>7 DEF NoCommittee
      <3>2. Panic /\ UNCHANGED <<chainVars, linkVars, restarts>>
        BY <2>7 DEF NoCommittee
      <3>3. QED
        BY <3>1, <3>2, StopIInv
    <2>8. CASE Announce
      BY <2>8, AnnounceIInv
    <2>9. QED
      BY <1>3, <2>1, <2>2, <2>3, <2>4, <2>5, <2>6, <2>7, <2>8 DEF Handle
  <1>4. CASE Link
    BY <1>4, RelayIInv, AcceptIInv, RefuseIInv, ClearIInv DEF Link
  <1>5. CASE Start
    BY <1>5, StartIInv
  <1>6. CASE UNCHANGED vars
    <2>1. UNCHANGED <<chainVars, pc, ev, slot, upd, retry, lastFU, from, buds, rss, blsHeight, sent, bmv, trouble, restarts>>
      BY <1>6 DEF vars, handlerVars, linkVars
    <2>2. UpdatesInv' /\ head' = head /\ blocks' = blocks /\ updates' = updates /\ fork' = fork
      BY <2>1, ChainFrame DEF IInv
    <2>3. TypeOK'
      BY <2>1, <2>2 DEF IInv, TypeOK
    <2>4. HandlerInv'
      BY <2>1, <2>2 DEF IInv, HandlerInv, Old, Reached, Before, Handling
    <2>5. RssInv'
      BY <2>1, <2>2 DEF IInv, RssInv, StatusInv, StatusesAscend
    <2>6. SentInv'
      BY <2>1 DEF IInv, SentInv
    <2>7. BudsInv'
      BY <2>1 DEF IInv, BudsInv, chainVars, Best, Prefer, OfPeriod, Strong, FinalInPeriod
    <2>8. QED
      BY <2>2, <2>3, <2>4, <2>5, <2>6, <2>7 DEF IInv
  <1>7. QED
    BY <1>1, <1>2, <1>3, <1>4, <1>5, <1>6 DEF Next

LEMMA IInvAlways == Spec => []IInv
  <1>1. QED
    BY InitIInv, NextIInv, PTL DEF Spec

------------------------------------------------------------------------------
(* The properties *)

\* Every slot stays on the horizon and every block update and status is well
\* formed, for any horizon, epoch and number of failures.
THEOREM BlockUpdatesTyped == Spec => []TypeOK
  <1>1. IInv => TypeOK
    BY DEF IInv
  <1>2. QED
    BY <1>1, IInvAlways, PTL

\* The statuses announced are of ever later checkpoints, retries included
\* (lastFinalityUpdate and the retry loop of Monitoring).
THEOREM StatusesInOrder == Spec => []StatusesAscend
  <1>1. IInv => StatusesAscend
    BY DEF IInv, RssInv
  <1>2. QED
    BY <1>1, IInvAlways, PTL

\* The relay is right about the height of a verifier that accepts: it takes the
\* height of the last block update, and no earlier one of it is higher.
THEOREM HeightIsPredicted == Spec => PredictionRight
  <1>1. IInv /\ [Next]_vars => [Accept => bmv'.height = blsHeight]_vars
    <2>1. ASSUME IInv, Accept PROVE bmv'.height = blsHeight
      BY <2>1, AcceptHeight
    <2>2. QED
      BY <2>1
  <1>2. QED
    BY <1>1, IInvAlways, PTL DEF Spec, PredictionRight

\* After k block updates of a period each, the verifier is in the period of the
\* last of them and knows the committee of the next.
LEMMA CourseOfPeriods ==
    ASSUME IInv, pc = "edge", Served(from .. Period(upd.f) - 1), Period(bmv.height) = from,
           NEW bus \in Seq(Bud), Len(buds) < Len(bus), \A i \in 1 .. Len(buds) : bus[i] = buds[i]
    PROVE  /\ \A k \in 1 .. Len(buds) :
                 /\ Accepts(Course(bmv, bus)[k - 1], bus[k])
                 /\ Period(Course(bmv, bus)[k].height) = from + k - 1
                 /\ Course(bmv, bus)[k].next
           /\ Course(bmv, bus)[0] = bmv
  <1> DEFINE n == Len(buds)
             C == Course(bmv, bus)
  <1>1. TypeOK /\ UpdatesInv /\ BudsInv
    BY DEF IInv
  <1>2. n \in Nat /\ DOMAIN buds = 1 .. n /\ from \in Nat /\ bmv \in BmvState /\ Len(bus) \in Nat
    BY <1>1, LenProperties DEF TypeOK, BmvState
  <1>3. /\ C \in [0 .. Len(bus) -> BmvState] /\ C[0] = bmv
        /\ \A i \in 1 .. Len(bus) : C[i] = Advance(C[i - 1], bus[i])
    BY <1>2, CourseIs
  <1> HIDE DEF C
  <1>4. ASSUME NEW k \in 1 .. n
        PROVE  \E u \in updates :
                  /\ bus[k] = LightClientBud(u) /\ u.strong /\ u.a # 0
                  /\ Period(u.sig) = from + k - 1 /\ Period(u.a) = from + k - 1 /\ Period(u.f) = from + k - 1
    <2>1. PICK u \in Best(from + k - 1) : buds[k] = LightClientBud(u)
      BY <1>1, <1>2 DEF BudsInv
    <2>2. u \in updates /\ Period(u.sig) = from + k - 1 /\ Period(u.a) = from + k - 1
      BY <2>1, BestAre
    <2>3. from + k - 1 \in from .. Period(upd.f) - 1
      <3>1. n <= Period(upd.f) - from /\ Period(upd.f) \in Nat
        <4>1. upd.f \in Nat
          BY <1>1, Numbers
        <4>2. Period(upd.f) \in Nat
          BY <4>1, PeriodType
        <4>3. QED
          BY <1>1, <4>2 DEF BudsInv
      <3> HIDE DEF n
      <3>2. QED
        BY <1>2, <3>1
    <2>4. u \in Strong /\ u \in FinalInPeriod
      BY <2>1, <2>3 DEF Served
    <2>5. u.strong /\ Period(u.f) = from + k - 1
      BY <2>2, <2>4 DEF Strong, FinalInPeriod
    <2>6. u.a # 0
      <3>1. u.f < u.a /\ u.f \in Nat /\ u.a \in Nat
        BY <1>1, <2>2, UpdateOrder, Numbers
      <3>2. QED
        BY <3>1
    <2>7. QED
      BY <2>1, <2>2, <2>5, <2>6
  <1> HIDE DEF n
  <1> DEFINE Here(k) == Period(C[k].height) = from + k - 1 /\ C[k].next
             At(k) == IF k = 0 THEN Period(C[0].height) = from ELSE Here(k)
             Good(k) == Accepts(C[k - 1], bus[k])
  <1>5. ASSUME NEW k \in 1 .. n, At(k - 1) PROVE Here(k) /\ Good(k)
    <2>1. PICK u \in updates :
                  /\ bus[k] = LightClientBud(u) /\ u.strong /\ u.a # 0
                  /\ Period(u.sig) = from + k - 1 /\ Period(u.a) = from + k - 1 /\ Period(u.f) = from + k - 1
      BY <1>4
    <2> DEFINE v == C[k - 1]
               b == bus[k]
    <2>2. k \in 1 .. Len(bus) /\ k - 1 \in 0 .. Len(bus) /\ k \in Nat /\ k - 1 \in Nat
      BY <1>2 DEF n
    <2>3. v \in BmvState /\ C[k] = Advance(v, b)
      BY <1>3, <2>2
    <2>4. b.upd = u /\ b.nsc = u.a /\ b \in Bud
      <3>1. b.upd = u /\ b.nsc = u.a
        BY <2>1 DEF LightClientBud, FinalityBud
      <3>2. b \in Bud
        BY <2>2, ElementOfSeq
      <3>3. QED
        BY <3>1, <3>2
    <2>5. Period(v.height) = from + k - 1 \/ (Period(v.height) = from + k - 2 /\ v.next)
      <3>1. CASE k = 1
        BY <1>2, <1>5, <3>1
      <3>2. CASE k # 1
        <4>1. k - 1 # 0 /\ from + (k - 1) - 1 = from + k - 2
          BY <1>2, <2>2, <3>2
        <4>2. QED
          BY <1>5, <4>1
      <3>3. QED
        BY <3>1, <3>2
    <2> HIDE DEF v, b
    <2>6. /\ Advance(v, b).height = IF u.f <= v.height THEN v.height ELSE u.f
          /\ Advance(v, b).next = \/ Period(Advance(v, b).height) = Period(v.height) /\ v.next
                                  \/ u.a # 0 /\ Period(u.a) = Period(Advance(v, b).height)
      BY <2>3, <2>4, AdvanceIs
    <2>7. Period(Advance(v, b).height) = from + k - 1
      <3>1. v.height \in Nat /\ u.f \in Nat
        BY <1>1, <2>3, Numbers DEF BmvState
      <3>2. /\ Period(v.height) \in Nat /\ Period(u.f) \in Nat
            /\ u.f <= v.height => Period(u.f) <= Period(v.height)
        <4>1. Period(v.height) \in Nat /\ Period(u.f) \in Nat
          BY <3>1, PeriodType
        <4>2. u.f <= v.height => Period(u.f) <= Period(v.height)
          BY <3>1, PeriodAscends
        <4>3. QED
          BY <4>1, <4>2
      <3>3. CASE u.f <= v.height
        <4>1. Period(v.height) = from + k - 1
          BY <1>2, <2>1, <2>2, <2>5, <3>2, <3>3
        <4>2. QED
          BY <2>6, <3>3, <4>1
      <3>4. CASE ~(u.f <= v.height)
        BY <2>1, <2>6, <3>4
      <3>5. QED
        BY <3>3, <3>4
    <2>8. Advance(v, b).next
      BY <2>1, <2>6, <2>7
    <2>9. Accepts(v, b)
      <3>1. Period(u.sig) = Period(v.height) \/ (v.next /\ Period(u.sig) = Period(v.height) + 1)
        <4>1. from + k - 1 = from + k - 2 + 1
          BY <1>2, <2>2
        <4>2. QED
          BY <2>1, <2>5, <4>1
      <3>2. QED
        BY <2>1, <2>4, <3>1 DEF Accepts
    <2>10. QED
      BY <2>3, <2>7, <2>8, <2>9 DEF v, b
  <1> DEFINE T == {m \in Nat : m <= n => At(m)}
  <1>6. 0 \in T
    BY <1>3
  <1>7. ASSUME NEW m \in Nat, m \in T PROVE m + 1 \in T
    <2> SUFFICES ASSUME m + 1 <= n PROVE At(m + 1)
      OBVIOUS
    <2>1. m + 1 \in 1 .. n /\ m <= n /\ (m + 1) - 1 = m /\ m + 1 # 0
      BY <1>2
    <2> HIDE DEF Good
    <2>2. At((m + 1) - 1)
      BY <1>7, <2>1
    <2> HIDE DEF At
    <2>3. Here(m + 1)
      BY <1>5, <2>1, <2>2
    <2>4. QED
      BY <2>1, <2>3 DEF At
  <1> HIDE DEF T, Here, Good
  <1>8. Nat \subseteq T
    BY <1>6, <1>7, Induction
  <1>9. ASSUME NEW k \in 1 .. n PROVE Here(k) /\ Good(k)
    <2>1. k - 1 \in Nat /\ k - 1 <= n
      BY <1>2
    <2> HIDE DEF At
    <2>2. At(k - 1)
      BY <1>8, <2>1 DEF T
    <2>3. QED
      BY <1>5, <2>2
  <1>10. QED
    BY <1>3, <1>9 DEF n, C, Here, Good

\* A verifier as far as the relay takes it to be accepts what the status brings,
\* with the exceptions StatusLeadsOn names.
LEMMA LeadsOn ==
    ASSUME IInv, Announce, rss = <<>>, Period(bmv.height) = from,
           Served(from .. Period(upd.f) - 1)
    PROVE  \/ Follows(bmv, rss'[1].buds)
           \/ rss'[1].buds[Len(buds) + 1].nsc \notin {0, upd.a}
           \/ /\ Period(upd.sig) > Period(upd.f)
              /\ ~(/\ bmv.next /\ Period(bmv.height) = Period(upd.f)
                   /\ Period(upd.sig) = Period(upd.f) + 1)
  <1> DEFINE n == Len(buds)
  <1>1. TypeOK /\ UpdatesInv /\ HandlerInv /\ BudsInv /\ pc = "edge"
    BY DEF IInv, Announce
  <1>2. PICK bud \in LastBud :
              /\ bud \in Bud /\ bud.upd = upd
              /\ Append(buds, bud) \in Seq(Bud)
              /\ [slot |-> upd.f, buds |-> Append(buds, bud)] \in Status
              /\ rss' = Append(rss, [slot |-> upd.f, buds |-> Append(buds, bud)])
    BY AnnounceIs
  <1> DEFINE c == Append(buds, bud)
  <1>3. rss'[1].buds = c
    <2> DEFINE st == [slot |-> upd.f, buds |-> c]
    <2>1. st \in Status /\ rss' = Append(rss, st)
      BY <1>2
    <2>2. st.buds = c
      OBVIOUS
    <2> HIDE DEF st
    <2>3. rss \in Seq(Status) /\ Len(rss) = 0
      BY EmptySeq
    <2>4. rss'[1] = st
      BY <2>1, <2>3, AppendProperties
    <2>5. QED
      BY <2>2, <2>4
  <1>4. buds \in Seq(Bud) /\ n \in Nat /\ bmv \in BmvState
    BY <1>1, LenProperties DEF TypeOK, BmvState
  <1>5. /\ c \in Seq(Bud) /\ Len(c) = n + 1 /\ DOMAIN c = 1 .. n + 1
        /\ \A i \in 1 .. n : c[i] = buds[i]
        /\ c[n + 1] = bud
    BY <1>2, <1>4, AppendProperties, LenProperties
  <1> HIDE DEF c
  <1> DEFINE C == Course(bmv, c)
  <1>6. /\ \A k \in 1 .. n : /\ Accepts(C[k - 1], c[k])
                             /\ Period(C[k].height) = from + k - 1
                             /\ C[k].next
        /\ C[0] = bmv
    <2>1. n < Len(c)
      BY <1>4, <1>5
    <2>2. QED
      BY <1>1, <1>5, <2>1, CourseOfPeriods
  <1> HIDE DEF C
  <1> SUFFICES ASSUME bud.nsc \in {0, upd.a},
                      Period(upd.sig) > Period(upd.f) =>
                          /\ bmv.next /\ Period(bmv.height) = Period(upd.f)
                          /\ Period(upd.sig) = Period(upd.f) + 1
               PROVE  Follows(bmv, c)
    BY <1>3, <1>5
  <1>7. upd \in updates /\ upd.strong
    BY <1>1 DEF HandlerInv, Handling
  <1>8. /\ Period(upd.f) \in Nat /\ Period(upd.sig) \in Nat /\ Period(upd.f) <= Period(upd.sig)
        /\ from \in Nat /\ n = Period(upd.f) - from
    <2>1. /\ Period(upd.f) \in Nat /\ Period(upd.a) \in Nat /\ Period(upd.sig) \in Nat
          /\ Period(upd.f) <= Period(upd.a) /\ Period(upd.a) <= Period(upd.sig)
      BY <1>1, <1>7, UpdateOrder
    <2>2. /\ from \in Nat /\ n <= Period(upd.f) - from
          /\ n < Period(upd.f) - from => Best(from + n) = {}
      BY <1>1 DEF BudsInv, TypeOK
    <2>3. ~(n < Period(upd.f) - from)
      <3> SUFFICES ASSUME n < Period(upd.f) - from PROVE FALSE
        OBVIOUS
      <3>1. from + n \in from .. Period(upd.f) - 1
        BY <1>4, <2>1, <2>2
      <3>2. Best(from + n) # {}
        BY <3>1 DEF Served
      <3>3. QED
        BY <2>2, <3>2
    <2>4. QED
      BY <1>4, <2>1, <2>2, <2>3
  <1> HIDE DEF n
  <1>9. Period(upd.sig) = Period(C[n].height) \/ (C[n].next /\ Period(upd.sig) = Period(C[n].height) + 1)
    <2>1. CASE n = 0
      <3>1. Period(C[n].height) = from /\ C[n].next = bmv.next /\ from = Period(upd.f)
        BY <1>6, <1>8, <2>1
      <3>2. QED
        BY <1>8, <3>1
    <2>2. CASE n # 0
      <3>1. n \in 1 .. n
        BY <1>4, <2>2
      <3>2. Period(C[n].height) = from + n - 1 /\ C[n].next
        BY <1>6, <3>1
      <3>3. from # Period(upd.f) /\ from + n - 1 = Period(upd.f) - 1
        BY <1>4, <1>8, <2>2
      <3>4. Period(upd.sig) = Period(upd.f)
        BY <1>8, <3>3
      <3>5. Period(upd.sig) = Period(C[n].height) + 1
        BY <1>8, <3>2, <3>3, <3>4
      <3>6. QED
        BY <3>2, <3>5
    <2>3. QED
      BY <2>1, <2>2
  <1>10. Accepts(C[n], bud)
    BY <1>2, <1>7, <1>9 DEF Accepts
  <1>11. ASSUME NEW i \in 1 .. n + 1 PROVE Accepts(C[i - 1], c[i])
    <2>1. CASE i \in 1 .. n
      BY <1>6, <2>1
    <2>2. CASE i \notin 1 .. n
      <3>1. i = n + 1 /\ i - 1 = n
        BY <1>4, <2>2
      <3>2. QED
        BY <1>5, <1>10, <3>1
    <2>3. QED
      BY <2>1, <2>2
  <1>12. QED
    BY <1>5, <1>11 DEF Follows, C

\* A status made for the verifier as it is leads it on, over any number of
\* periods it is behind (makeBlockUpdateDatas).
THEOREM StatusLeadsVerifier == Spec => StatusLeadsOn
  <1>1. IInv /\ [Next]_vars =>
         [Announce /\ rss = <<>> /\ sent = <<>>
             /\ blsHeight = bmv.height /\ Period(blsHeight) = from
             /\ Served(from .. Period(upd.f) - 1) =>
             \/ Follows(bmv, rss'[1].buds)
             \/ rss'[1].buds[Len(buds) + 1].nsc \notin {0, upd.a}
             \/ /\ Period(upd.sig) > Period(upd.f)
                /\ ~(/\ bmv.next /\ Period(bmv.height) = Period(upd.f)
                     /\ Period(upd.sig) = Period(upd.f) + 1)]_vars
    <2>1. QED
      BY LeadsOn
  <1>2. QED
    BY <1>1, IInvAlways, PTL DEF Spec, StatusLeadsOn
=============================================================================
