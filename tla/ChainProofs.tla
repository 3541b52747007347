----------------------------- MODULE ChainProofs -----------------------------
(* Lemmas about the chain, and about the proofs that searches find on it. *)
EXTENDS ChainSearch, SequenceTheorems, FiniteSetTheorems, TLAPS

------------------------------------------------------------------------------
(* The chain *)

LEMMA SlotsAreNat == Slots \subseteq Nat /\ 0 \notin Slots /\ FirstSlot \in Slots
  BY ChainAssumption DEF Slots

\* What is read from the chain at a slot up to the newest is typed.
LEMMA SlotType ==
    ASSUME ChainTypeOK, NEW s \in FirstSlot .. head
    PROVE  /\ s \in Slots
           /\ chain[s].ver \in Versions /\ chain[s].bn \in Nat /\ chain[s].tx \in Seqs
           /\ FirstMsg(s) \in Nat \ {0} /\ LastMsg(s) \in Seqs
           /\ HeaderAt(s) \in Header
  <1>1. s \in Slots
    BY ChainAssumption DEF ChainTypeOK, Slots
  <1>2. \A t \in Slots : chain[t] \in Slot
    BY DEF ChainTypeOK
  <1>3. chain[s].ver \in Versions /\ chain[s].bn \in Nat /\ chain[s].tx \in Seqs
    BY <1>1, <1>2 DEF Slot, Seqs
  <1>4. ASSUME s # FirstSlot PROVE s - 1 \in Slots /\ chain[s - 1].tx \in Seqs
    <2>1. s - 1 \in Slots
      BY <1>1, <1>4, ChainAssumption DEF Slots
    <2>2. QED
      BY <1>2, <2>1 DEF Slot, Seqs
  <1>5. FirstMsg(s) \in Nat \ {0}
    BY <1>4, ChainAssumption DEF FirstMsg, Seqs
  <1>6. QED
    BY <1>1, <1>3, <1>5 DEF LastMsg, HeaderAt, Header

LEMMA BlockNumType ==
    ASSUME ChainTypeOK, NEW s \in Nat, FirstSlot <= s
    PROVE  BlockNum(s) \in Nat
  <1> DEFINE b == IF s > head THEN head ELSE s
  <1>1. b \in FirstSlot .. head
    BY ChainAssumption DEF ChainTypeOK, Slots
  <1>2. QED
    BY <1>1, SlotType DEF BlockNum

LEMMA HeadersInType ==
    ASSUME ChainTypeOK, NEW S, S \subseteq FirstSlot .. head
    PROVE  HeadersIn(S) \subseteq Header
  BY SlotType DEF HeadersIn

\* Block numbers of a fork count its blocks.
LEMMA CountIs ==
    ASSUME NEW from \in Nat, NEW h \in Nat, NEW blocks \in SUBSET (from .. h)
    PROVE  /\ \A s \in from - 1 .. h : Cardinality(blocks \cap (from .. s)) \in Nat
           /\ \A s, t \in from - 1 .. h : s <= t =>
                 /\ Cardinality(blocks \cap (from .. s)) <= Cardinality(blocks \cap (from .. t))
                 /\ Cardinality(blocks \cap (from .. s)) = Cardinality(blocks \cap (from .. t))
                       => blocks \cap (s + 1 .. t) = {}
           /\ Cardinality(blocks \cap (from .. from - 1)) = 0
  <1> DEFINE B(s) == blocks \cap (from .. s)
  <1>1. \A s \in from - 1 .. h : B(s) \in SUBSET (from .. s) /\ s \in Int
    OBVIOUS
  <1>2. ASSUME NEW s \in from - 1 .. h PROVE IsFiniteSet(B(s)) /\ Cardinality(B(s)) \in Nat
    <2>1. IsFiniteSet(from .. s)
      BY <1>1, FS_Interval
    <2>2. IsFiniteSet(B(s))
      BY <1>1, <2>1, FS_Subset
    <2>3. QED
      BY <2>2, FS_CardinalityType
  <1>3. ASSUME NEW s \in from - 1 .. h, NEW t \in from - 1 .. h, s <= t
        PROVE  /\ Cardinality(B(s)) <= Cardinality(B(t))
               /\ Cardinality(B(s)) = Cardinality(B(t)) => blocks \cap (s + 1 .. t) = {}
    <2>1. B(s) \in SUBSET B(t)
      BY <1>3
    <2>2. blocks \cap (s + 1 .. t) = B(t) \ B(s)
      BY <1>3
    <2> HIDE DEF B
    <2>3. /\ Cardinality(B(s)) <= Cardinality(B(t))
          /\ Cardinality(B(t)) = Cardinality(B(s)) => B(t) = B(s)
      BY <1>2, <2>1, FS_Subset
    <2>4. QED
      BY <2>2, <2>3
  <1>4. Cardinality(B(from - 1)) = 0
    <2>1. B(from - 1) = {}
      OBVIOUS
    <2> HIDE DEF B
    <2>2. QED
      BY <2>1, FS_EmptySet
  <1>5. QED
    BY <1>2, <1>3, <1>4

\* The slots of a fork: its blocks, its messages and the block numbers.
ForkSlot(from, blocks, tx, s) ==
    [ver |-> IF s \in blocks THEN NewVersion + 1 ELSE 0,
     bn |-> chain[from - 1].bn + Cardinality(blocks \cap (from .. s)),
     tx |-> tx[s]]

LEMMA ReorgIs ==
    ASSUME ChainTypeOK, NEW from \in Slots, Reorg(from)
    PROVE  /\ reorgs < MaxReorgs /\ reorgs' = reorgs + 1 /\ fin < from /\ from <= head
           /\ from - 1 \in FirstSlot .. head /\ from \in Nat /\ head \in Nat
           /\ orphans' = orphans \cup HeadersIn(from .. head)
           /\ UNCHANGED <<head, fin, missed>>
           /\ \E blocks \in SUBSET (from .. head), tx \in [from - 1 .. head -> Seqs] :
                 /\ tx[from - 1] = chain[from - 1].tx
                 /\ \A s, t \in from - 1 .. head : s <= t =>
                       /\ tx[s] <= tx[t]
                       /\ blocks \cap (s + 1 .. t) = {} => tx[s] = tx[t]
                 /\ chain' = [s \in Slots |-> IF s < from \/ s > head THEN chain[s]
                                              ELSE ForkSlot(from, blocks, tx, s)]
  <1>1. /\ reorgs < MaxReorgs /\ reorgs' = reorgs + 1 /\ fin < from /\ from <= head
        /\ orphans' = orphans \cup HeadersIn(from .. head)
        /\ UNCHANGED <<head, fin, missed>>
    BY DEF Reorg
  <1>2. from - 1 \in FirstSlot .. head /\ from \in Nat /\ head \in Nat
    BY <1>1, ChainAssumption DEF Slots, ChainTypeOK
  <1> DEFINE F == [from - 1 .. head -> Seqs]
  <1>3. \E blocks \in SUBSET (from .. head), tx \in F :
           /\ tx[from - 1] = chain[from - 1].tx
           /\ \A s, t \in from - 1 .. head : s <= t =>
                 /\ tx[s] <= tx[t]
                 /\ blocks \cap (s + 1 .. t) = {} => tx[s] = tx[t]
           /\ chain' = [s \in Slots |-> IF s < from \/ s > head THEN chain[s]
                                        ELSE ForkSlot(from, blocks, tx, s)]
    BY Zenon DEF Reorg, ForkSlot
  <1>4. QED
    BY <1>1, <1>2, <1>3, Zenon

LEMMA ForkSlotType ==
    ASSUME ChainTypeOK, NEW from \in Nat, from - 1 \in FirstSlot .. head, from <= head,
           reorgs < MaxReorgs,
           NEW blocks \in SUBSET (from .. head), NEW tx \in [from - 1 .. head -> Seqs],
           NEW s \in from .. head
    PROVE  ForkSlot(from, blocks, tx, s) \in Slot
  <1>1. head \in Nat /\ chain[from - 1].bn \in Nat
    BY SlotType, ChainAssumption DEF ChainTypeOK, Slots
  <1>2. s \in from - 1 .. head
    BY <1>1
  <1>3. Cardinality(blocks \cap (from .. s)) \in Nat
    BY <1>1, <1>2, CountIs
  <1>4. (IF s \in blocks THEN NewVersion + 1 ELSE 0) \in Versions
    BY ChainAssumption DEF Versions, NewVersion, ChainTypeOK
  <1>5. tx[s] \in Seqs
    BY <1>2
  <1>6. QED
    BY <1>1, <1>3, <1>4, <1>5 DEF ForkSlot, Slot

LEMMA ChainInitType == ChainInit => ChainTypeOK
  BY ChainAssumption DEF ChainInit, ChainTypeOK, Slots, Slot, Seqs, NoSlot, Versions

\* A step of the chain keeps its types, and the finalized slot only rises.
LEMMA ChainNextType == ChainTypeOK /\ ChainNext => ChainTypeOK' /\ fin <= fin'
  <1> SUFFICES ASSUME ChainTypeOK, ChainNext PROVE ChainTypeOK' /\ fin <= fin'
    OBVIOUS
  <1>0. /\ head \in Slots /\ fin \in Slots /\ \A s \in Slots : s \in Nat
        /\ chain[head].tx \in Seqs /\ chain[head].bn \in Nat
    <2>1. head \in FirstSlot .. head
      BY ChainAssumption DEF ChainTypeOK, Slots
    <2>2. QED
      BY <2>1, SlotType, SlotsAreNat DEF ChainTypeOK
  <1>1. ASSUME NEW msgs \in 0 .. MaxTxSeq, NewBlock(msgs) PROVE ChainTypeOK' /\ fin <= fin'
    <2> DEFINE x == [ver |-> NewVersion, bn |-> chain[head].bn + 1, tx |-> TxSeq + msgs]
    <2>1. /\ head < MaxSlot /\ TxSeq + msgs <= MaxTxSeq /\ head' = head + 1
          /\ chain' = [chain EXCEPT ![head + 1] = x]
          /\ UNCHANGED <<fin, missed, reorgs, orphans>>
      BY <1>1 DEF NewBlock
    <2>2. x \in Slot
      BY <1>0, <2>1, ChainAssumption DEF Slot, Versions, NewVersion, TxSeq, Seqs, ChainTypeOK
    <2>3. head + 1 \in Slots
      BY <1>0, <2>1, ChainAssumption DEF Slots
    <2>4. QED
      BY <1>0, <2>1, <2>2, <2>3 DEF ChainTypeOK
  <1>2. ASSUME MissSlot PROVE ChainTypeOK' /\ fin <= fin'
    <2> DEFINE x == [chain[head] EXCEPT !.ver = 0]
    <2>1. /\ head < MaxSlot /\ missed < MaxMissed /\ missed' = missed + 1 /\ head' = head + 1
          /\ chain' = [chain EXCEPT ![head + 1] = x]
          /\ UNCHANGED <<fin, reorgs, orphans>>
      BY <1>2 DEF MissSlot
    <2>2. x \in Slot
      BY <1>0, ChainAssumption DEF Slot, Versions, ChainTypeOK
    <2>3. head + 1 \in Slots
      BY <1>0, <2>1, ChainAssumption DEF Slots
    <2>4. missed' \in 0 .. MaxMissed
      BY <2>1, ChainAssumption DEF ChainTypeOK
    <2>5. QED
      BY <1>0, <2>1, <2>2, <2>3, <2>4 DEF ChainTypeOK
  <1>3. ASSUME NEW from \in Slots, Reorg(from)
        PROVE  ChainTypeOK' /\ fin <= fin'
    <2>1. /\ reorgs < MaxReorgs /\ reorgs' = reorgs + 1 /\ fin < from /\ from <= head
          /\ from - 1 \in FirstSlot .. head /\ from \in Nat /\ head \in Nat
          /\ orphans' = orphans \cup HeadersIn(from .. head)
          /\ UNCHANGED <<head, fin, missed>>
      BY <1>3, ReorgIs
    <2> DEFINE F == [from - 1 .. head -> Seqs]
    <2> HIDE DEF F
    <2>2. PICK blocks \in SUBSET (from .. head), tx \in F :
             chain' = [s \in Slots |-> IF s < from \/ s > head THEN chain[s]
                                       ELSE ForkSlot(from, blocks, tx, s)]
      BY <1>3, ReorgIs, Zenon DEF F
    <2>3. \A s \in from .. head : ForkSlot(from, blocks, tx, s) \in Slot
      BY <2>1, <2>2, ForkSlotType DEF F
    <2>4. chain' \in [Slots -> Slot]
      <3>1. \A s \in Slots : s < from \/ s > head \/ s \in from .. head
        <4>1. \A s, f, h \in Nat : s < f \/ s > h \/ s \in f .. h
          OBVIOUS
        <4>2. QED
          BY <1>0, <2>1, <4>1, Zenon
      <3>2. QED
        BY <2>2, <2>3, <3>1 DEF ChainTypeOK
    <2>5. reorgs' \in 0 .. MaxReorgs
      BY <2>1, ChainAssumption DEF ChainTypeOK
    <2>6. orphans' \subseteq Header
      <3>1. from .. head \subseteq FirstSlot .. head
        BY <1>0, ChainAssumption DEF Slots
      <3>2. QED
        BY <2>1, <3>1, HeadersInType DEF ChainTypeOK
    <2>7. QED
      BY <1>0, <2>1, <2>4, <2>5, <2>6 DEF ChainTypeOK
  <1>4. ASSUME Finalize PROVE ChainTypeOK' /\ fin <= fin'
    <2>1. PICK f \in CheckpointBlocks :
             f > fin /\ fin' = f /\ UNCHANGED <<chain, head, missed, reorgs, orphans>>
      BY <1>4 DEF Finalize
    <2>2. f \in FirstSlot .. head
      BY DEF CheckpointBlocks
    <2>3. QED
      BY <1>0, <2>1, <2>2, SlotType DEF ChainTypeOK
  <1>5. QED
    BY <1>1, <1>2, <1>3, <1>4 DEF ChainNext


------------------------------------------------------------------------------
(* The order of the chain *)

\* Messages and block numbers only grow with the slots, a block has a number of
\* its own, and a slot without one sends nothing.
Ordered(c, h) ==
    \A s, t \in FirstSlot .. h : s <= t =>
        /\ c[s].tx <= c[t].tx
        /\ c[s].bn <= c[t].bn
        /\ c[s].bn = c[t].bn => c[s].tx = c[t].tx
        /\ s < t /\ c[t].ver # 0 => c[s].bn < c[t].bn

ChainOrder ==
    /\ fin <= head
    /\ chain[FirstSlot].tx = 0
    /\ Ordered(chain, head)
    /\ reorgs = 0 => orphans = {}

LEMMA ChainInitOrder == ChainInit => ChainOrder
  BY SlotsAreNat DEF ChainInit, ChainOrder, Ordered, Slots

\* One slot more keeps the order.
LEMMA OrderedGrows ==
    ASSUME ChainTypeOK, Ordered(chain, head), head + 1 \in Slots,
           NEW x \in Slot, chain' = [chain EXCEPT ![head + 1] = x],
           LET b == chain[head] IN \/ x.ver = 0 /\ x.tx = b.tx /\ x.bn = b.bn
                                   \/ x.tx >= b.tx /\ x.bn > b.bn
    PROVE  /\ Ordered(chain', head + 1)
           /\ \A s \in FirstSlot .. head : chain'[s] = chain[s]
  <1> DEFINE d == chain'
  <1>1. head \in FirstSlot .. head /\ head \in Nat /\ FirstSlot \in Nat
    BY ChainAssumption DEF ChainTypeOK, Slots
  <1>2. \A s \in FirstSlot .. head : d[s] = chain[s]
    BY <1>1, SlotType DEF ChainTypeOK
  <1>3. d[head + 1] = x
    BY DEF ChainTypeOK
  <1>4. \A s \in FirstSlot .. head : chain[s].tx \in Nat /\ chain[s].bn \in Nat
    BY SlotType DEF Seqs
  <1>5. x.tx \in Nat /\ x.bn \in Nat
    BY DEF Slot, Seqs
  <1>6. ASSUME NEW s \in FirstSlot .. head
        PROVE  /\ d[s].tx <= x.tx /\ d[s].bn <= x.bn
               /\ d[s].bn = x.bn => d[s].tx = x.tx
               /\ x.ver # 0 => d[s].bn < x.bn
    <2>1. /\ chain[s].tx <= chain[head].tx /\ chain[s].bn <= chain[head].bn
          /\ chain[s].bn = chain[head].bn => chain[s].tx = chain[head].tx
      BY <1>1 DEF Ordered
    <2>2. QED
      BY <1>1, <1>2, <1>4, <1>5, <2>1
  <1> HIDE DEF d
  <1>7. ASSUME NEW s \in FirstSlot .. head + 1, NEW t \in FirstSlot .. head + 1, s <= t
        PROVE  /\ d[s].tx <= d[t].tx /\ d[s].bn <= d[t].bn
               /\ d[s].bn = d[t].bn => d[s].tx = d[t].tx
               /\ s < t /\ d[t].ver # 0 => d[s].bn < d[t].bn
    <2>1. CASE t <= head
      BY <1>1, <1>2, <1>7, <2>1 DEF Ordered
    <2>2. CASE t = head + 1 /\ s <= head
      BY <1>1, <1>3, <1>6, <2>2
    <2>3. CASE t = head + 1 /\ s = t
      BY <1>1, <1>3, <1>5, <2>3
    <2>4. QED
      BY <1>1, <1>7, <2>1, <2>2, <2>3
  <1>8. QED
    BY <1>2, <1>7 DEF Ordered, d

\* A fork replaces the slots after the base by slots of its own, which keeps the
\* order.
LEMMA OrderedForks ==
    ASSUME ChainTypeOK, Ordered(chain, head),
           NEW from \in Slots, from <= head, from - 1 \in FirstSlot .. head,
           NEW blocks \in SUBSET (from .. head), NEW tx \in [from - 1 .. head -> Seqs],
           tx[from - 1] = chain[from - 1].tx,
           \A s, t \in from - 1 .. head : s <= t =>
                 /\ tx[s] <= tx[t]
                 /\ blocks \cap (s + 1 .. t) = {} => tx[s] = tx[t],
           chain' = [s \in Slots |-> IF s < from \/ s > head THEN chain[s]
                                     ELSE ForkSlot(from, blocks, tx, s)]
    PROVE  Ordered(chain', head)
  <1> DEFINE d == chain'
             n == [s \in from - 1 .. head |-> Cardinality(blocks \cap (from .. s))]
             base == chain[from - 1]
  <1>1. head \in FirstSlot .. head /\ head \in Nat /\ FirstSlot \in Nat /\ from \in Nat
    BY ChainAssumption DEF ChainTypeOK, Slots
  <1>2. /\ \A s \in from - 1 .. head : n[s] \in Nat
        /\ \A s, t \in from - 1 .. head : s <= t =>
              n[s] <= n[t] /\ (n[s] = n[t] => blocks \cap (s + 1 .. t) = {})
        /\ n[from - 1] = 0
    <2>1. from - 1 \in from - 1 .. head
      BY <1>1
    <2>2. QED
      BY <1>1, <2>1, CountIs
  <1>3. base.bn \in Nat /\ base.tx \in Nat
    BY SlotType DEF Seqs
  <1>4. \A s \in FirstSlot .. head : chain[s].tx \in Nat /\ chain[s].bn \in Nat
    BY SlotType DEF Seqs
  <1>5. \A s \in from - 1 .. head : tx[s] \in Nat
    BY DEF Seqs
  <1>6. FirstSlot .. head \subseteq Slots
    BY ChainAssumption DEF ChainTypeOK, Slots
  <1>7. \A s \in FirstSlot .. from - 1 : d[s] = chain[s]
    BY <1>1, <1>6
  <1>8. ASSUME NEW s \in from - 1 .. head
        PROVE  d[s].bn = base.bn + n[s] /\ d[s].tx = tx[s] /\ (s >= from /\ d[s].ver # 0 => s \in blocks)
    <2>1. CASE s = from - 1
      <3>1. d[s] = base
        BY <1>1, <1>7, <2>1
      <3>2. QED
        BY <1>1, <1>2, <1>3, <2>1, <3>1
    <2>2. CASE s # from - 1
      <3>1. s \in Slots /\ ~(s < from) /\ ~(s > head)
        <4>1. \A f, h, m \in Nat : \A r \in f - 1 .. h :
                 r # f - 1 /\ f - 1 \in m .. h => r \in m .. h /\ ~(r < f) /\ ~(r > h)
          OBVIOUS
        <4>2. s \in FirstSlot .. head /\ ~(s < from) /\ ~(s > head)
          BY <1>1, <2>2, <4>1, Zenon
        <4>3. QED
          BY <1>6, <4>2, Zenon
      <3>2. d[s] = ForkSlot(from, blocks, tx, s)
        <4>1. d = [r \in Slots |-> IF r < from \/ r > head THEN chain[r]
                                   ELSE ForkSlot(from, blocks, tx, r)]
          OBVIOUS
        <4> HIDE DEF d
        <4>2. QED
          BY <3>1, <4>1, Zenon
      <3>3. n[s] = Cardinality(blocks \cap (from .. s))
        OBVIOUS
      <3> DEFINE f == ForkSlot(from, blocks, tx, s)
      <3>4. f.bn = base.bn + n[s] /\ f.tx = tx[s] /\ (f.ver # 0 => s \in blocks)
        BY <3>3 DEF ForkSlot
      <3> HIDE DEF d, n, f, base
      <3>5. d[s] = f
        BY <3>2 DEF f
      <3>6. QED
        BY <3>4, <3>5, Zenon
    <2>3. QED
      BY <2>1, <2>2
  <1> HIDE DEF d, n
  <1>9. ASSUME NEW s \in FirstSlot .. from - 1
        PROVE  /\ d[s].tx \in Nat /\ d[s].bn \in Nat
               /\ d[s].tx <= base.tx /\ d[s].bn <= base.bn
               /\ d[s].bn = base.bn => d[s].tx = base.tx
    <2>1. /\ chain[s].tx <= base.tx /\ chain[s].bn <= base.bn
          /\ chain[s].bn = base.bn => chain[s].tx = base.tx
      BY <1>1 DEF Ordered
    <2>2. s \in FirstSlot .. head
      BY <1>1
    <2>3. QED
      BY <1>4, <1>7, <2>1, <2>2
  <1>10. ASSUME NEW t \in from .. head
         PROVE  /\ base.tx <= tx[t] /\ (n[t] = 0 => base.tx = tx[t])
                /\ t \in blocks => n[t] > 0
    <2>1. t \in from - 1 .. head /\ from - 1 \in from - 1 .. head /\ from - 1 <= t /\ from - 1 + 1 = from
      BY <1>1
    <2>2. base.tx <= tx[t] /\ (n[t] = 0 => blocks \cap (from .. t) = {})
          /\ (blocks \cap (from .. t) = {} => base.tx = tx[t])
      BY <1>2, <2>1
    <2>3. t \in blocks => t \in blocks \cap (from .. t)
      BY <1>1
    <2>4. QED
      BY <1>2, <2>1, <2>2, <2>3
  <1>11. ASSUME NEW s \in from - 1 .. head, NEW t \in from .. head, s <= t
         PROVE  /\ tx[s] <= tx[t] /\ n[s] <= n[t] /\ (n[s] = n[t] => tx[s] = tx[t])
                /\ s < t /\ t \in blocks => n[s] < n[t]
    <2>1. t \in from - 1 .. head
      BY <1>1
    <2>2. /\ tx[s] <= tx[t] /\ n[s] <= n[t] /\ (n[s] = n[t] => blocks \cap (s + 1 .. t) = {})
          /\ (blocks \cap (s + 1 .. t) = {} => tx[s] = tx[t])
      BY <1>2, <1>11, <2>1
    <2>3. s < t /\ t \in blocks => t \in blocks \cap (s + 1 .. t)
      BY <1>1
    <2>4. QED
      BY <1>2, <2>1, <2>2, <2>3
  <1> DEFINE b == base.bn
             x == base.tx
  <1> HIDE DEF b, x
  <1>12. ASSUME NEW s \in FirstSlot .. head, NEW t \in FirstSlot .. head, s <= t
         PROVE  /\ d[s].tx <= d[t].tx /\ d[s].bn <= d[t].bn
                /\ d[s].bn = d[t].bn => d[s].tx = d[t].tx
                /\ s < t /\ d[t].ver # 0 => d[s].bn < d[t].bn
    <2>1. CASE t <= from - 1
      <3>1. s \in FirstSlot .. from - 1 /\ t \in FirstSlot .. from - 1
        BY <1>1, <1>12, <2>1
      <3>2. QED
        BY <1>7, <1>12, <3>1 DEF Ordered
    <2>2. CASE ~(t <= from - 1) /\ s <= from - 1
      <3>1. s \in FirstSlot .. from - 1 /\ t \in from .. head /\ t \in from - 1 .. head
        BY <1>1, <2>2
      <3>2. /\ d[s].tx \in Nat /\ d[s].bn \in Nat /\ d[s].tx <= x /\ d[s].bn <= b
            /\ (d[s].bn = b => d[s].tx = x)
        BY <1>9, <3>1 DEF b, x
      <3>3. /\ d[t].bn = b + n[t] /\ d[t].tx = tx[t] /\ (d[t].ver # 0 => n[t] > 0)
            /\ x <= tx[t] /\ (n[t] = 0 => x = tx[t]) /\ n[t] \in Nat /\ tx[t] \in Nat
            /\ b \in Nat /\ x \in Nat
        BY <1>1, <1>2, <1>3, <1>5, <1>8, <1>10, <3>1 DEF b, x
      <3>4. QED
        BY <3>2, <3>3
    <2>3. CASE ~(s <= from - 1)
      <3>1. s \in from - 1 .. head /\ t \in from .. head /\ t \in from - 1 .. head
        BY <1>1, <1>12, <2>3
      <3>2. /\ d[s].bn = b + n[s] /\ d[s].tx = tx[s] /\ n[s] \in Nat /\ tx[s] \in Nat
            /\ d[t].bn = b + n[t] /\ d[t].tx = tx[t] /\ n[t] \in Nat /\ tx[t] \in Nat
            /\ b \in Nat /\ (d[t].ver # 0 => t \in blocks)
        BY <1>1, <1>2, <1>3, <1>5, <1>8, <3>1 DEF b
      <3>3. /\ tx[s] <= tx[t] /\ n[s] <= n[t] /\ (n[s] = n[t] => tx[s] = tx[t])
            /\ s < t /\ t \in blocks => n[s] < n[t]
        BY <1>11, <1>12, <3>1
      <3>4. QED
        BY <3>2, <3>3
    <2>4. QED
      BY <2>1, <2>2, <2>3
  <1>13. Ordered(d, head)
    BY <1>12, Zenon DEF Ordered
  <1>14. QED
    BY <1>13 DEF d

\* A step of the chain keeps its order and what is final; without a reorganisation
\* it keeps every slot, and no header is orphaned.
LEMMA ChainNextOrder ==
    ASSUME ChainTypeOK, ChainOrder, ChainNext
    PROVE  /\ ChainOrder'
           /\ head <= head' /\ fin <= fin'
           /\ reorgs <= reorgs'
           /\ \A s \in FirstSlot .. fin : chain'[s] = chain[s]
           /\ reorgs' = reorgs => \A s \in FirstSlot .. head : chain'[s] = chain[s]
  <1>0. /\ head \in Slots /\ fin \in Slots /\ head \in FirstSlot .. head
        /\ fin \in FirstSlot .. head /\ head \in Nat /\ fin \in Nat /\ reorgs \in Nat
        /\ FirstSlot \in FirstSlot .. fin
    BY ChainAssumption DEF ChainTypeOK, Slots, ChainOrder
  <1>1. chain[head] \in Slot /\ chain[head].bn \in Nat /\ chain[head].tx \in Nat
    BY <1>0, SlotType DEF ChainTypeOK, Seqs
  <1>2. ASSUME NEW x \in Slot, head < MaxSlot, head' = head + 1,
               chain' = [chain EXCEPT ![head + 1] = x], UNCHANGED <<fin, reorgs, orphans>>,
               \/ x.ver = 0 /\ x.tx = chain[head].tx /\ x.bn = chain[head].bn
               \/ x.tx >= chain[head].tx /\ x.bn > chain[head].bn
        PROVE  /\ ChainOrder'
               /\ \A s \in FirstSlot .. head : chain'[s] = chain[s]
    <2>1. head + 1 \in Slots
      BY <1>0, <1>2, ChainAssumption DEF Slots
    <2>2. /\ Ordered(chain', head + 1)
          /\ \A s \in FirstSlot .. head : chain'[s] = chain[s]
      BY <1>2, <2>1, OrderedGrows DEF ChainOrder
    <2>3. fin' <= head' /\ chain'[FirstSlot].tx = 0
      BY <1>0, <1>2, <2>2 DEF ChainOrder
    <2>4. QED
      BY <1>2, <2>2, <2>3 DEF ChainOrder
  <1>3. ASSUME NEW msgs \in 0 .. MaxTxSeq, NewBlock(msgs)
        PROVE  /\ ChainOrder'
               /\ \A s \in FirstSlot .. head : chain'[s] = chain[s]
    <2> DEFINE x == [ver |-> NewVersion, bn |-> chain[head].bn + 1, tx |-> TxSeq + msgs]
    <2>1. /\ head < MaxSlot /\ TxSeq + msgs <= MaxTxSeq /\ head' = head + 1
          /\ chain' = [chain EXCEPT ![head + 1] = x]
          /\ UNCHANGED <<fin, reorgs, orphans>>
      BY <1>3 DEF NewBlock
    <2>2. x \in Slot
      BY <1>0, <1>1, <2>1, ChainAssumption DEF Slot, Seqs, Versions, NewVersion, TxSeq, ChainTypeOK
    <2>3. x.tx >= chain[head].tx /\ x.bn > chain[head].bn
      BY <1>1, ChainAssumption DEF TxSeq
    <2> HIDE DEF x
    <2>4. QED
      BY <1>2, <2>1, <2>2, <2>3
  <1>4. ASSUME MissSlot
        PROVE  /\ ChainOrder'
               /\ \A s \in FirstSlot .. head : chain'[s] = chain[s]
    <2> DEFINE x == [chain[head] EXCEPT !.ver = 0]
    <2>1. /\ head < MaxSlot /\ head' = head + 1
          /\ chain' = [chain EXCEPT ![head + 1] = x]
          /\ UNCHANGED <<fin, reorgs, orphans>>
      BY <1>4 DEF MissSlot
    <2>2. /\ x \in Slot
          /\ x.ver = 0 /\ x.tx = chain[head].tx /\ x.bn = chain[head].bn
      BY <1>1, ChainAssumption DEF Slot, Versions, ChainTypeOK
    <2> HIDE DEF x
    <2>3. QED
      BY <1>2, <2>1, <2>2
  <1>5. ASSUME NEW from \in Slots, Reorg(from)
        PROVE  /\ ChainOrder'
               /\ reorgs' = reorgs + 1
               /\ \A s \in FirstSlot .. fin : chain'[s] = chain[s]
    <2>1. /\ reorgs < MaxReorgs /\ reorgs' = reorgs + 1 /\ fin < from /\ from <= head
          /\ from - 1 \in FirstSlot .. head
          /\ UNCHANGED <<head, fin>>
      BY <1>5, ReorgIs
    <2> DEFINE F == [from - 1 .. head -> Seqs]
    <2> HIDE DEF F
    <2>2. PICK blocks \in SUBSET (from .. head), tx \in F :
             /\ tx[from - 1] = chain[from - 1].tx
             /\ \A s, t \in from - 1 .. head : s <= t =>
                   /\ tx[s] <= tx[t]
                   /\ blocks \cap (s + 1 .. t) = {} => tx[s] = tx[t]
             /\ chain' = [s \in Slots |-> IF s < from \/ s > head THEN chain[s]
                                          ELSE ForkSlot(from, blocks, tx, s)]
      BY <1>5, ReorgIs, Zenon DEF F
    <2>3. Ordered(chain', head)
      <3>1. tx \in [from - 1 .. head -> Seqs]
        BY <2>2 DEF F
      <3>2. QED
        BY <2>1, <2>2, <3>1, OrderedForks DEF ChainOrder
    <2>4. \A s \in FirstSlot .. fin : chain'[s] = chain[s]
      BY <1>0, <2>1, <2>2, ChainAssumption DEF Slots
    <2>5. chain'[FirstSlot].tx = 0 /\ reorgs' # 0
      BY <1>0, <2>1, <2>4 DEF ChainOrder
    <2>6. QED
      BY <2>1, <2>3, <2>4, <2>5 DEF ChainOrder
  <1>6. ASSUME Finalize
        PROVE  /\ ChainOrder' /\ fin <= fin'
               /\ UNCHANGED <<chain, head, reorgs>>
    <2>1. PICK f \in CheckpointBlocks : /\ f > fin /\ f + FinalityDelay <= head
                                        /\ fin' = f
                                        /\ UNCHANGED <<chain, head, reorgs, orphans>>
      BY <1>6 DEF Finalize
    <2>2. f \in FirstSlot .. head
      BY DEF CheckpointBlocks
    <2>3. QED
      BY <1>0, <2>1, <2>2, ChainAssumption DEF ChainOrder, Ordered
  <1>7. \A s \in FirstSlot .. fin : s \in FirstSlot .. head
    BY <1>0, ChainAssumption
  <1>8. CASE \E msgs \in 0 .. MaxTxSeq : NewBlock(msgs)
    <2>1. head' = head + 1 /\ UNCHANGED <<fin, reorgs>>
      BY <1>8 DEF NewBlock
    <2>2. ChainOrder' /\ \A s \in FirstSlot .. head : chain'[s] = chain[s]
      BY <1>3, <1>8
    <2>3. QED
      BY <1>0, <1>7, <2>1, <2>2
  <1>9. CASE MissSlot
    <2>1. head' = head + 1 /\ UNCHANGED <<fin, reorgs>>
      BY <1>9 DEF MissSlot
    <2>2. ChainOrder' /\ \A s \in FirstSlot .. head : chain'[s] = chain[s]
      BY <1>4, <1>9
    <2>3. QED
      BY <1>0, <1>7, <2>1, <2>2
  <1>10. CASE \E from \in Slots : Reorg(from)
    <2>1. PICK from \in Slots : Reorg(from)
      BY <1>10
    <2>2. UNCHANGED <<head, fin>>
      BY <2>1, ReorgIs
    <2>3. ChainOrder' /\ reorgs' = reorgs + 1 /\ \A s \in FirstSlot .. fin : chain'[s] = chain[s]
      BY <1>5, <2>1
    <2>4. QED
      BY <1>0, <2>2, <2>3
  <1>11. CASE Finalize
    BY <1>0, <1>6, <1>11
  <1>12. QED
    BY <1>8, <1>9, <1>10, <1>11 DEF ChainNext

------------------------------------------------------------------------------
(* Proofs, and sequences of them *)

\* Every message is a part of a typed proof.
LEMMA MsgProofType ==
    ASSUME NEW slot \in Slots \cup {0}, NEW ver \in Versions, NEW from \in Nat \ {0}, NEW to \in Seqs,
           from <= to
    PROVE  [slot |-> slot, ver |-> ver, from |-> from, to |-> to] \in MsgProof
  BY ChainAssumption DEF MsgProof, Seqs

LEMMA MsgProofFields ==
    ASSUME NEW proofs \in Seq(MsgProof), NEW i \in DOMAIN proofs
    PROVE  /\ i \in Nat \ {0} /\ proofs[i] \in MsgProof
           /\ proofs[i].to \in Seqs /\ proofs[i].slot \in Slots \cup {0}
  <1>1. i \in Nat \ {0} /\ proofs[i] \in MsgProof
    BY LenProperties, ElementOfSeq
  <1>2. QED
    BY <1>1, ChainAssumption DEF MsgProof, Seqs

\* An element of a concatenation is one of the first or of the second sequence.
LEMMA ConcatElements ==
    ASSUME NEW S, NEW p \in Seq(S), NEW q \in Seq(S)
    PROVE  /\ Len(p) \in Nat /\ Len(q) \in Nat /\ Len(p \o q) = Len(p) + Len(q)
           /\ DOMAIN p = 1 .. Len(p) /\ DOMAIN q = 1 .. Len(q)
           /\ DOMAIN (p \o q) = 1 .. Len(p) + Len(q)
           /\ \A i \in DOMAIN p : (p \o q)[i] = p[i]
           /\ \A i \in DOMAIN q : (p \o q)[Len(p) + i] = q[i]
           /\ \A i \in DOMAIN (p \o q) :
                 \/ i \in DOMAIN p /\ (p \o q)[i] = p[i]
                 \/ i - Len(p) \in DOMAIN q /\ i > Len(p) /\ (p \o q)[i] = q[i - Len(p)]
  <1> DEFINE r == p \o q
             m == Len(p)
             n == Len(q)
  <1>1. m \in Nat /\ n \in Nat /\ DOMAIN p = 1 .. m /\ DOMAIN q = 1 .. n
    BY LenProperties
  <1>2. /\ r \in Seq(S) /\ Len(r) = m + n
        /\ \A i \in 1 .. m + n : r[i] = IF i <= m THEN p[i] ELSE q[i - m]
    BY ConcatProperties
  <1>3. DOMAIN r = 1 .. m + n
    BY <1>2, LenProperties
  <1> HIDE DEF r, m, n
  <1>4. \A i \in 1 .. n : r[m + i] = q[i]
    <2> SUFFICES ASSUME NEW i \in 1 .. n PROVE r[m + i] = q[i]
      OBVIOUS
    <2>1. PICK j \in 1 .. m + n : ~(j <= m) /\ j - m = i /\ j = m + i
      BY <1>1
    <2>2. r[j] = q[j - m]
      BY <1>2, <2>1
    <2>3. QED
      BY <2>1, <2>2
  <1>5. \A i \in 1 .. m : r[i] = p[i]
    BY <1>1, <1>2
  <1>6. \A i \in 1 .. m + n : i \in 1 .. m \/ (i - m \in 1 .. n /\ i > m /\ r[i] = q[i - m])
    BY <1>1, <1>2
  <1>7. QED
    BY <1>1, <1>2, <1>3, <1>4, <1>5, <1>6 DEF r, m, n

LEMMA AppendElements ==
    ASSUME NEW S, NEW p \in Seq(S), NEW x \in S
    PROVE  /\ Len(p) \in Nat /\ Len(Append(p, x)) = Len(p) + 1
           /\ DOMAIN p = 1 .. Len(p)
           /\ DOMAIN Append(p, x) = 1 .. Len(p) + 1
           /\ Append(p, x)[Len(p) + 1] = x
           /\ \A i \in DOMAIN p : Append(p, x)[i] = p[i]
  BY AppendProperties, LenProperties
==============================================================================
