--------------------------- MODULE ReceiverProofs ---------------------------
(* Theorems of Receiver, for chains and sequences of messages of any length. *)
EXTENDS Receiver, ChainProofs

------------------------------------------------------------------------------
(* The helpers of the receiver *)

LEMMA ScannedAtType ==
    ASSUME ChainTypeOK, NEW r \in Search, NEW s \in ScannedAt(r)
    PROVE  /\ s \in FirstSlot .. head
           /\ r.seq \in Nat \ {0} /\ LastMsg(s) \in Seqs /\ r.seq <= LastMsg(s)
           /\ s + 1 \in Nat /\ LastMsg(s) + 1 \in Nat /\ chain[s].bn + 1 \in Nat
           /\ [slot |-> s, ver |-> chain[s].ver, from |-> r.seq, to |-> LastMsg(s)] \in MsgProof
           /\ [slot |-> 0, ver |-> 0, from |-> r.seq, to |-> LastMsg(s)] \in MsgProof
  <1>1. s \in FirstSlot .. head /\ FirstMsg(s) <= r.seq /\ r.seq <= LastMsg(s)
    BY DEF ScannedAt
  <1>2. r.seq \in Nat
    BY DEF Search
  <1>3. r.seq \in Nat \ {0}
    BY <1>1, <1>2, SlotType
  <1>4. /\ s \in Slots /\ chain[s].ver \in Versions /\ chain[s].bn \in Nat
        /\ LastMsg(s) \in Seqs /\ 0 \in Versions
    BY <1>1, SlotType, ChainAssumption DEF Versions
  <1>5. s + 1 \in Nat /\ LastMsg(s) + 1 \in Nat /\ chain[s].bn + 1 \in Nat
    BY <1>4, SlotsAreNat, ChainAssumption DEF Seqs
  <1>6. QED
    BY <1>1, <1>3, <1>4, <1>5, MsgProofType

\* The slots a search finds or misses are of the blocks it scans.
LEMMA FoundAreScanned ==
    ASSUME NEW r
    PROVE  FoundAt(r) \subseteq ScannedAt(r) /\ LostAt(r) \subseteq ScannedAt(r)
  BY DEF FoundAt, LostAt

LEMMA RangeSearchType ==
    ASSUME ChainTypeOK, NEW fromSlot \in Nat, FirstSlot <= fromSlot, NEW fromSeq \in Nat,
           NEW toSlot \in Nat, FirstSlot <= toSlot, NEW toSeq \in Seqs
    PROVE  RangeSearch(fromSlot, fromSeq, toSlot, toSeq) \in Search
  BY BlockNumType DEF RangeSearch, Search

LEMMA CheckPointsType ==
    ASSUME ChainTypeOK, NEW c \in [Slots -> Versions]
    PROVE  /\ \A h \in Header : WithCheckPoint(c, h) \in [Slots -> Versions]
           /\ \A from, to : WithCheckPoints(c, from, to) \in [Slots -> Versions]
           /\ NoCheckPoints \in [Slots -> Versions]
  <1>1. \A h \in Header : WithCheckPoint(c, h) \in [Slots -> Versions]
    BY DEF WithCheckPoint, Header
  <1>2. ASSUME NEW from, NEW to PROVE WithCheckPoints(c, from, to) \in [Slots -> Versions]
    <2>1. ASSUME NEW s \in Slots PROVE chain[s].ver \in Versions
      BY DEF ChainTypeOK, Slot
    <2>2. QED
      BY <2>1, Zenon DEF WithCheckPoints
  <1>3. NoCheckPoints \in [Slots -> Versions]
    BY ChainAssumption DEF NoCheckPoints, Versions
  <1>4. QED
    BY <1>1, <1>2, <1>3

LEMMA NothingType ==
    /\ NoHeader \in Header /\ NoUpdate \in Update /\ NoSearch \in Search
    /\ NoLinkStatus \in LinkStatus /\ NoStatus \in Status
  BY SlotsAreNat, ChainAssumption
     DEF NoHeader, Header, NoUpdate, Update, NoSearch, Search, NoLinkStatus, LinkStatus,
         NoStatus, Status, Seqs, Versions

\* What is left of a sequence after its first elements keeps its type.
LEMMA RestType ==
    ASSUME NEW S, NEW s \in Seq(S), NEW i \in Nat
    PROVE  SubSeq(s, i + 1, Len(s)) \in Seq(S)
  <1>1. Len(s) \in Nat /\ \A j \in i + 1 .. Len(s) : s[j] \in S
    BY LenProperties, ElementOfSeq
  <1>2. QED
    BY <1>1, SubSeqProperties

LEMMA SeqAtType ==
    ASSUME prevRS \in Status, mps \in Seq(MsgProof), NEW height
    PROVE  SeqAt(height) \in Seqs
  <1> DEFINE last == LastProofsFor(height)
             i == CHOOSE j \in last : TRUE
  <1>1. CASE last = {}
    BY <1>1 DEF SeqAt, Status
  <1>2. CASE last # {}
    <2>1. i \in DOMAIN mps
      BY <1>2 DEF LastProofsFor
    <2>2. SeqAt(height) = mps[i].to
      BY <1>2 DEF SeqAt
    <2>3. QED
      BY <2>1, <2>2, MsgProofFields
  <1>3. QED
    BY <1>1, <1>2

------------------------------------------------------------------------------
(* Types *)

\* The receiver as it starts from a typed status.
LEMMA StartType ==
    ASSUME NEW st \in LinkStatus, fin \in Slots, StartState(st)
    PROVE  bls' \in LinkStatus /\ GatheredOK' /\ HandlerOK' /\ ClearOK'
  <1>1. st.height \in Slots /\ st.rx \in Seqs /\ st.last \in Slots
    BY DEF LinkStatus
  <1>2. GatheredOK'
    <2>1. extra' \in Slots \cup {0}
      BY <1>1 DEF StartState
    <2>2. prevRS' \in Status /\ seq' \in Seqs /\ cp' \in [Slots -> Versions]
      BY <1>1, ChainAssumption DEF StartState, Status, NoCheckPoints, Versions
    <2>3. rss' \in Seq(Status) /\ mps' \in Seq(MsgProof)
      BY EmptySeq DEF StartState
    <2>4. once' \in BOOLEAN /\ lastFU' \in Slots \cup {0} /\ att' \in Slots
      BY Zenon DEF StartState
    <2>5. QED
      BY <2>1, <2>2, <2>3, <2>4 DEF GatheredOK
  <1>3. HandlerOK' /\ ClearOK' /\ bls' = st
    BY NothingType DEF StartState, HandlerOK, ClearOK
  <1>4. QED
    BY <1>2, <1>3

LEMMA InitTyped == Init => TypeOK
  <1> SUFFICES ASSUME Init PROVE TypeOK
    OBVIOUS
  <1>1. ChainTypeOK
    BY ChainInitType DEF Init
  <1>2. GatheredOK
    <2>1. rss \in Seq(Status) /\ mps \in Seq(MsgProof)
      BY EmptySeq DEF Init
    <2>2. prevRS \in Status /\ seq \in Seqs /\ cp \in [Slots -> Versions]
      BY NothingType, ChainAssumption DEF Init, Seqs, NoCheckPoints, Versions
    <2>3. extra \in Slots \cup {0} /\ lastFU \in Slots \cup {0} /\ att \in Slots
      BY SlotsAreNat DEF Init
    <2>4. once \in BOOLEAN
      BY Zenon DEF Init
    <2>5. QED
      BY <2>1, <2>2, <2>3, <2>4 DEF GatheredOK
  <1>3. HandlerOK /\ ClearOK
    BY NothingType DEF Init, HandlerOK, ClearOK
  <1>4. dst \in LinkStatus /\ bls \in LinkStatus /\ BudgetsOK
    BY NothingType, ReceiverAssumption DEF Init, BudgetsOK
  <1>5. QED
    BY <1>1, <1>2, <1>3, <1>4 DEF TypeOK

\* The handler that returns is typed.
LEMMA ReturnType == Return => HandlerOK'
  BY NothingType DEF Return, HandlerOK

LEMMA ChainType ==
    ASSUME TypeOK, Chain
    PROVE  TypeOK'
  <1>1. ChainTypeOK'
    BY ChainNextType DEF TypeOK, Chain
  <1>2. UNCHANGED <<linkVars, extra, once, seq, prevRS, rss, mps, cp, lastFU, att, pc,
                    handlerVars, clearVars, budgets>>
    BY Zenon DEF Chain
  <1>3. QED
    BY <1>1, <1>2 DEF TypeOK, GatheredOK, HandlerOK, ClearOK, BudgetsOK, linkVars, handlerVars,
                      clearVars, budgets

\* A step of the handler moves no other part than what was gathered and its locals.
LEMMA HandlerStepType ==
    ASSUME TypeOK, GatheredOK', HandlerOK', UNCHANGED <<chainVars, linkVars, clearVars, budgets>>
    PROVE  TypeOK'
  BY DEF TypeOK, ChainTypeOK, ClearOK, BudgetsOK, chainVars, linkVars, clearVars, budgets

\* The relay that starts again is typed.
LEMMA RestartType ==
    ASSUME TypeOK, StartState(dst), UNCHANGED <<chainVars, dst, clears>>,
           restarts' \in 0 .. MaxRestarts, faults' \in 0 .. MaxFaults
    PROVE  TypeOK'
  <1>1. bls' \in LinkStatus /\ GatheredOK' /\ HandlerOK' /\ ClearOK'
    BY StartType DEF TypeOK, ChainTypeOK
  <1>2. QED
    BY <1>1 DEF TypeOK, ChainTypeOK, BudgetsOK, chainVars

LEMMA PanicType == TypeOK /\ Panic => TypeOK'
  BY RestartType DEF Panic, TypeOK, BudgetsOK, budgets

\* Optimistic updates keep the types.
LEMMA OptimisticType ==
    ASSUME TypeOK, NEW h \in OptimisticUpdates, FirstUpdate(h) \/ LaterUpdate(h)
    PROVE  TypeOK'
  <1>1. h \in Header /\ h.slot \in Slots /\ h.slot > att
    BY HeadersInType DEF OptimisticUpdates, TypeOK, ChainTypeOK, Header
  <1>2. CASE FirstUpdate(h)
    <2> DEFINE fromSlot == SearchedAfter + 1
               search == RangeSearch(fromSlot, bls.rx + 1, h.slot - 1, TxSeq)
    <2>1. fromSlot \in Nat /\ FirstSlot <= fromSlot
      BY ChainAssumption DEF SearchedAfter, TypeOK, GatheredOK, LinkStatus, Slots
    <2>2. h.slot - 1 \in Nat /\ FirstSlot <= h.slot - 1
      BY <1>1, ChainAssumption DEF TypeOK, GatheredOK, Slots
    <2>3. bls.rx + 1 \in Nat /\ TxSeq \in Seqs
      <3>1. head \in FirstSlot .. head
        BY ChainAssumption DEF TypeOK, ChainTypeOK, Slots
      <3>2. QED
        BY <3>1, SlotType, ChainAssumption DEF TypeOK, LinkStatus, Seqs, TxSeq
    <2>4. search \in Search
      BY <2>1, <2>2, <2>3, RangeSearchType DEF TypeOK
    <2>5. att' = h.slot /\ hdr' = h /\ upd' = [upd EXCEPT !.f = fin]
          /\ UNCHANGED <<chainVars, linkVars, extra, seq, prevRS, rss, mps, lastFU,
                         made, msnap, rs, rsnap, clearVars, budgets>>
      BY <1>2, Zenon DEF FirstUpdate
    <2>6. rg' \in Search /\ pc' \in {"undelivered", "header"}
      BY <1>2, <2>4 DEF FirstUpdate, TypeOK, HandlerOK
    <2>7. cp' \in [Slots -> Versions] /\ once' \in BOOLEAN
      <3>1. \/ once' = once /\ cp' = cp
            \/ once' = TRUE /\ cp' = WithCheckPoints(cp, fin, h.slot - 1)
        BY <1>2, ZenonT(20) DEF FirstUpdate
      <3>2. cp \in [Slots -> Versions] /\ once \in BOOLEAN /\ ChainTypeOK
        BY DEF TypeOK, GatheredOK
      <3>3. WithCheckPoints(cp, fin, h.slot - 1) \in [Slots -> Versions]
        BY <3>2, CheckPointsType
      <3>4. QED
        BY <3>1, <3>2, <3>3
    <2>8. upd' \in Update
      BY <2>5 DEF TypeOK, ChainTypeOK, HandlerOK, Update
    <2>9. GatheredOK' /\ HandlerOK'
      BY <1>1, <2>5, <2>6, <2>7, <2>8 DEF TypeOK, GatheredOK, HandlerOK
    <2>10. QED
      BY <2>5, <2>9, HandlerStepType
  <1>3. CASE LaterUpdate(h)
    <2>1. GatheredOK' /\ HandlerOK'
      BY <1>1, <1>3 DEF LaterUpdate, TypeOK, GatheredOK, HandlerOK
    <2>2. QED
      BY <1>3, <2>1, HandlerStepType DEF LaterUpdate
  <1>4. QED
    BY <1>2, <1>3

\* The steps that gather and store messages keep the types.
LEMMA GatherType ==
    ASSUME TypeOK, StoreUndelivered \/ GatherFromHeader \/ StoreGathered
    PROVE  TypeOK'
  <1> USE DEF TypeOK, GatheredOK, HandlerOK
  <1>1. msnap \o made \in Seq(MsgProof)
    BY ConcatProperties
  <1>2. CASE StoreUndelivered
    <2>1. GatheredOK' /\ HandlerOK'
      BY <1>1, <1>2, EmptySeq, NothingType, CheckPointsType DEF StoreUndelivered
    <2>2. QED
      BY <1>2, <2>1, HandlerStepType DEF StoreUndelivered
  <1>3. CASE StoreGathered
    <2>1. GatheredOK'
      BY <1>1, <1>3, CheckPointsType DEF StoreGathered
    <2>2. QED
      BY <1>3, <2>1, ReturnType, HandlerStepType DEF StoreGathered
  <1>4. CASE GatherFromHeader
    <2> DEFINE blocks == {s \in SlotsOfBlock(hdr.bn) : FirstMsg(s) <= LastMsg(s)}
    <2>1. UNCHANGED <<chainVars, linkVars, extra, once, prevRS, rss, mps, lastFU, att,
                      clearVars, budgets>>
      BY <1>4, Zenon DEF GatherFromHeader
    <2>2. CASE Return /\ seq' = seq /\ cp' \in {cp, WithCheckPoint(cp, hdr)}
      <3>1. GatheredOK'
        BY <2>1, <2>2, CheckPointsType
      <3>2. QED
        BY <2>1, <2>2, <3>1, ReturnType, HandlerStepType
    <2>3. ASSUME NEW s \in blocks,
                 made' = <<[slot |-> hdr.slot, ver |-> hdr.ver,
                            from |-> FirstMsg(s), to |-> LastMsg(s)]>>,
                 seq' = LastMsg(s), msnap' = mps, pc' = "append",
                 UNCHANGED <<cp, hdr, upd, rg, rs, rsnap>>
          PROVE  TypeOK'
      <3>1. s \in FirstSlot .. head /\ FirstMsg(s) <= LastMsg(s)
        BY DEF SlotsOfBlock
      <3>2. hdr.slot \in Slots /\ hdr.ver \in Versions
        BY DEF Header
      <3>3. [slot |-> hdr.slot, ver |-> hdr.ver, from |-> FirstMsg(s), to |-> LastMsg(s)]
              \in MsgProof
        BY <3>1, <3>2, SlotType, MsgProofType
      <3>4. made' \in Seq(MsgProof)
        BY <2>3, <3>3
      <3>5. GatheredOK' /\ HandlerOK'
        BY <2>1, <2>3, <3>1, <3>4, SlotType
      <3>6. QED
        BY <2>1, <3>5, HandlerStepType
    <2>4. QED
      BY <1>4, <2>2, <2>3 DEF GatherFromHeader
  <1>5. QED
    BY <1>2, <1>3, <1>4

\* The steps of a search keep the types.
LEMMA SearchStepType ==
    ASSUME TypeOK, RangeStep \/ RangeMisses \/ RangeFails \/ RangePanics \/ RangeDone
    PROVE  TypeOK'
  <1> USE DEF TypeOK, GatheredOK, HandlerOK
  <1>1. CASE RangeStep
    <2>1. PICK s \in FoundAt(rg) :
             /\ made' = Append(made, [slot |-> s, ver |-> chain[s].ver,
                                      from |-> rg.seq, to |-> LastMsg(s)])
             /\ seq' = LastMsg(s)
             /\ rg' = [rg EXCEPT !.seq = LastMsg(s) + 1, !.fbn = chain[s].bn + 1,
                                 !.fSlot = s + 1]
      BY <1>1 DEF RangeStep
    <2>2. UNCHANGED <<chainVars, linkVars, extra, once, prevRS, rss, mps, cp, lastFU, att, pc,
                      hdr, upd, msnap, rs, rsnap, clearVars, budgets>>
      BY <1>1, Zenon DEF RangeStep
    <2>3. s \in ScannedAt(rg) /\ ChainTypeOK /\ rg \in Search
      BY FoundAreScanned
    <2>4. made' \in Seq(MsgProof)
      BY <2>1, <2>3, ScannedAtType, AppendProperties
    <2>5. rg' \in Search
      BY <2>1, <2>3, ScannedAtType DEF Search
    <2>6. GatheredOK' /\ HandlerOK'
      BY <2>1, <2>2, <2>3, <2>4, <2>5, ScannedAtType
    <2>7. QED
      BY <2>2, <2>6, HandlerStepType
  <1>2. CASE RangeFails
    <2>1. GatheredOK'
      BY <1>2 DEF RangeFails
    <2>2. QED
      BY <1>2, <2>1, ReturnType, HandlerStepType DEF RangeFails
  <1>3. CASE RangePanics
    BY <1>3, PanicType DEF RangePanics
  <1>4. CASE RangeDone
    <2>1. GatheredOK' /\ HandlerOK'
      BY <1>4, NothingType DEF RangeDone
    <2>2. QED
      BY <1>4, <2>1, HandlerStepType DEF RangeDone
  <1>5. CASE RangeMisses
    <2>1. PICK s \in LostAt(rg) :
             /\ made' = Append(made, [slot |-> 0, ver |-> 0,
                                      from |-> rg.seq, to |-> LastMsg(s)])
             /\ seq' = LastMsg(s)
             /\ rg' = [rg EXCEPT !.seq = LastMsg(s) + 1, !.fbn = chain[s].bn + 1, !.fSlot = 1]
      BY <1>5 DEF RangeMisses
    <2>2. UNCHANGED <<chainVars, linkVars, extra, once, prevRS, rss, mps, cp, lastFU, att, pc,
                      hdr, upd, msnap, rs, rsnap, clearVars, budgets>>
      BY <1>5, Zenon DEF RangeMisses
    <2>3. s \in ScannedAt(rg) /\ ChainTypeOK /\ rg \in Search
      BY FoundAreScanned
    <2>4. made' \in Seq(MsgProof)
      BY <2>1, <2>3, ScannedAtType, AppendProperties
    <2>5. rg' \in Search
      BY <2>1, <2>3, ScannedAtType DEF Search
    <2>6. GatheredOK' /\ HandlerOK'
      BY <2>1, <2>2, <2>3, <2>4, <2>5, ScannedAtType
    <2>7. QED
      BY <2>2, <2>6, HandlerStepType
  <1>6. QED
    BY <1>1, <1>2, <1>3, <1>4, <1>5

\* The steps of a finality update keep the types.
LEMMA FinalityType ==
    ASSUME TypeOK,
           (\E a \in Attesting : FinalityUpdate(a)) \/ Validate \/ StoreRebuilt
             \/ MakeStatus \/ StoreStatus
    PROVE  TypeOK'
  <1> USE DEF TypeOK, GatheredOK, HandlerOK
  <1>0. fin \in Slots /\ \A s \in Slots : s \in Nat
    BY SlotsAreNat DEF ChainTypeOK
  <1>1. ASSUME NEW a \in Attesting, FinalityUpdate(a) PROVE TypeOK'
    <2>1. a \in Slots
      BY ChainAssumption DEF Attesting, ChainTypeOK, Slots
    <2>2. upd' \in Update
      BY <1>0, <1>1, <2>1 DEF FinalityUpdate, Update
    <2>3. GatheredOK' /\ HandlerOK'
      BY <1>0, <1>1, <2>2 DEF FinalityUpdate
    <2>4. QED
      BY <1>1, <2>3, HandlerStepType DEF FinalityUpdate
  <1>2. CASE Validate
    <2>1. RebuildSearch \in Search
      <3>1. head \in FirstSlot .. head
        BY ChainAssumption DEF ChainTypeOK, Slots
      <3>2. TxSeq \in Seqs
        BY <3>1, SlotType DEF TxSeq
      <3>3. /\ prevRS.slot + 1 \in Nat /\ FirstSlot <= prevRS.slot + 1
            /\ prevRS.seq + 1 \in Nat
            /\ upd.a \in Nat /\ FirstSlot <= upd.a
        BY ChainAssumption, SMTT(30) DEF Status, Update, Slots, Seqs
      <3>4. QED
        BY <3>2, <3>3, RangeSearchType DEF RebuildSearch
    <2>2. UNCHANGED <<chainVars, linkVars, extra, once, prevRS, rss, lastFU, att,
                      hdr, upd, made, msnap, rs, rsnap, clearVars, budgets>>
      BY <1>2, Zenon DEF Validate
    <2>3. [cp EXCEPT ![upd.f] = 0] \in [Slots -> Versions]
      <3>1. 0 \in Versions
        BY ChainAssumption DEF Versions
      <3>2. QED
        BY <3>1
    <2>4. seq' \in Seqs
      BY <1>2 DEF Validate, Status
    <2>5. mps' \in Seq(MsgProof)
      BY <1>2, EmptySeq DEF Validate
    <2>6. cp' \in [Slots -> Versions]
      BY <1>2, <2>3, CheckPointsType DEF Validate
    <2>7. rg' \in Search /\ pc' \in {"announce", "rebuild"}
      BY <1>2, <2>1 DEF Validate
    <2>8. GatheredOK' /\ HandlerOK'
      BY <2>2, <2>4, <2>5, <2>6, <2>7
    <2>9. QED
      BY <2>2, <2>8, HandlerStepType
  <1>3. CASE StoreRebuilt
    <2>1. mps' \in Seq(MsgProof)
      BY <1>3, ConcatProperties DEF StoreRebuilt
    <2>2. GatheredOK' /\ HandlerOK'
      BY <1>3, <2>1, EmptySeq, CheckPointsType DEF StoreRebuilt
    <2>3. QED
      BY <1>3, <2>2, HandlerStepType DEF StoreRebuilt
  <1>4. CASE MakeStatus
    <2>1. rs' \in Status
      BY <1>4, SeqAtType DEF MakeStatus, Status, Update
    <2>2. GatheredOK' /\ HandlerOK'
      BY <1>4, <2>1 DEF MakeStatus
    <2>3. QED
      BY <1>4, <2>2, HandlerStepType DEF MakeStatus
  <1>5. CASE StoreStatus
    <2>1. rss' \in Seq(Status)
      BY <1>5, AppendProperties DEF StoreStatus
    <2>2. GatheredOK' /\ HandlerOK'
      BY <1>5, <2>1, EmptySeq DEF StoreStatus
    <2>3. QED
      BY <1>5, <2>2, HandlerStepType DEF StoreStatus
  <1>6. QED
    BY <1>1, <1>2, <1>3, <1>4, <1>5

\* The link and the destination keep the types.
LEMMA LinkStepType ==
    ASSUME TypeOK, Link
    PROVE  TypeOK'
  <1> USE DEF TypeOK
  <1>1. CASE Consume
    <2>1. GatheredOK'
      BY <1>1 DEF Consume, GatheredOK, HandlerOK
    <2>2. QED
      BY <1>1, <2>1, ReturnType, HandlerStepType DEF Consume
  <1>2. CASE RelayBlockUpdate
    <2>1. rss[Len(rss)] \in Status
      BY <1>2, EmptySeq, ElementOfSeq DEF RelayBlockUpdate, GatheredOK
    <2>2. bls' \in LinkStatus
      BY <1>2, <2>1 DEF RelayBlockUpdate, LinkStatus, Status
    <2>3. QED
      BY <1>2, <2>2 DEF RelayBlockUpdate, ChainTypeOK, GatheredOK, HandlerOK, ClearOK, BudgetsOK,
                        chainVars, handlerVars, clearVars, budgets
  <1>3. CASE RelayMessageProof
    <2>1. PICK i \in ProofsFor(bls.rx + 1) :
             /\ Provable(mps[i])
             /\ bls' = [bls EXCEPT !.rx = mps[i].to, !.last = mps[i].slot]
      BY <1>3 DEF RelayMessageProof
    <2>2. mps[i].to \in Seqs /\ mps[i].slot \in Slots
      <3>1. mps[i].to \in Seqs
        BY MsgProofFields DEF ProofsFor, GatheredOK
      <3>2. mps[i].slot \in Slots
        BY <2>1, SlotType DEF Provable
      <3>3. QED
        BY <3>1, <3>2
    <2>3. bls' \in LinkStatus
      BY <2>1, <2>2 DEF LinkStatus
    <2>4. QED
      BY <1>3, <2>3 DEF RelayMessageProof, ChainTypeOK, GatheredOK, HandlerOK, ClearOK, BudgetsOK,
                        chainVars, handlerVars, clearVars, budgets
  <1>4. CASE RefuseBlockUpdate \/ Execute
    BY <1>4, SMTT(30) DEF RefuseBlockUpdate, Execute, ChainTypeOK, GatheredOK, HandlerOK, ClearOK,
                BudgetsOK, chainVars, handlerVars, clearVars, budgets
  <1>5. QED
    BY <1>1, <1>2, <1>3, <1>4 DEF Link

\* clearData keeps the types.
LEMMA ClearType ==
    ASSUME TypeOK, ClearData
    PROVE  TypeOK'
  <1>0. rss \in Seq(Status) /\ mps \in Seq(MsgProof)
    BY DEF TypeOK, GatheredOK
  <1>1. ASSUME UNCHANGED <<chainVars, linkVars, extra, once, seq, prevRS, cp, lastFU, att, pc,
                           handlerVars, restarts, faults>>,
               rss' \in Seq(Status), mps' \in Seq(MsgProof), ClearOK',
               clears' \in 0 .. MaxClears
        PROVE  TypeOK'
    BY <1>1 DEF TypeOK, ChainTypeOK, GatheredOK, HandlerOK, BudgetsOK, chainVars, linkVars,
                handlerVars
  <1>2. CASE Clear
    <2>1. clears' \in 0 .. MaxClears
      BY <1>2, ReceiverAssumption DEF Clear, TypeOK, BudgetsOK
    <2>2. gi' \in Nat
      BY <1>2, <1>0, LenProperties DEF Clear, ClearedStatus, TypeOK, ClearOK
    <2>3. ClearOK'
      BY <1>2, <2>2 DEF Clear, TypeOK, ClearOK
    <2>4. QED
      BY <1>0, <1>1, <1>2, <2>1, <2>3 DEF Clear
  <1>3. CASE LoadRss
    <2>1. ClearOK'
      BY <1>0, <1>3, RestType DEF LoadRss, TypeOK, ClearOK
    <2>2. QED
      BY <1>0, <1>1, <1>3, <2>1 DEF LoadRss, TypeOK, BudgetsOK, budgets
  <1>4. CASE StoreRss
    <2>1. rss' \in Seq(Status) /\ ClearOK'
      BY <1>4 DEF StoreRss, TypeOK, ClearOK
    <2>2. QED
      BY <1>0, <1>1, <1>4, <2>1 DEF StoreRss, TypeOK, BudgetsOK, budgets
  <1>5. CASE ScanMps
    <2>1. gi' \in Nat
      BY <1>0, <1>5, LenProperties DEF ScanMps, ClearedProof
    <2>2. ClearOK'
      BY <1>5, <2>1, NothingType DEF ScanMps, TypeOK, ClearOK
    <2>3. QED
      BY <1>0, <1>1, <1>5, <2>2 DEF ScanMps, TypeOK, BudgetsOK, budgets
  <1>6. CASE LoadMps
    <2>1. ClearOK'
      BY <1>0, <1>6, RestType DEF LoadMps, TypeOK, ClearOK
    <2>2. QED
      BY <1>0, <1>1, <1>6, <2>1 DEF LoadMps, TypeOK, BudgetsOK, budgets
  <1>7. CASE StoreMps
    <2>1. mps' \in Seq(MsgProof) /\ ClearOK'
      BY <1>7, NothingType DEF StoreMps, TypeOK, ClearOK
    <2>2. QED
      BY <1>0, <1>1, <1>7, <2>1 DEF StoreMps, TypeOK, BudgetsOK, budgets
  <1>8. CASE ClearPanics
    BY <1>8, PanicType DEF ClearPanics
  <1>9. QED
    BY <1>2, <1>3, <1>4, <1>5, <1>6, <1>7, <1>8 DEF ClearData

LEMMA NextTyped == TypeOK /\ [Next]_vars => TypeOK'
  <1> SUFFICES ASSUME TypeOK, [Next]_vars PROVE TypeOK'
    OBVIOUS
  <1>1. CASE Chain
    BY <1>1, ChainType
  <1>2. CASE Handler
    BY <1>2, OptimisticType, GatherType, SearchStepType, FinalityType DEF Handler
  <1>3. CASE Link
    BY <1>3, LinkStepType
  <1>4. CASE ClearData
    BY <1>4, ClearType
  <1>5. CASE RpcFails
    <2>1. faults' \in 0 .. MaxFaults
      BY <1>5, ReceiverAssumption DEF RpcFails, TypeOK, BudgetsOK
    <2>2. HandlerOK'
      BY <1>5, ReturnType DEF RpcFails
    <2>3. QED
      BY <1>5, <2>1, <2>2 DEF RpcFails, TypeOK, ChainTypeOK, GatheredOK, ClearOK, BudgetsOK,
                              chainVars, linkVars, clearVars
  <1>6. CASE Restart
    <2>1. restarts' \in 0 .. MaxRestarts
      BY <1>6, ReceiverAssumption DEF Restart, TypeOK, BudgetsOK
    <2>2. QED
      BY <1>6, <2>1, RestartType DEF Restart, TypeOK, BudgetsOK
  <1>7. CASE FaultPanics
    <2>1. faults' \in 0 .. MaxFaults
      BY <1>7, ReceiverAssumption DEF FaultPanics, TypeOK, BudgetsOK
    <2>2. QED
      BY <1>7, <2>1, RestartType DEF FaultPanics, TypeOK, BudgetsOK
  <1>8. CASE UNCHANGED vars
    BY <1>8 DEF vars, TypeOK, ChainTypeOK, GatheredOK, HandlerOK, ClearOK, BudgetsOK,
                chainVars, linkVars, handlerVars, clearVars, budgets
  <1>9. QED
    BY <1>1, <1>2, <1>3, <1>4, <1>5, <1>6, <1>7, <1>8 DEF Next

\* The receiver is well formed in every reachable state: every message proof
\* holds messages that exist, every search ends at a message that was sent, and
\* what clearData stores has the type of the field it stores it in.
THEOREM ReceiverTyped == Spec => []TypeOK
  BY InitTyped, NextTyped, PTL DEF Spec

------------------------------------------------------------------------------
(* Statuses ascend *)

\* The handler has taken a finality update and not yet stored its status.
Announcing == pc \in {"validate", "rebuild", "storeRebuilt", "announce", "storeStatus"}

\* No status stored or loaded is above this slot.
Bound == IF Announcing THEN lastFU - 1 ELSE lastFU

Ascends(statuses, bound) ==
    \A i \in DOMAIN statuses :
        /\ statuses[i].slot <= bound
        /\ \A j \in 1 .. i - 1 : statuses[j].slot < statuses[i].slot

\* RssAscend is not inductive: a slice that clearData or the handler loaded before
\* is stored over rss, so it must ascend too, and the status the handler is about
\* to append must be above all of them.
AscendInv ==
    /\ lastFU <= fin
    /\ Ascends(rss, Bound)
    /\ gpc = "storeRss" => Ascends(gsnap, Bound)
    /\ pc = "storeStatus" => Ascends(rsnap, Bound) /\ rs.slot = lastFU
    /\ Announcing => upd.f = lastFU

\* Slots as numbers.
LEMMA SlotNumbers ==
    ASSUME TypeOK
    PROVE  /\ lastFU \in Nat /\ fin \in Nat \ {0} /\ Bound \in Int
           /\ \A i \in DOMAIN rss : rss[i].slot \in Nat
           /\ \A i \in DOMAIN rsnap : rsnap[i].slot \in Nat
           /\ gpc = "storeRss" => \A i \in DOMAIN gsnap : gsnap[i].slot \in Nat
  <1>1. lastFU \in Nat /\ fin \in Nat \ {0}
    BY SlotsAreNat DEF TypeOK, ChainTypeOK, GatheredOK
  <1>2. ASSUME NEW s \in Seq(Status), NEW i \in DOMAIN s PROVE s[i].slot \in Nat
    <2>1. s[i] \in Status
      BY LenProperties, ElementOfSeq
    <2>2. QED
      BY <2>1, SlotsAreNat DEF Status
  <1>3. QED
    BY <1>1, <1>2 DEF TypeOK, GatheredOK, HandlerOK, ClearOK, Bound

LEMMA AscendsHigher ==
    ASSUME NEW s \in Seq(Status), NEW b \in Int, NEW c \in Int, b <= c, Ascends(s, b)
    PROVE  Ascends(s, c)
  <1>1. ASSUME NEW i \in DOMAIN s PROVE s[i].slot \in Nat
    <2>1. s[i] \in Status
      BY LenProperties, ElementOfSeq
    <2>2. QED
      BY <2>1, SlotsAreNat DEF Status
  <1>2. QED
    BY <1>1 DEF Ascends

LEMMA RestFacts ==
    ASSUME NEW S, NEW s \in Seq(S), NEW k \in Nat
    PROVE  LET r == SubSeq(s, k + 1, Len(s))
           IN  /\ DOMAIN r = 1 .. Len(r)
               /\ \A i \in DOMAIN r : i \in Nat \ {0} /\ k + i \in DOMAIN s /\ r[i] = s[k + i]
  <1>1. Len(s) \in Nat /\ DOMAIN s = 1 .. Len(s)
    BY LenProperties
  <1>2. \A i \in k + 1 .. Len(s) : s[i] \in S
    BY <1>1, ElementOfSeq
  <1>3. ASSUME NEW r, r = SubSeq(s, k + 1, Len(s))
        PROVE  /\ DOMAIN r = 1 .. Len(r)
               /\ \A i \in DOMAIN r : i \in Nat \ {0} /\ k + i \in DOMAIN s /\ r[i] = s[k + i]
    <2>1. /\ r \in Seq(S)
          /\ Len(r) = IF k + 1 <= Len(s) THEN Len(s) - (k + 1) + 1 ELSE 0
          /\ \A i \in 1 .. Len(s) - (k + 1) + 1 : r[i] = s[k + 1 + i - 1]
      BY <1>1, <1>2, <1>3, SubSeqProperties
    <2>2. DOMAIN r = 1 .. Len(r)
      BY <2>1, LenProperties
    <2>3. ASSUME NEW i \in DOMAIN r
          PROVE  i \in Nat \ {0} /\ k + i \in DOMAIN s /\ r[i] = s[k + i]
      <3> DEFINE n == Len(s)
                 m == Len(r)
      <3>1. i \in Nat /\ 1 <= i /\ i <= n - k
        <4>1. n \in Nat /\ m = (IF k + 1 <= n THEN n - (k + 1) + 1 ELSE 0) /\ i \in 1 .. m
          BY <1>1, <2>1, <2>2, <2>3
        <4> HIDE DEF n, m
        <4>2. QED
          BY <4>1
      <3>2. k + 1 + i - 1 = k + i /\ i \in 1 .. Len(s) - (k + 1) + 1
        BY <1>1, <3>1
      <3>3. r[i] = s[k + i]
        BY <2>1, <3>2
      <3>4. QED
        BY <1>1, <3>1, <3>3
    <2>4. QED
      BY <2>2, <2>3
  <1>4. QED
    BY <1>3

LEMMA AscendsRest ==
    ASSUME NEW s \in Seq(Status), NEW b \in Int, NEW k \in Nat, Ascends(s, b)
    PROVE  Ascends(SubSeq(s, k + 1, Len(s)), b)
  <1> DEFINE r == SubSeq(s, k + 1, Len(s))
  <1>1. /\ DOMAIN r = 1 .. Len(r)
        /\ \A i \in DOMAIN r : i \in Nat \ {0} /\ k + i \in DOMAIN s /\ r[i] = s[k + i]
    BY RestFacts
  <1> HIDE DEF r
  <1>2. SUFFICES ASSUME NEW i \in DOMAIN r
                 PROVE  r[i].slot <= b /\ \A j \in 1 .. i - 1 : r[j].slot < r[i].slot
    BY DEF Ascends, r
  <1>3. i \in Nat \ {0} /\ k + i \in DOMAIN s /\ r[i] = s[k + i]
    BY <1>1
  <1>4. r[i].slot <= b /\ \A j \in 1 .. k + i - 1 : s[j].slot < r[i].slot
    BY <1>3 DEF Ascends
  <1>5. ASSUME NEW j \in 1 .. i - 1
        PROVE  r[j].slot < r[i].slot
    <2>1. j \in DOMAIN r
      BY <1>1, <1>3
    <2>2. r[j] = s[k + j] /\ k + j \in 1 .. k + i - 1
      BY <1>1, <1>3, <2>1
    <2>3. QED
      BY <1>4, <2>2
  <1>6. QED
    BY <1>4, <1>5

LEMMA AscendsAppend ==
    ASSUME NEW s \in Seq(Status), NEW b \in Int, NEW x \in Status, x.slot = b,
           Ascends(s, b - 1)
    PROVE  Ascends(Append(s, x), b)
  <1> DEFINE t == Append(s, x)
  <1>1. Len(s) \in Nat /\ DOMAIN s = 1 .. Len(s)
    BY LenProperties
  <1>2. /\ t \in Seq(Status) /\ Len(t) = Len(s) + 1
        /\ \A i \in 1 .. Len(s) : t[i] = s[i]
        /\ t[Len(s) + 1] = x
    BY AppendProperties
  <1>3. DOMAIN t = 1 .. Len(s) + 1
    BY <1>1, <1>2, LenProperties
  <1>4. \A i \in 1 .. Len(s) : s[i].slot \in Nat /\ s[i].slot <= b - 1
    <2>1. \A i \in 1 .. Len(s) : s[i] \in Status
      BY ElementOfSeq
    <2>2. QED
      BY <1>1, <2>1, SlotsAreNat DEF Ascends, Status
  <1> HIDE DEF t
  <1>5. SUFFICES ASSUME NEW i \in DOMAIN t
                 PROVE  t[i].slot <= b /\ \A j \in 1 .. i - 1 : t[j].slot < t[i].slot
    BY DEF Ascends, t
  <1>6. CASE i <= Len(s)
    <2>1. i \in DOMAIN s /\ t[i] = s[i]
      BY <1>1, <1>2, <1>3, <1>6
    <2>2. \A j \in 1 .. i - 1 : t[j] = s[j]
      BY <1>1, <1>2, <1>6
    <2>3. QED
      BY <1>1, <1>4, <2>1, <2>2 DEF Ascends
  <1>7. CASE i = Len(s) + 1
    BY <1>1, <1>2, <1>4, <1>7
  <1>8. QED
    BY <1>1, <1>3, <1>6, <1>7

\* A step that stores no status and loads none, and does not begin to announce.
LEMMA QuietAscend ==
    ASSUME TypeOK, AscendInv, TypeOK', fin <= fin', UNCHANGED <<rss, lastFU>>,
           gpc' # "storeRss" \/ (gpc' = gpc /\ gsnap' = gsnap),
           pc' # "storeStatus" \/ (pc' = pc /\ rsnap' = rsnap /\ rs' = rs),
           Announcing' => Announcing /\ upd' = upd
    PROVE  AscendInv'
  <1>1. fin' \in Nat /\ fin \in Nat /\ lastFU \in Nat /\ Bound \in Int
    BY SlotNumbers, SlotsAreNat DEF TypeOK, ChainTypeOK
  <1>2. Bound' \in Int /\ Bound <= Bound'
    BY <1>1 DEF Bound
  <1>3. lastFU' <= fin'
    BY <1>1 DEF AscendInv
  <1>4. Ascends(rss', Bound')
    BY <1>1, <1>2, AscendsHigher DEF AscendInv, TypeOK, GatheredOK
  <1>5. gpc' = "storeRss" => Ascends(gsnap', Bound')
    BY <1>1, <1>2, AscendsHigher DEF AscendInv, TypeOK, ClearOK
  <1>6. pc' = "storeStatus" => Ascends(rsnap', Bound') /\ rs'.slot = lastFU'
    BY <1>1, <1>2, AscendsHigher DEF AscendInv, TypeOK, HandlerOK
  <1>7. Announcing' => upd'.f = lastFU'
    BY DEF AscendInv
  <1>8. QED
    BY <1>3, <1>4, <1>5, <1>6, <1>7 DEF AscendInv, Ascends

\* The receiver that starts again has no status.
LEMMA StartAscend ==
    ASSUME NEW st, StartState(st), fin' \in Nat
    PROVE  AscendInv'
  BY DEF StartState, AscendInv, Ascends, Announcing, Bound

LEMMA HandlerAscend == TypeOK /\ AscendInv /\ TypeOK' /\ Handler => AscendInv'
  <1> SUFFICES ASSUME TypeOK, AscendInv, TypeOK', Handler PROVE AscendInv'
    OBVIOUS
  <1>0. fin \in Nat /\ fin' \in Nat /\ lastFU \in Nat
    BY SlotNumbers, SlotsAreNat DEF TypeOK, ChainTypeOK
  <1>1. ASSUME NEW h \in OptimisticUpdates, FirstUpdate(h) \/ LaterUpdate(h) PROVE AscendInv'
    <2>1. UNCHANGED <<fin, rss, lastFU, gpc, gsnap>> /\ pc' \in {"undelivered", "header"}
      BY <1>1 DEF FirstUpdate, LaterUpdate, chainVars, clearVars
    <2>2. QED
      BY <1>0, <2>1, QuietAscend DEF Announcing
  <1>2. CASE StoreUndelivered \/ GatherFromHeader \/ StoreGathered
    <2>1. UNCHANGED <<fin, rss, lastFU, gpc, gsnap>> /\ pc' \in {"header", "append", "idle"}
      BY <1>2 DEF StoreUndelivered, GatherFromHeader, StoreGathered, Return, chainVars, clearVars
    <2>2. QED
      BY <1>0, <2>1, QuietAscend DEF Announcing
  <1>3. CASE RangeStep \/ RangeMisses \/ RangeDone
    <2>1. UNCHANGED <<fin, rss, lastFU, gpc, gsnap, rsnap, rs, upd>>
      BY <1>3 DEF RangeStep, RangeMisses, RangeDone, chainVars, clearVars
    <2>2. Announcing' => Announcing
      BY <1>3 DEF RangeStep, RangeMisses, RangeDone, Searching, Announcing
    <2>3. pc' # "storeStatus"
      BY <1>3 DEF RangeStep, RangeMisses, RangeDone, Searching
    <2>4. QED
      BY <1>0, <2>1, <2>2, <2>3, QuietAscend
  <1>4. CASE RangeFails
    BY <1>0, <1>4, QuietAscend DEF RangeFails, Return, Announcing, chainVars, clearVars
  <1>5. CASE RangePanics
    BY <1>0, <1>5, StartAscend DEF RangePanics, Panic
  <1>6. ASSUME NEW a \in Attesting, FinalityUpdate(a) PROVE AscendInv'
    <2>1. /\ pc = "idle" /\ lastFU # fin /\ lastFU' = fin /\ upd'.f = fin /\ pc' = "validate"
          /\ UNCHANGED <<fin, rss, gpc, gsnap>>
      BY <1>6 DEF FinalityUpdate, AlreadyProcessed, chainVars, clearVars
    <2>2. Bound \in Int /\ Bound' \in Int /\ Bound <= Bound'
      BY <1>0, <2>1 DEF Bound, Announcing, AscendInv
    <2>3. Ascends(rss', Bound')
      BY <2>1, <2>2, AscendsHigher DEF AscendInv, TypeOK, GatheredOK
    <2>4. gpc' = "storeRss" => Ascends(gsnap', Bound')
      BY <2>1, <2>2, AscendsHigher DEF AscendInv, TypeOK, ClearOK
    <2>5. QED
      BY <1>0, <2>1, <2>3, <2>4 DEF AscendInv, Ascends
  <1>7. CASE Validate \/ StoreRebuilt
    <2>1. /\ UNCHANGED <<fin, rss, lastFU, gpc, gsnap, rsnap, rs, upd>>
          /\ pc' \in {"announce", "rebuild"} /\ pc \in {"validate", "storeRebuilt"}
      BY <1>7 DEF Validate, StoreRebuilt, chainVars, clearVars
    <2>2. QED
      BY <1>0, <2>1, QuietAscend DEF Announcing
  <1>8. CASE MakeStatus
    <2>1. /\ pc = "announce" /\ pc' = "storeStatus" /\ rsnap' = rss /\ rs'.slot = upd.f
          /\ UNCHANGED <<fin, rss, lastFU, gpc, gsnap, upd>>
      BY <1>8 DEF MakeStatus, chainVars, clearVars
    <2>2. Announcing /\ Announcing'
      BY <2>1 DEF Announcing
    <2>3. QED
      BY <2>1, <2>2 DEF AscendInv, Bound, Ascends
  <1>9. CASE StoreStatus
    <2>1. /\ pc = "storeStatus" /\ pc' = "send" /\ rss' = Append(rsnap, rs)
          /\ UNCHANGED <<fin, lastFU, gpc, gsnap>>
      BY <1>9 DEF StoreStatus, chainVars, clearVars
    <2>2. Bound = lastFU - 1 /\ Bound' = lastFU /\ ~Announcing'
      BY <2>1 DEF Bound, Announcing
    <2>3. Ascends(rss', Bound')
      BY <1>0, <2>1, <2>2, AscendsAppend DEF AscendInv, TypeOK, HandlerOK
    <2>4. gpc' = "storeRss" => Ascends(gsnap', Bound')
      BY <1>0, <2>1, <2>2, AscendsHigher DEF AscendInv, TypeOK, ClearOK
    <2>5. QED
      BY <2>1, <2>2, <2>3, <2>4 DEF AscendInv, Ascends
  <1>10. QED
    BY <1>1, <1>2, <1>3, <1>4, <1>5, <1>6, <1>7, <1>8, <1>9 DEF Handler

LEMMA ClearAscend == TypeOK /\ AscendInv /\ TypeOK' /\ ClearData => AscendInv'
  <1> SUFFICES ASSUME TypeOK, AscendInv, TypeOK', ClearData PROVE AscendInv'
    OBVIOUS
  <1>0. fin \in Nat /\ fin' \in Nat /\ Bound \in Int
    BY SlotNumbers, SlotsAreNat DEF TypeOK, ChainTypeOK
  <1>1. CASE Clear \/ ScanMps \/ LoadMps \/ StoreMps
    <2>1. UNCHANGED <<fin, rss, lastFU, pc, rsnap, rs, upd>> /\ gpc' # "storeRss"
      BY <1>1 DEF Clear, ScanMps, LoadMps, StoreMps, chainVars, handlerVars
    <2>2. QED
      BY <1>0, <2>1, QuietAscend DEF Announcing
  <1>2. CASE LoadRss
    <2>1. /\ gsnap' = SubSeq(rss, gi + 1, Len(rss))
          /\ UNCHANGED <<fin, rss, lastFU, pc, rsnap, rs, upd>>
      BY <1>2 DEF LoadRss, chainVars, handlerVars
    <2>2. Ascends(gsnap', Bound')
      BY <1>0, <2>1, AscendsRest DEF AscendInv, TypeOK, GatheredOK, ClearOK, Bound, Announcing
    <2>3. QED
      BY <2>1, <2>2 DEF AscendInv, Ascends, Bound, Announcing
  <1>3. CASE StoreRss
    <2>1. /\ gpc = "storeRss" /\ rss' = gsnap /\ gpc' = "mps"
          /\ UNCHANGED <<fin, lastFU, pc, rsnap, rs, upd>>
      BY <1>3 DEF StoreRss, chainVars, handlerVars
    <2>2. QED
      BY <2>1 DEF AscendInv, Ascends, Bound, Announcing
  <1>4. CASE ClearPanics
    BY <1>0, <1>4, StartAscend DEF ClearPanics, Panic
  <1>5. QED
    BY <1>1, <1>2, <1>3, <1>4 DEF ClearData

LEMMA NextAscend == TypeOK /\ AscendInv /\ TypeOK' /\ [Next]_vars => AscendInv'
  <1> SUFFICES ASSUME TypeOK, AscendInv, TypeOK', [Next]_vars PROVE AscendInv'
    OBVIOUS
  <1>0. fin \in Nat /\ fin' \in Nat
    BY SlotNumbers, SlotsAreNat DEF TypeOK, ChainTypeOK
  <1>1. CASE Chain
    <2>1. fin <= fin'
      BY <1>1, ChainNextType DEF Chain, TypeOK
    <2>2. UNCHANGED <<rss, lastFU, pc, rsnap, rs, upd, gpc, gsnap>>
      BY <1>1 DEF Chain, handlerVars, clearVars
    <2>3. QED
      BY <2>1, <2>2, QuietAscend DEF Announcing
  <1>2. CASE Link \/ RpcFails
    <2>1. UNCHANGED <<fin, rss, lastFU, gpc, gsnap>>
      BY <1>2 DEF Link, Consume, RelayBlockUpdate, RefuseBlockUpdate, RelayMessageProof,
                  Execute, RpcFails,
                  chainVars, clearVars
    <2>2. pc' = "idle" \/ UNCHANGED <<pc, rsnap, rs, upd>>
      BY <1>2 DEF Link, Consume, RelayBlockUpdate, RefuseBlockUpdate, RelayMessageProof,
                  Execute, RpcFails,
                  Return, handlerVars
    <2>3. QED
      BY <1>0, <2>1, <2>2, QuietAscend DEF Announcing
  <1>3. CASE Restart \/ FaultPanics
    BY <1>0, <1>3, StartAscend DEF Restart, FaultPanics
  <1>4. CASE UNCHANGED vars
    BY <1>0, <1>4, QuietAscend DEF vars, chainVars, handlerVars, clearVars, Announcing
  <1>5. QED
    BY <1>1, <1>2, <1>3, <1>4, HandlerAscend, ClearAscend DEF Next

\* Statuses wait for the link in the order of their finalized slots, each slot
\* once and none before it is final, though clearData and the event handler store
\* slices they loaded before (Monitoring, clearData), for every number of
\* restarts, reorganisations and statuses cleared.
THEOREM StatusesAscend == Spec => []RssAscend
  <1>1. Init => AscendInv
    BY SlotsAreNat DEF Init, ChainInit, AscendInv, Ascends, Announcing, Bound
  <1>2. TypeOK /\ AscendInv => RssAscend
    <2> SUFFICES ASSUME TypeOK, AscendInv, NEW i \in DOMAIN rss
                 PROVE  rss[i].slot <= fin /\ \A j \in 1 .. i - 1 : rss[j].slot < rss[i].slot
      BY DEF RssAscend
    <2>1. rss[i].slot <= Bound /\ Bound <= lastFU /\ lastFU <= fin
      BY SlotNumbers DEF AscendInv, Ascends, Bound
    <2>2. QED
      BY <2>1, SlotNumbers DEF AscendInv, Ascends
  <1>3. Spec => [](TypeOK /\ AscendInv)
    BY <1>1, InitTyped, NextTyped, NextAscend, PTL DEF Spec
  <1>4. QED
    BY <1>2, <1>3, PTL

------------------------------------------------------------------------------
(* The link never runs ahead of what is final *)

\* The destination is behind what the link has relayed, the link behind the
\* finalized slot, and neither has a message its verified slot does not.
LinkInv ==
    /\ dst.height <= bls.height /\ bls.height <= fin
    /\ dst.rx <= bls.rx
    /\ bls.rx <= LastMsg(bls.height)
    /\ dst.rx <= LastMsg(dst.height)

\* The chain's messages are numbers, and a later slot has no fewer of them.
LEMMA FinalNumbers ==
    ASSUME TypeOK, ChainOrder
    PROVE  /\ fin \in FirstSlot .. head /\ fin \in Nat /\ FirstSlot \in Nat /\ head \in Nat
           /\ dst.height \in Nat /\ FirstSlot <= dst.height
           /\ bls.height \in Nat /\ FirstSlot <= bls.height
           /\ dst.rx \in Nat /\ bls.rx \in Nat
           /\ \A s \in FirstSlot .. head : LastMsg(s) \in Seqs
           /\ \A s, t \in FirstSlot .. head : s <= t => LastMsg(s) <= LastMsg(t)
  <1>1. /\ head \in Slots /\ fin \in Slots
        /\ dst.height \in Slots /\ bls.height \in Slots /\ dst.rx \in Seqs /\ bls.rx \in Seqs
    BY DEF TypeOK, ChainTypeOK, LinkStatus
  <1>2. \A s \in FirstSlot .. head : LastMsg(s) \in Seqs
    BY SlotType DEF TypeOK
  <1>3. QED
    BY <1>1, <1>2, ChainAssumption DEF Slots, ChainOrder, Ordered, LastMsg, Seqs

\* Steps that are neither the chain's nor one of the link's own.
LEMMA OtherSteps ==
    ASSUME Handler \/ ClearData \/ Consume \/ RpcFails \/ FaultPanics \/ Restart
    PROVE  UNCHANGED <<chain, head, fin, missed, reorgs, orphans>> /\ dst' = dst
           /\ bls' \in {bls, dst}
  <1>1. CASE \E h \in OptimisticUpdates : FirstUpdate(h) \/ LaterUpdate(h)
    BY <1>1 DEF FirstUpdate, LaterUpdate, chainVars, linkVars
  <1>2. CASE StoreUndelivered \/ GatherFromHeader \/ StoreGathered
    BY <1>2 DEF StoreUndelivered, GatherFromHeader, StoreGathered, chainVars, linkVars
  <1>3. CASE RangeStep \/ RangeMisses \/ RangeFails \/ RangePanics \/ RangeDone
    BY <1>3 DEF RangeStep, RangeMisses, RangeFails, RangePanics, RangeDone, Panic, StartState,
                chainVars, linkVars
  <1>4. CASE \E a \in Attesting : FinalityUpdate(a)
    BY <1>4 DEF FinalityUpdate, chainVars, linkVars
  <1>5. CASE Validate \/ StoreRebuilt \/ MakeStatus \/ StoreStatus
    BY <1>5 DEF Validate, StoreRebuilt, MakeStatus, StoreStatus, chainVars, linkVars
  <1>6. CASE ClearData
    BY <1>6 DEF ClearData, Clear, LoadRss, StoreRss, ScanMps, LoadMps, StoreMps, ClearPanics,
                Panic, StartState, chainVars, linkVars
  <1>7. CASE Consume \/ RpcFails \/ FaultPanics \/ Restart
    BY <1>7 DEF Consume, RpcFails, FaultPanics, Restart, StartState, chainVars, linkVars
  <1>8. QED
    BY <1>1, <1>2, <1>3, <1>4, <1>5, <1>6, <1>7 DEF Handler

\* The link relays a block update: the last status of rss is above what it relayed
\* and not above the finalized slot.
LEMMA RelayBlockKeeps ==
    ASSUME TypeOK, ChainOrder, AscendInv, LinkInv, RelayBlockUpdate
    PROVE  /\ LinkInv'
           /\ UNCHANGED <<chain, head, fin, dst>>
  <1>1. /\ rss # <<>> /\ bls.height < rss[Len(rss)].slot
        /\ bls' = [bls EXCEPT !.height = rss[Len(rss)].slot]
        /\ UNCHANGED <<chain, head, fin, dst>>
    BY DEF RelayBlockUpdate, chainVars
  <1>2. rss \in Seq(Status) /\ Len(rss) \in DOMAIN rss
    <2>1. rss \in Seq(Status)
      BY DEF TypeOK, GatheredOK
    <2>2. QED
      BY <1>1, <2>1, EmptySeq, LenProperties
  <1>3. rss[Len(rss)].slot \in Nat /\ rss[Len(rss)].slot <= fin
    BY <1>2, SlotNumbers DEF AscendInv, Ascends, Bound
  <1>4. /\ bls'.height = rss[Len(rss)].slot /\ bls'.rx = bls.rx
    BY <1>1 DEF TypeOK, LinkStatus
  <1>5. bls'.rx <= LastMsg(bls'.height)
    <2>1. LastMsg(bls.height) <= LastMsg(bls'.height)
      BY <1>1, <1>3, <1>4, FinalNumbers
    <2>2. QED
      BY <1>1, <1>3, <1>4, <2>1, FinalNumbers DEF LinkInv, Seqs
  <1>6. LastMsg(bls.height)' = chain[bls'.height].tx
    BY <1>1 DEF LastMsg
  <1>7. QED
    BY <1>1, <1>3, <1>4, <1>5, <1>6, FinalNumbers DEF LinkInv, LastMsg

\* The link relays message proofs: they hold the next message, and none that the
\* relayed slot does not have.
LEMMA RelayProofKeeps ==
    ASSUME TypeOK, ChainOrder, LinkInv, RelayMessageProof
    PROVE  /\ LinkInv'
           /\ UNCHANGED <<chain, head, fin, dst>>
  <1>1. UNCHANGED <<chain, head, fin, dst>>
    BY DEF RelayMessageProof, chainVars
  <1>2. PICK i \in ProofsFor(bls.rx + 1) :
           /\ mps[i].slot <= bls.height
           /\ Provable(mps[i])
           /\ bls' = [bls EXCEPT !.rx = mps[i].to, !.last = mps[i].slot]
    BY DEF RelayMessageProof
  <1>3. i \in DOMAIN mps /\ Holds(mps[i], bls.rx + 1)
    BY <1>2 DEF ProofsFor
  <1>4. mps[i] \in MsgProof
    BY <1>3, LenProperties, ElementOfSeq DEF TypeOK, GatheredOK
  <1>5. mps[i].slot \in FirstSlot .. head /\ mps[i].to \in Nat /\ mps[i].from \in Nat
    BY <1>2, <1>4, FinalNumbers, ChainAssumption DEF MsgProof, Slots, Provable
  <1>6. bls'.rx = mps[i].to /\ bls'.height = bls.height
    BY <1>2 DEF TypeOK, LinkStatus
  <1>7. bls.rx < bls'.rx
    BY <1>3, <1>5, <1>6, FinalNumbers DEF Holds
  <1>8. bls'.rx <= LastMsg(bls.height)
    <2>1. mps[i].to <= LastMsg(mps[i].slot)
      BY <1>2 DEF Provable
    <2>2. LastMsg(mps[i].slot) <= LastMsg(bls.height)
      BY <1>2, <1>5, FinalNumbers DEF LinkInv
    <2>3. QED
      BY <1>5, <1>6, <2>1, <2>2, FinalNumbers DEF LinkInv, Seqs
  <1>9. dst.height <= bls.height /\ bls.height <= fin /\ dst.rx <= bls.rx
        /\ dst.rx <= LastMsg(dst.height)
    BY DEF LinkInv
  <1>10. dst.rx <= bls'.rx
    BY <1>5, <1>6, <1>7, <1>9, FinalNumbers
  <1>11. bls'.rx <= chain[bls.height].tx /\ dst.rx <= chain[dst.height].tx
    BY <1>8, <1>9 DEF LastMsg
  <1>12. LinkInv'
    BY <1>1, <1>6, <1>9, <1>10, <1>11 DEF LinkInv, LastMsg
  <1>13. QED
    BY <1>1, <1>12

LEMMA NextLink ==
    TypeOK /\ AscendInv /\ ChainOrder /\ LinkInv /\ [Next]_vars => ChainOrder' /\ LinkInv'
  <1> SUFFICES ASSUME TypeOK, AscendInv, ChainOrder, LinkInv, [Next]_vars
               PROVE  ChainOrder' /\ LinkInv'
    OBVIOUS
  <1>1. ASSUME UNCHANGED <<chain, head, fin, reorgs, orphans>> PROVE ChainOrder'
    BY <1>1 DEF ChainOrder, Ordered
  <1>2. CASE Chain
    <2>1. /\ ChainOrder' /\ fin <= fin'
          /\ \A s \in FirstSlot .. fin : chain'[s] = chain[s]
      BY <1>2, ChainNextOrder DEF Chain, TypeOK
    <2>2. UNCHANGED <<dst, bls>>
      BY <1>2 DEF Chain, linkVars
    <2>3. fin' \in Nat
      BY <1>2, ChainNextType, SlotsAreNat DEF Chain, TypeOK, ChainTypeOK
    <2>4. bls.height \in FirstSlot .. fin /\ dst.height \in FirstSlot .. fin
      BY FinalNumbers DEF LinkInv
    <2>5. QED
      BY <2>1, <2>2, <2>3, <2>4, FinalNumbers DEF LinkInv, LastMsg
  <1>3. CASE Handler \/ ClearData \/ Consume \/ RpcFails \/ FaultPanics \/ Restart
    <2>1. UNCHANGED <<chain, head, fin, missed, reorgs, orphans>> /\ dst' = dst
          /\ bls' \in {bls, dst}
      BY <1>3, OtherSteps
    <2>2. QED
      BY <1>1, <2>1, FinalNumbers DEF LinkInv, LastMsg
  <1>4. CASE RelayBlockUpdate
    BY <1>1, <1>4, RelayBlockKeeps DEF RelayBlockUpdate, chainVars
  <1>5. CASE RelayMessageProof
    BY <1>1, <1>5, RelayProofKeeps DEF RelayMessageProof, chainVars
  <1>6. CASE RefuseBlockUpdate \/ Execute
    BY <1>1, <1>6, FinalNumbers DEF RefuseBlockUpdate, Execute, LinkInv, LastMsg, chainVars
  <1>7. CASE UNCHANGED vars
    BY <1>1, <1>7 DEF vars, chainVars, linkVars, LinkInv, LastMsg
  <1>8. QED
    BY <1>2, <1>3, <1>4, <1>5, <1>6, <1>7 DEF Next, Link

LEMMA LinkAlways == Spec => [](TypeOK /\ AscendInv /\ ChainOrder /\ LinkInv)
  <1>1. Init => TypeOK /\ AscendInv /\ ChainOrder /\ LinkInv
    <2> SUFFICES ASSUME Init PROVE TypeOK /\ AscendInv /\ ChainOrder /\ LinkInv
      OBVIOUS
    <2>1. TypeOK /\ ChainOrder
      BY InitTyped, ChainInitOrder DEF Init
    <2>2. AscendInv
      BY SlotsAreNat DEF Init, ChainInit, AscendInv, Ascends, Announcing, Bound
    <2>3. fin = FirstSlot /\ dst = NoLinkStatus /\ bls = NoLinkStatus /\ LastMsg(FirstSlot) = 0
      BY <2>1 DEF Init, ChainInit, ChainOrder, LastMsg
    <2>4. LinkInv
      BY <2>3, ChainAssumption DEF LinkInv, NoLinkStatus
    <2>5. QED
      BY <2>1, <2>2, <2>4
  <1>2. QED
    BY <1>1, NextTyped, NextAscend, NextLink, PTL DEF Spec

\* What every step means for Delivery: a finalization, an execution, or nothing.
LEMMA DeliveryStep ==
    ASSUME TypeOK, ChainOrder, LinkInv, TypeOK', ChainOrder', LinkInv', [Next]_vars
    PROVE  [Delivered!Next]_<<LastMsg(fin), LastMsg(dst.height), dst.rx>>
  <1> USE DEF LastMsg
  <1>1. CASE Chain
    <2>1. /\ fin <= fin' /\ head <= head'
          /\ \A s \in FirstSlot .. fin : chain'[s] = chain[s]
      BY <1>1, ChainNextOrder DEF Chain, TypeOK
    <2>2. UNCHANGED dst
      BY <1>1 DEF Chain, linkVars
    <2>3. dst.height \in FirstSlot .. fin /\ fin \in FirstSlot .. fin
      BY FinalNumbers DEF LinkInv
    <2>4. chain'[fin] = chain[fin] /\ chain'[dst.height] = chain[dst.height]
      BY <2>1, <2>3
    <2>5. fin' \in FirstSlot .. head' /\ fin \in FirstSlot .. head' /\ fin' \in Slots
      <3>1. fin' \in Slots /\ head' \in Slots /\ fin' <= head'
        BY DEF TypeOK, ChainTypeOK, ChainOrder
      <3>2. fin \in Nat /\ FirstSlot <= fin
        BY FinalNumbers
      <3>3. QED
        BY <2>1, <3>1, <3>2, ChainAssumption DEF Slots
    <2>6. /\ chain'[fin].tx <= chain'[fin'].tx
          /\ chain'[fin'].tx \in Seqs
          /\ chain[fin].tx \in Seqs
      <3>1. chain'[fin].tx <= chain'[fin'].tx
        BY <2>1, <2>5 DEF ChainOrder, Ordered
      <3>2. chain'[fin'] \in Slot
        BY <2>5 DEF TypeOK, ChainTypeOK
      <3>3. QED
        BY <3>1, <3>2, FinalNumbers DEF Slot, Seqs
    <2>7. chain'[fin'].tx \in chain[fin].tx .. MaxTxSeq
      BY <2>4, <2>6, ChainAssumption DEF Seqs
    <2>8. Delivered!Finalize
      BY <2>2, <2>4, <2>7 DEF Delivered!Finalize
    <2>9. QED
      BY <2>8 DEF Delivered!Next
  <1>2. CASE Execute
    <2>1. dst' = bls /\ UNCHANGED <<chain, fin, bls>>
      BY <1>2 DEF Execute, chainVars
    <2>2. /\ chain[bls.height].tx \in chain[dst.height].tx .. chain[fin].tx
          /\ bls.rx \in dst.rx .. chain[bls.height].tx
      BY FinalNumbers DEF LinkInv, Seqs
    <2>3. Delivered!Execute
      BY <2>1, <2>2 DEF Delivered!Execute
    <2>4. QED
      BY <2>3 DEF Delivered!Next
  <1>3. CASE UNCHANGED <<chain, fin, dst>>
    BY <1>3
  <1>4. CASE Handler \/ ClearData \/ Consume \/ RpcFails \/ FaultPanics \/ Restart
    BY <1>3, <1>4, OtherSteps
  <1>5. CASE RelayBlockUpdate \/ RefuseBlockUpdate \/ RelayMessageProof \/ UNCHANGED vars
    BY <1>3, <1>5 DEF RelayBlockUpdate, RefuseBlockUpdate, RelayMessageProof, vars, chainVars,
                      linkVars
  <1>6. QED
    BY <1>1, <1>2, <1>4, <1>5 DEF Next, Link

\* Whatever was orphaned, rebuilt, cleared or lost in a crash, the destination
\* verifies only final blocks, receives only messages of verified ones and never
\* goes back (Monitoring, clearData, Start, BuildBlockUpdate, BuildMessageProof), for
\* every number of messages, reorganisations, restarts, faults and statuses cleared.
THEOREM ReceiverImplements == Spec => ImplementsDelivery
  <1>1. Init => Delivered!Init
    <2> SUFFICES ASSUME Init PROVE Delivered!Init
      OBVIOUS
    <2>1. fin = FirstSlot /\ dst = NoLinkStatus /\ LastMsg(FirstSlot) = 0
      BY ChainInitOrder DEF Init, ChainInit, ChainOrder, LastMsg
    <2>2. QED
      BY <2>1 DEF Delivered!Init, NoLinkStatus
  <1>2. Spec => [](TypeOK /\ AscendInv /\ ChainOrder /\ LinkInv)
    BY LinkAlways
  <1>3. QED
    BY <1>1, <1>2, DeliveryStep, PTL DEF Spec, ImplementsDelivery, Delivered!Spec
==============================================================================
