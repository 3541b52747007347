------------------------- MODULE MessageSearchProofs -------------------------
(***************************************************************************)
(* Proofs about MessageSearch: its types, that the proofs a search makes   *)
(* are of the blocks that hold their messages and hold every message once, *)
(* and that the calls find what the step of Receiver finds.                *)
(***************************************************************************)
EXTENDS MessageSearch, ChainProofs

------------------------------------------------------------------------------
(* Types *)

\* The calls stay inside the range and on the chain, whatever is reorganised.
CallInv ==
    /\ begun.fin \in FirstSlot .. fin /\ begun.seq \in Nat
    /\ begun.from \in FirstSlot + 1 .. begun.fin + 1
    /\ Calling => rg.toSlot <= head
    /\ pc = "from" => ask <= rg.toSlot
    /\ pc = "to" => ask <= rg.toSlot
    /\ pc = "probe" => low <= mid /\ mid <= high /\ high <= rg.toSlot /\ ask <= mid
    /\ pc \in {"probe", "header"} => hit.bn > 0 /\ hit.to >= rg.seq
    /\ pc = "header" => slot = 0 \/ slot \in FirstSlot .. head

CallTyped == TypeOK /\ ChainOrder /\ CallInv


\* What getBlockNum returns is typed, and is the number of a block unless it is 0.
LEMMA AnsweredType ==
    ASSUME TypeOK, Answered
    PROVE  /\ AnsweredNum \in Nat
           /\ AnsweredNum > 0 =>
                /\ ask \in FirstSlot .. head /\ IsBlock(ask)
                /\ AnsweredNum = chain[ask].bn
  <1>1. ask \in Nat /\ FirstSlot \in Nat /\ head \in Nat
    BY ChainAssumption DEF TypeOK, ChainTypeOK, Slots
  <1>2. CASE ask < FirstSlot
    BY <1>2 DEF AnsweredNum
  <1>3. CASE ~(ask < FirstSlot)
    <2>1. ask \in FirstSlot .. head /\ IsBlock(ask) /\ AnsweredNum = chain[ask].bn
      BY <1>1, <1>3 DEF Answered, AnsweredNum
    <2>2. QED
      BY <2>1, SlotType DEF TypeOK
  <1>4. QED
    BY <1>2, <1>3

\* A block of a chunk that holds the next message sends messages, hence is not the
\* first one.
LEMMA MatchFields ==
    ASSUME TypeOK, ChainOrder, NEW s \in Matches
    PROVE  /\ s \in FirstSlot .. head /\ s # FirstSlot /\ IsBlock(s)
           /\ chain[s].bn \in Nat /\ chain[s].bn > 0 /\ LastMsg(s) \in Nat
           /\ bn <= chain[s].bn /\ chain[s].bn <= ChunkEnd
           /\ FirstMsg(s) <= rg.seq /\ rg.seq <= LastMsg(s)
  <1>1. /\ s \in FirstSlot .. head /\ IsBlock(s)
        /\ bn <= chain[s].bn /\ chain[s].bn <= ChunkEnd
        /\ FirstMsg(s) <= rg.seq /\ rg.seq <= LastMsg(s)
    BY DEF Matches
  <1>2. chain[s].bn \in Nat /\ LastMsg(s) \in Nat /\ FirstMsg(s) \in Nat \ {0} /\ rg.seq \in Nat
    BY <1>1, SlotType DEF TypeOK, Seqs
  <1>3. s # FirstSlot
    BY <1>1, <1>2 DEF ChainOrder, LastMsg
  <1>4. chain[s].bn > 0
    <2>1. FirstSlot \in FirstSlot .. head /\ FirstSlot < s
      BY <1>1, <1>3, ChainAssumption DEF TypeOK, ChainTypeOK, Slots
    <2>2. chain[FirstSlot].bn \in Nat
      BY <2>1, SlotType DEF TypeOK
    <2>3. chain[FirstSlot].bn < chain[s].bn
      <3>1. FirstSlot <= s
        BY <1>1, ChainAssumption
      <3>2. QED
        BY <1>1, <2>1, <3>1, Zenon DEF ChainOrder, Ordered, IsBlock
    <2>4. QED
      BY <1>2, <2>2, <2>3
  <1>5. QED
    BY <1>1, <1>2, <1>3, <1>4

\* A probe looks at a slot between the two, or ends with slot 0.
LEMMA ProbeStep ==
    ASSUME NEW l \in Nat, NEW h \in Nat, Probe(l, h)
    PROVE  /\ low' = l /\ high' = h
           /\ \/ /\ l <= h /\ pc' = "probe"
                 /\ mid' \in Nat /\ ask' = mid' /\ slot' = slot /\ l <= mid' /\ mid' <= h
              \/ /\ h < l /\ pc' = "header"
                 /\ slot' = 0 /\ mid' = mid /\ ask' = ask
  <1>1. l <= h => l <= (l + h) \div 2 /\ (l + h) \div 2 <= h /\ (l + h) \div 2 \in Nat
    OBVIOUS
  <1>2. CASE l <= h
    BY <1>1, <1>2 DEF Probe
  <1>3. CASE ~(l <= h)
    BY <1>3 DEF Probe
  <1>4. QED
    BY <1>2, <1>3

\* A reorganisation leaves the newest slot and what is final.
LEMMA ForkStep ==
    ASSUME ChainTypeOK, ChainOrder, ChainNext, reorgs' # reorgs
    PROVE  /\ head' = head /\ fin' = fin /\ reorgs' # 0
           /\ \A s \in FirstSlot .. fin : chain'[s] = chain[s]
  <1>1. \E from \in Slots : Reorg(from)
    BY DEF ChainNext, NewBlock, MissSlot, Finalize
  <1>2. head' = head /\ fin' = fin /\ reorgs' = reorgs + 1
    BY <1>1 DEF Reorg
  <1>3. reorgs \in Nat
    BY ChainAssumption DEF ChainTypeOK
  <1>4. QED
    BY <1>2, <1>3, ChainNextOrder

LEMMA ChainStays ==
    ASSUME ChainTypeOK, ChainOrder, UNCHANGED chainVars
    PROVE  ChainTypeOK' /\ ChainOrder'
  BY DEF chainVars, ChainTypeOK, ChainOrder, Ordered, Versions

LEMMA InitTyped == Init => CallTyped
  <1> SUFFICES ASSUME Init PROVE CallTyped
    OBVIOUS
  <1>1. ChainTypeOK /\ ChainOrder /\ fin = FirstSlot /\ FirstSlot \in Nat /\ MaxSlot \in Nat
    BY ChainInitType, ChainInitOrder, ChainAssumption DEF Init, ChainInit
  <1>2. <<>> \in Seq([slot : Nat, ver : Versions, from : Nat, to : Nat])
    BY EmptySeq
  <1>3. TypeOK
    BY <1>1, <1>2 DEF Init, TypeOK, NoRange
  <1>4. CallInv
    <2>1. begun.from = FirstSlot + 1 /\ begun.fin = FirstSlot
      BY <1>1 DEF Init
    <2>2. QED
      BY <1>1, <2>1 DEF Init, CallInv, Calling, Asking
  <1>5. QED
    BY <1>1, <1>3, <1>4 DEF CallTyped

\* Every call keeps the types and stays inside the range.
LEMMA StepTyped ==
    ASSUME CallTyped, Step
    PROVE  CallTyped'
  <1>1. TypeOK /\ ChainTypeOK /\ ChainOrder /\ CallInv
    BY DEF CallTyped, TypeOK
  <1>2. UNCHANGED <<chainVars, begun, faults>>
    BY DEF Step, AskBefore, AskFrom, AskTo, Scan, ScanFails, SearchEnd, ProbeFound,
           ProbeAbove, ProbeBelow, MakeProof, NoHeaderThere
  <1>3. ChainTypeOK' /\ ChainOrder'
    BY <1>1, <1>2, ChainStays
  <1>4. /\ head \in Nat /\ FirstSlot \in Nat \ {0} /\ MaxSlot \in Nat /\ head <= MaxSlot
        /\ MaxFilter \in Nat /\ fin \in Nat
    BY <1>1, ChainAssumption, SearchAssumption DEF ChainTypeOK, Slots
  <1>5. UNCHANGED <<head, fin, chain, begun>>
    BY <1>2 DEF chainVars
  <1>6. /\ rg \in [fbn : Nat, tbn : Nat, fSlot : Nat, toSlot : Nat, seq : Nat, toSeq : Nat]
        /\ ask \in 0 .. MaxSlot /\ bn \in Nat /\ hit \in [bn : Nat, to : Nat]
        /\ low \in Nat /\ high \in Nat /\ mid \in Nat /\ slot \in Nat
        /\ made \in Seq([slot : Nat, ver : Versions, from : Nat, to : Nat])
    BY <1>1 DEF TypeOK
  <1>7. /\ rg.fSlot \in Nat /\ rg.toSlot \in Nat /\ rg.seq \in Nat /\ rg.tbn \in Nat /\ rg.fbn \in Nat
        /\ hit.bn \in Nat /\ hit.to \in Nat
    BY <1>6
  <1>8. begun.fin \in FirstSlot .. fin /\ begun.seq \in Nat
    BY <1>1 DEF CallInv
  <1>9. Calling => rg.toSlot <= head
    BY <1>1 DEF CallInv
  <1>10. CASE AskBefore
    <2>1. Asking /\ ~(ask < FirstSlot) /\ ask' = ask - 1 /\ UNCHANGED <<pc, rg, bn, hit, low, high, mid, slot, made>>
      BY <1>10 DEF AskBefore, Answered
    <2>2. ask' \in 0 .. MaxSlot /\ ask' <= ask /\ ask \in Nat
      BY <1>4, <1>6, <2>1
    <2>3. TypeOK'
      BY <1>1, <1>2, <1>3, <1>6, <2>1, <2>2 DEF TypeOK
    <2>4. ask <= rg.toSlot => ask' <= rg.toSlot
      BY <1>7, <2>2
    <2>5. mid \in Nat /\ (ask <= mid => ask' <= mid)
      BY <1>6, <2>2
    <2>6. CallInv'
      BY <1>1, <1>5, <2>1, <2>4, <2>5 DEF CallInv, Calling, Asking
    <2>7. QED
      BY <1>3, <2>3, <2>6 DEF CallTyped
  <1>11. CASE AskFrom
    <2>1. /\ pc = "from" /\ Answered /\ rg' = [rg EXCEPT !.fbn = AnsweredNum] /\ ask' = rg.toSlot
          /\ pc' = "to" /\ UNCHANGED <<bn, hit, low, high, mid, slot, made>>
      BY <1>11 DEF AskFrom
    <2>2. AnsweredNum \in Nat
      BY <1>1, <2>1, AnsweredType
    <2>3. rg.toSlot <= head
      BY <1>9, <2>1 DEF Calling, Asking
    <2>4. ask' \in 0 .. MaxSlot
      BY <1>4, <1>7, <2>1, <2>3
    <2>5. /\ rg' \in [fbn : Nat, tbn : Nat, fSlot : Nat, toSlot : Nat, seq : Nat, toSeq : Nat]
          /\ rg'.toSlot = rg.toSlot
      BY <1>6, <2>1, <2>2
    <2>6. TypeOK'
      BY <1>3, <1>6, <2>1, <2>4, <2>5 DEF TypeOK, Versions
    <2>7. CallInv'
      BY <1>1, <1>5, <1>7, <2>1, <2>3, <2>5 DEF CallInv, Calling, Asking
    <2>8. QED
      BY <1>3, <2>6, <2>7 DEF CallTyped
  <1>12. CASE AskTo
    <2>1. /\ pc = "to" /\ Answered /\ rg' = [rg EXCEPT !.tbn = AnsweredNum] /\ bn' = rg.fbn
          /\ pc' = "scan" /\ UNCHANGED <<ask, hit, low, high, mid, slot, made>>
      BY <1>12 DEF AskTo
    <2>2. AnsweredNum \in Nat
      BY <1>1, <2>1, AnsweredType
    <2>3. rg.toSlot <= head
      BY <1>9, <2>1 DEF Calling, Asking
    <2>5. /\ rg' \in [fbn : Nat, tbn : Nat, fSlot : Nat, toSlot : Nat, seq : Nat, toSeq : Nat]
          /\ rg'.toSlot = rg.toSlot
      BY <1>6, <2>1, <2>2
    <2>6. TypeOK'
      BY <1>3, <1>6, <1>7, <2>1, <2>5 DEF TypeOK, Versions
    <2>7. CallInv'
      BY <1>1, <1>5, <2>1, <2>3, <2>5 DEF CallInv, Calling, Asking
    <2>8. QED
      BY <1>3, <2>6, <2>7 DEF CallTyped
  <1>13. ASSUME NEW l \in Nat, NEW h \in Nat, Probe(l, h), h <= rg.toSlot, rg.toSlot <= head,
                UNCHANGED <<rg, bn, made>>, hit' \in [bn : Nat, to : Nat], hit'.bn > 0, hit'.to >= rg.seq
         PROVE  CallTyped'
    <2>1. low' = l /\ high' = h
      BY <1>13, ProbeStep
    <2>2. CASE /\ l <= h /\ pc' = "probe"
               /\ mid' \in Nat /\ ask' = mid' /\ slot' = slot /\ l <= mid' /\ mid' <= h
      <3>1. ask' \in 0 .. MaxSlot
        BY <1>4, <1>7, <1>13, <2>2
      <3>2. TypeOK'
        BY <1>3, <1>6, <1>13, <2>1, <2>2, <3>1 DEF TypeOK, Versions
      <3>3. CallInv'
        BY <1>1, <1>5, <1>13, <2>1, <2>2 DEF CallInv, Calling, Asking
      <3>4. QED
        BY <1>3, <3>2, <3>3 DEF CallTyped
    <2>3. CASE /\ h < l /\ pc' = "header"
               /\ slot' = 0 /\ mid' = mid /\ ask' = ask
      <3>2. TypeOK'
        BY <1>3, <1>6, <1>13, <2>1, <2>3 DEF TypeOK, Versions
      <3>3. CallInv'
        BY <1>1, <1>5, <1>13, <2>1, <2>3 DEF CallInv, Calling, Asking
      <3>4. QED
        BY <1>3, <3>2, <3>3 DEF CallTyped
    <2>4. QED
      BY <1>13, <2>2, <2>3, ProbeStep
  <1>14. CASE Scan
    <2>1. pc = "scan" /\ bn < rg.tbn /\ UNCHANGED <<rg, made>>
      BY <1>14 DEF Scan
    <2>2. rg.toSlot <= head
      BY <1>9, <2>1 DEF Calling, Asking
    <2>3. CASE bn' = NextChunk /\ UNCHANGED <<pc, ask, hit, low, high, mid, slot>>
      <3>1. bn' \in Nat
        BY <1>4, <1>6, <1>7, <2>3 DEF NextChunk, ChunkEnd
      <3>2. TypeOK'
        BY <1>3, <1>6, <2>1, <2>3, <3>1 DEF TypeOK, Versions
      <3>3. CallInv'
        BY <1>1, <1>5, <2>1, <2>2, <2>3 DEF CallInv, Calling, Asking
      <3>4. QED
        BY <1>3, <3>2, <3>3 DEF CallTyped
    <2>4. ASSUME NEW s \in Matches, hit' = [bn |-> chain[s].bn, to |-> LastMsg(s)],
                 Probe(rg.fSlot, rg.toSlot), UNCHANGED bn
          PROVE  CallTyped'
      <3>1. /\ chain[s].bn \in Nat /\ chain[s].bn > 0 /\ LastMsg(s) \in Nat
            /\ rg.seq <= LastMsg(s)
        BY <1>1, MatchFields
      <3>2. hit' \in [bn : Nat, to : Nat] /\ hit'.bn > 0 /\ hit'.to >= rg.seq
        BY <1>7, <2>4, <3>1
      <3>3. rg.toSlot <= rg.toSlot
        BY <1>7
      <3>4. QED
        BY <1>7, <1>13, <2>1, <2>2, <2>4, <3>2, <3>3
    <2>5. QED
      BY <1>14, <2>3, <2>4 DEF Scan
  <1>15. CASE ScanFails \/ SearchEnd \/ NoHeaderThere
    <2>1. /\ pc' \in {"done", "notFound", "failed"}
          /\ UNCHANGED <<rg, ask, bn, hit, low, high, mid, slot, made>>
      BY <1>15 DEF ScanFails, SearchEnd, NoHeaderThere, searchVars
    <2>2. TypeOK'
      BY <1>3, <1>6, <2>1 DEF TypeOK, Versions
    <2>3. CallInv'
      BY <1>1, <1>5, <2>1 DEF CallInv, Calling, Asking
    <2>4. QED
      BY <1>3, <2>2, <2>3 DEF CallTyped
  <1>16. CASE ProbeFound
    <2>1. /\ pc = "probe" /\ Answered /\ AnsweredNum = hit.bn /\ slot' = ask /\ pc' = "header"
          /\ UNCHANGED <<rg, ask, bn, hit, low, high, mid, made>>
      BY <1>16 DEF ProbeFound, Wanted
    <2>2. hit.bn > 0 /\ hit.to >= rg.seq /\ rg.toSlot <= head
      BY <1>1, <1>9, <2>1 DEF CallInv, Calling, Asking
    <2>3. ask \in FirstSlot .. head
      BY <1>1, <2>1, <2>2, AnsweredType
    <2>4. TypeOK'
      BY <1>3, <1>6, <2>1 DEF TypeOK, Versions
    <2>5. CallInv'
      BY <1>1, <1>5, <2>1, <2>2, <2>3 DEF CallInv, Calling, Asking
    <2>6. QED
      BY <1>3, <2>4, <2>5 DEF CallTyped
  <1>17. CASE ProbeAbove
    <2>1. /\ pc = "probe" /\ Answered /\ AnsweredNum > hit.bn /\ Probe(low, ask - 1)
          /\ UNCHANGED <<rg, bn, hit, made>>
      BY <1>17 DEF ProbeAbove
    <2>2. /\ hit.bn > 0 /\ hit.to >= rg.seq /\ rg.toSlot <= head
          /\ ask <= mid /\ mid <= high /\ high <= rg.toSlot
      BY <1>1, <1>9, <2>1 DEF CallInv, Calling, Asking
    <2>3. AnsweredNum \in Nat /\ AnsweredNum > 0
      BY <1>1, <1>7, <2>1, <2>2, AnsweredType
    <2>4. ask \in FirstSlot .. head
      BY <1>1, <2>1, <2>3, AnsweredType
    <2>5. ask - 1 \in Nat /\ ask - 1 <= rg.toSlot
      BY <1>4, <1>6, <1>7, <2>2, <2>4
    <2>6. hit' \in [bn : Nat, to : Nat] /\ hit'.bn > 0 /\ hit'.to >= rg.seq
      BY <1>6, <2>1, <2>2
    <2>7. QED
      BY <1>6, <1>13, <2>1, <2>2, <2>5, <2>6
  <1>18. CASE ProbeBelow
    <2>1. /\ pc = "probe" /\ Probe(NextLow, high)
          /\ UNCHANGED <<rg, bn, hit, made>>
      BY <1>18 DEF ProbeBelow
    <2>2. /\ hit.bn > 0 /\ hit.to >= rg.seq /\ rg.toSlot <= head
          /\ high <= rg.toSlot
      BY <1>1, <1>9, <2>1 DEF CallInv, Calling, Asking
    <2>3. NextLow \in Nat
      BY <1>6 DEF NextLow
    <2>4. hit' \in [bn : Nat, to : Nat] /\ hit'.bn > 0 /\ hit'.to >= rg.seq
      BY <1>6, <2>1, <2>2
    <2>5. QED
      BY <1>6, <1>13, <2>1, <2>2, <2>3, <2>4
  <1>19. CASE MakeProof
    <2> DEFINE x == [slot |-> slot, ver |-> IF slot = 0 THEN 0 ELSE chain[slot].ver,
                     from |-> rg.seq, to |-> hit.to]
    <2>1. /\ pc = "header" /\ pc' = "scan" /\ made' = Append(made, x)
          /\ rg' = [rg EXCEPT !.seq = hit.to + 1, !.fbn = hit.bn + 1, !.fSlot = slot + 1]
          /\ bn' = hit.bn + 1
          /\ UNCHANGED <<ask, hit, low, high, mid, slot>>
      BY <1>19 DEF MakeProof
    <2>2. rg.toSlot <= head /\ (slot = 0 \/ slot \in FirstSlot .. head)
      BY <1>1, <1>9, <2>1 DEF CallInv, Calling, Asking
    <2>3. slot # 0 => chain[slot].ver \in Versions
      BY <1>1, <2>2, SlotType
    <2>4. 0 \in Versions
      BY ChainAssumption DEF Versions
    <2>5. x \in [slot : Nat, ver : Versions, from : Nat, to : Nat]
      BY <1>6, <1>7, <2>3, <2>4
    <2> HIDE DEF x
    <2>6. made' \in Seq([slot : Nat, ver : Versions, from : Nat, to : Nat])
      BY <1>6, <2>1, <2>5, AppendProperties
    <2>7. /\ rg' \in [fbn : Nat, tbn : Nat, fSlot : Nat, toSlot : Nat, seq : Nat, toSeq : Nat]
          /\ rg'.toSlot = rg.toSlot
      <3>1. hit.to + 1 \in Nat /\ hit.bn + 1 \in Nat /\ slot + 1 \in Nat
        BY <1>6, <1>7
      <3>2. QED
        BY <1>6, <2>1, <3>1
    <2>8. TypeOK'
      BY <1>3, <1>6, <1>7, <2>1, <2>6, <2>7 DEF TypeOK, Versions
    <2>9. CallInv'
      BY <1>1, <1>5, <2>1, <2>2, <2>7 DEF CallInv, Calling, Asking
    <2>10. QED
      BY <1>3, <2>8, <2>9 DEF CallTyped
  <1>20. QED
    BY <1>10, <1>11, <1>12, <1>14, <1>15, <1>16, <1>17, <1>18, <1>19 DEF Step

LEMMA BeginTyped ==
    ASSUME CallTyped, NEW from \in Slots, NEW to \in Slots, NEW seq \in 1 .. MaxTxSeq,
           Begin(from, seq, to)
    PROVE  CallTyped'
  <1> DEFINE r == [NoRange EXCEPT !.fSlot = from, !.toSlot = to, !.seq = seq, !.toSeq = TxSeq]
  <1>1. TypeOK /\ ChainTypeOK /\ ChainOrder /\ CallInv
    BY DEF CallTyped, TypeOK
  <1>2. /\ FirstSlot < from /\ from - 1 <= fin /\ from <= to /\ to <= head /\ rg' = r /\ ask' = from /\ pc' = "from"
        /\ begun' = [from |-> from, seq |-> seq, fin |-> fin]
        /\ UNCHANGED <<chainVars, bn, hit, low, high, mid, slot, made, faults>>
    BY DEF Begin
  <1>3. ChainTypeOK' /\ ChainOrder'
    BY <1>1, <1>2, ChainStays
  <1>4. /\ head \in FirstSlot .. head /\ fin \in FirstSlot .. fin /\ fin' = fin /\ head' = head
        /\ from \in Nat /\ to \in Nat /\ seq \in Nat /\ from \in 0 .. MaxSlot
    BY <1>1, <1>2, ChainAssumption DEF ChainTypeOK, Slots, chainVars
  <1>5. TxSeq \in Nat
    BY <1>1, <1>4, SlotType DEF TxSeq, Seqs
  <1>6. /\ r \in [fbn : Nat, tbn : Nat, fSlot : Nat, toSlot : Nat, seq : Nat, toSeq : Nat]
        /\ r.toSlot = to
    BY <1>4, <1>5 DEF NoRange
  <1> HIDE DEF r
  <1>7. TypeOK'
    BY <1>1, <1>2, <1>3, <1>4, <1>6 DEF TypeOK, Versions
  <1>8. CallInv'
    <2>1. from \in FirstSlot + 1 .. fin + 1
      BY <1>2, <1>4, ChainAssumption
    <2>2. QED
      BY <2>1, <1>2, <1>4, <1>6 DEF CallInv, Calling, Asking
  <1>9. QED
    BY <1>3, <1>7, <1>8 DEF CallTyped

LEMMA ChainTyped ==
    ASSUME CallTyped, Chain
    PROVE  CallTyped'
  <1>1. TypeOK /\ ChainTypeOK /\ ChainOrder /\ CallInv
    BY DEF CallTyped, TypeOK
  <1>2. /\ ChainNext /\ UNCHANGED <<pc, searchVars, begun, faults>>
        /\ pc = "idle" \/ (Calling /\ reorgs' # reorgs)
    BY DEF Chain
  <1>3. ChainTypeOK' /\ ChainOrder' /\ fin <= fin' /\ head <= head'
    BY <1>1, <1>2, ChainNextType, ChainNextOrder
  <1>4. /\ fin \in Nat /\ fin' \in Nat /\ FirstSlot \in Nat /\ head \in Nat /\ head' \in Nat
    BY <1>1, <1>3, ChainAssumption DEF ChainTypeOK, Slots
  <1>5. UNCHANGED <<rg, ask, bn, hit, low, high, mid, slot, made>>
    BY <1>2 DEF searchVars
  <1>6. TypeOK'
    BY <1>1, <1>2, <1>3, <1>5 DEF TypeOK, Versions
  <1>7. CallInv'
    <2>1. begun'.fin \in FirstSlot .. fin' /\ begun'.seq \in Nat
      BY <1>1, <1>2, <1>3, <1>4 DEF CallInv
    <2>2. rg.toSlot \in Nat /\ slot \in Nat
      BY <1>1 DEF TypeOK
    <2>3. Calling' => rg'.toSlot <= head'
      BY <1>1, <1>2, <1>3, <1>4, <1>5, <2>2 DEF CallInv, Calling, Asking
    <2>4. slot \in FirstSlot .. head => slot \in FirstSlot .. head'
      BY <1>3, <1>4, <2>2
    <2>5. QED
      BY <1>1, <1>2, <1>5, <2>1, <2>3, <2>4 DEF CallInv
  <1>8. QED
    BY <1>3, <1>6, <1>7 DEF CallTyped

LEMMA NextTyped == CallTyped /\ [Next]_vars => CallTyped'
  <1> SUFFICES ASSUME CallTyped, [Next]_vars PROVE CallTyped'
    OBVIOUS
  <1>1. CASE \E from, to \in Slots, seq \in 1 .. MaxTxSeq : Begin(from, seq, to)
    BY <1>1, BeginTyped
  <1>2. CASE Step
    BY <1>2, StepTyped
  <1>3. CASE CallFails
    <2>1. TypeOK /\ ChainTypeOK /\ ChainOrder /\ CallInv
      BY DEF CallTyped, TypeOK
    <2>2. /\ pc' = "failed" /\ UNCHANGED <<chainVars, begun>>
          /\ UNCHANGED <<rg, ask, bn, hit, low, high, mid, slot, made>>
      BY <1>3 DEF CallFails, searchVars
    <2>3. ChainTypeOK' /\ ChainOrder'
      BY <2>1, <2>2, ChainStays
    <2>4. TypeOK' /\ CallInv'
      BY <2>1, <2>2, <2>3 DEF TypeOK, Versions, CallInv, Calling, Asking, chainVars
    <2>5. QED
      BY <2>3, <2>4 DEF CallTyped
  <1>4. CASE Chain
    BY <1>4, ChainTyped
  <1>5. CASE UNCHANGED vars
    <2>1. TypeOK /\ ChainTypeOK /\ ChainOrder /\ CallInv
      BY DEF CallTyped, TypeOK
    <2>2. /\ UNCHANGED <<chainVars, pc, begun>>
          /\ UNCHANGED <<rg, ask, bn, hit, low, high, mid, slot, made>>
      BY <1>5 DEF vars, searchVars
    <2>3. ChainTypeOK' /\ ChainOrder'
      BY <2>1, <2>2, ChainStays
    <2>4. TypeOK' /\ CallInv'
      BY <2>1, <2>2, <2>3 DEF TypeOK, Versions, CallInv, Calling, Asking, chainVars
    <2>5. QED
      BY <2>3, <2>4 DEF CallTyped
  <1>6. QED
    BY <1>1, <1>2, <1>3, <1>4, <1>5 DEF Next

LEMMA TypedAlways == Spec => []CallTyped
  BY InitTyped, NextTyped, PTL DEF Spec

\* A search asks for slots of the chain, and keeps its sums, block numbers and proofs
\* in range (TypeOK of MessageSearch): every step of the calls of
\* messageProofDatasByRange, and every reorganisation between them.
THEOREM MessageSearchTyped == Spec => []TypeOK
  BY TypedAlways, PTL DEF CallTyped

------------------------------------------------------------------------------
(* Every message once *)

\* The proofs made hold the messages from the first one asked for to the one before
\* the next, in order and each once.
CoverInv ==
    /\ pc = "idle" => made = <<>>
    /\ begun.seq <= rg.seq
    /\ \A i \in DOMAIN made : begun.seq <= made[i].from /\ made[i].to < rg.seq
    /\ \A i, j \in DOMAIN made : i < j => made[i].to < made[j].from
    /\ \A q \in begun.seq .. rg.seq - 1 : \E i \in DOMAIN made : Holds(made[i], q)
    /\ pc = "done" => rg.seq > rg.toSeq

LEMMA CoverStays ==
    ASSUME CoverInv, UNCHANGED <<made, begun>>, rg'.seq = rg.seq,
           pc' = "idle" => pc = "idle",
           pc' = "done" => rg'.seq > rg'.toSeq
    PROVE  CoverInv'
  BY DEF CoverInv, Holds

LEMMA CoverMakes ==
    ASSUME TypeOK, CallInv, CoverInv, MakeProof
    PROVE  CoverInv'
  <1> DEFINE x == [slot |-> slot, ver |-> IF slot = 0 THEN 0 ELSE chain[slot].ver,
                   from |-> rg.seq, to |-> hit.to]
             S == [slot : Nat, ver : Versions, from : Nat, to : Nat]
             n == Len(made)
  <1>1. /\ pc = "header" /\ pc' = "scan" /\ made' = Append(made, x) /\ begun' = begun
        /\ rg' = [rg EXCEPT !.seq = hit.to + 1, !.fbn = hit.bn + 1, !.fSlot = slot + 1]
    BY DEF MakeProof
  <1>2. x.from = rg.seq /\ x.to = hit.to
    OBVIOUS
  <1>3. x \in S
    <2>1. slot # 0 => slot \in FirstSlot .. head
      BY <1>1 DEF CallInv
    <2>2. slot # 0 => chain[slot].ver \in Versions
      BY <2>1, SlotType DEF TypeOK
    <2>3. 0 \in Versions
      BY ChainAssumption DEF Versions
    <2>4. slot \in Nat /\ rg.seq \in Nat /\ hit.to \in Nat
      BY DEF TypeOK
    <2>5. QED
      BY <2>2, <2>3, <2>4
  <1> HIDE DEF x
  <1>4. /\ n \in Nat /\ DOMAIN made = 1 .. n /\ DOMAIN made' = 1 .. n + 1
        /\ made'[n + 1] = x /\ \A i \in 1 .. n : made'[i] = made[i]
    <2>1. made \in Seq(S)
      BY DEF TypeOK
    <2>2. QED
      BY <1>1, <1>3, <2>1, AppendElements
  <1>5. /\ rg.seq \in Nat /\ hit.to \in Nat /\ begun.seq \in Nat /\ rg.seq <= hit.to
        /\ rg'.seq = hit.to + 1
        /\ \A i \in 1 .. n : made[i].from \in Nat /\ made[i].to \in Nat
    <2>1. rg.seq \in Nat /\ hit.to \in Nat /\ begun.seq \in Nat /\ rg.seq <= hit.to
      BY <1>1 DEF TypeOK, CallInv
    <2>2. rg'.seq = hit.to + 1
      BY <1>1 DEF TypeOK
    <2>3. \A i \in 1 .. n : made[i] \in S
      BY <1>4, ElementOfSeq DEF TypeOK
    <2>4. QED
      BY <2>1, <2>2, <2>3
  <1>6. /\ begun.seq <= rg.seq
        /\ \A i \in 1 .. n : begun.seq <= made[i].from /\ made[i].to < rg.seq
        /\ \A i, j \in 1 .. n : i < j => made[i].to < made[j].from
        /\ \A q \in begun.seq .. rg.seq - 1 : \E i \in 1 .. n : Holds(made[i], q)
    BY <1>4 DEF CoverInv
  <1> HIDE DEF n
  <1>7. ASSUME NEW i \in 1 .. n + 1
        PROVE  begun.seq <= made'[i].from /\ made'[i].to < rg'.seq
    <2>1. CASE i = n + 1
      BY <1>2, <1>4, <1>5, <1>6, <2>1
    <2>2. CASE i \in 1 .. n
      BY <1>4, <1>5, <1>6, <2>2
    <2>3. QED
      BY <1>4, <2>1, <2>2
  <1>8. ASSUME NEW i \in 1 .. n + 1, NEW j \in 1 .. n + 1, i < j
        PROVE  made'[i].to < made'[j].from
    <2>1. i \in 1 .. n
      BY <1>4, <1>8
    <2>2. CASE j = n + 1
      BY <1>2, <1>4, <1>6, <2>1, <2>2
    <2>3. CASE j \in 1 .. n
      BY <1>4, <1>6, <1>8, <2>1, <2>3
    <2>4. QED
      BY <1>4, <2>2, <2>3
  <1>9. ASSUME NEW q \in begun.seq .. rg'.seq - 1
        PROVE  \E i \in 1 .. n + 1 : Holds(made'[i], q)
    <2>1. CASE q < rg.seq
      <3>1. PICK i \in 1 .. n : Holds(made[i], q)
        BY <1>5, <1>6, <2>1
      <3>2. i \in 1 .. n + 1 /\ Holds(made'[i], q)
        BY <1>4, <3>1
      <3>3. QED
        BY <3>2
    <2>2. CASE q >= rg.seq
      <3>1. n + 1 \in 1 .. n + 1 /\ Holds(made'[n + 1], q)
        BY <1>2, <1>4, <1>5, <2>2 DEF Holds
      <3>2. QED
        BY <3>1
    <2>3. QED
      BY <1>5, <2>1, <2>2
  <1>10. begun'.seq = begun.seq /\ begun.seq <= rg'.seq
    BY <1>1, <1>5, <1>6
  <1>11. QED
    BY <1>1, <1>4, <1>7, <1>8, <1>9, <1>10 DEF CoverInv

LEMMA NextCover == CallTyped /\ CoverInv /\ [Next]_vars => CoverInv'
  <1> SUFFICES ASSUME CallTyped, CoverInv, [Next]_vars PROVE CoverInv'
    OBVIOUS
  <1>1. TypeOK /\ CallInv
    BY DEF CallTyped
  <1>2. rg \in [fbn : Nat, tbn : Nat, fSlot : Nat, toSlot : Nat, seq : Nat, toSeq : Nat]
    BY <1>1 DEF TypeOK
  <1>3. ASSUME NEW from \in Slots, NEW to \in Slots, NEW seq \in 1 .. MaxTxSeq,
               Begin(from, seq, to)
        PROVE  CoverInv'
    <2>1. /\ pc = "idle" /\ pc' = "from" /\ UNCHANGED made
          /\ rg' = [NoRange EXCEPT !.fSlot = from, !.toSlot = to, !.seq = seq, !.toSeq = TxSeq]
          /\ begun' = [from |-> from, seq |-> seq, fin |-> fin]
      BY <1>3 DEF Begin
    <2>2. made' = <<>> /\ rg'.seq = seq /\ begun'.seq = seq /\ seq \in Nat
      BY <2>1 DEF CoverInv, NoRange
    <2>3. DOMAIN made' = {}
      BY <2>2
    <2>4. \A q \in begun'.seq .. rg'.seq - 1 : FALSE
      BY <2>2
    <2>5. QED
      BY <2>1, <2>2, <2>3, <2>4 DEF CoverInv
  <1>4. CASE AskBefore \/ Scan \/ ScanFails \/ ProbeFound \/ ProbeAbove \/ ProbeBelow \/ NoHeaderThere
    <2>1. UNCHANGED <<made, begun, rg>>
      BY <1>4 DEF AskBefore, Scan, ScanFails, ProbeFound, ProbeAbove, ProbeBelow, NoHeaderThere,
                  searchVars
    <2>2. pc' = pc \/ pc' \in {"notFound", "header", "probe", "failed"}
      BY <1>4 DEF AskBefore, Scan, ScanFails, ProbeFound, ProbeAbove, ProbeBelow, NoHeaderThere,
                  Probe
    <2>3. pc' = "done" => rg'.seq > rg'.toSeq
      BY <2>1, <2>2 DEF CoverInv
    <2>4. QED
      BY <2>1, <2>2, <2>3, CoverStays
  <1>5. CASE AskFrom \/ AskTo
    <2>1. UNCHANGED <<made, begun>> /\ rg'.seq = rg.seq /\ pc' \in {"to", "scan"}
      BY <1>2, <1>5 DEF AskFrom, AskTo
    <2>2. QED
      BY <2>1, CoverStays
  <1>6. CASE SearchEnd
    <2>1. UNCHANGED <<made, begun, rg>> /\ pc' = "done" /\ rg.seq > rg.toSeq
      BY <1>6 DEF SearchEnd, Done, searchVars
    <2>2. QED
      BY <2>1, CoverStays
  <1>7. CASE MakeProof
    BY <1>1, <1>7, CoverMakes
  <1>8. CASE CallFails \/ Chain \/ UNCHANGED vars
    <2>1. UNCHANGED <<made, begun, rg>> /\ (pc' = pc \/ pc' = "failed")
      BY <1>8 DEF CallFails, Chain, vars, searchVars
    <2>2. pc' = "done" => rg'.seq > rg'.toSeq
      BY <2>1 DEF CoverInv
    <2>3. QED
      BY <2>1, <2>2, CoverStays
  <1>9. QED
    BY <1>3, <1>4, <1>5, <1>6, <1>7, <1>8 DEF Next, Step

LEMMA CoverAlways == Spec => [](CallTyped /\ CoverInv)
  <1>1. Init => CoverInv
    <2> SUFFICES ASSUME Init PROVE CoverInv
      OBVIOUS
    <2>1. made = <<>> /\ begun.seq = 0 /\ rg.seq = 0 /\ pc = "idle"
      BY DEF Init, NoRange
    <2>2. \A q \in begun.seq .. rg.seq - 1 : FALSE
      BY <2>1
    <2>3. QED
      BY <2>1, <2>2 DEF CoverInv
  <1>2. QED
    BY <1>1, InitTyped, NextTyped, NextCover, PTL DEF Spec

\* When a search has ended, every message it was asked for, up to the last one the BMC
\* had sent when it began, is in exactly one of the proofs made (MadeComplete): over
\* all chunks and blocks, and whatever is reorganised between the calls
\* (messageProofDatasByRange).
THEOREM MadeOnce == Spec => []MadeComplete
  <1>1. CallTyped /\ CoverInv => MadeComplete
    <2> SUFFICES ASSUME CallTyped, CoverInv, pc = "done", NEW q \in begun.seq .. rg.toSeq
                 PROVE  \E i \in DOMAIN made :
                           /\ Holds(made[i], q)
                           /\ \A j \in DOMAIN made : Holds(made[j], q) => j = i
      BY DEF MadeComplete
    <2>1. begun.seq \in Nat /\ rg.seq \in Nat /\ rg.toSeq \in Nat /\ rg.seq > rg.toSeq
      BY DEF CallTyped, CallInv, TypeOK, CoverInv
    <2>2. q \in begun.seq .. rg.seq - 1
      BY <2>1
    <2>3. PICK i \in DOMAIN made : Holds(made[i], q)
      BY <2>2 DEF CoverInv
    <2>4. /\ DOMAIN made \subseteq Nat
          /\ \A j \in DOMAIN made : made[j].from \in Nat /\ made[j].to \in Nat
      <3> DEFINE S == [slot : Nat, ver : Versions, from : Nat, to : Nat]
      <3>1. made \in Seq(S)
        BY DEF CallTyped, TypeOK
      <3>2. \A x \in S : x.from \in Nat /\ x.to \in Nat
        OBVIOUS
      <3> HIDE DEF S
      <3>3. DOMAIN made = 1 .. Len(made) /\ Len(made) \in Nat
        BY <3>1, LenProperties
      <3>4. \A j \in DOMAIN made : made[j] \in S
        BY <3>1, <3>3, ElementOfSeq
      <3>5. QED
        BY <3>2, <3>3, <3>4
    <2>5. ASSUME NEW j \in DOMAIN made, Holds(made[j], q) PROVE j = i
      <3>1. i < j => made[i].to < made[j].from
        BY DEF CoverInv
      <3>2. j < i => made[j].to < made[i].from
        BY DEF CoverInv
      <3>3. i \in Nat /\ j \in Nat /\ q \in Nat
        BY <2>1, <2>4
      <3>4. /\ made[i].from <= q /\ q <= made[i].to
            /\ made[j].from <= q /\ q <= made[j].to
        BY <2>3, <2>5 DEF Holds
      <3>5. QED
        BY <2>4, <3>1, <3>2, <3>3, <3>4
    <2>6. QED
      BY <2>3, <2>5
  <1>2. QED
    BY <1>1, CoverAlways, PTL

------------------------------------------------------------------------------
(* The slot of a proof is the slot of its block *)

\* A block of the slots asked for that a reorganisation during the search cannot have
\* touched.
Stands(s) ==
    /\ s \in FirstSlot .. head /\ IsBlock(s)
    /\ reorgs = 0 \/ s \in begun.from .. begun.fin

\* The final block before a range whose first slot has no block: getBlockNum returns
\* its number for that slot, until a fork has a block there.
JustBefore(s, f) ==
    /\ reorgs = 0
    /\ f = begun.from /\ s = f - 1 /\ s <= begun.fin /\ f <= rg.toSlot /\ ~IsBlock(f)

\* The range begins after a final block, and the number asked for is of one of its
\* slots or of that block.
FromInv ==
    pc \in {"from", "to"} =>
        /\ rg.fSlot = begun.from /\ IsBlock(rg.fSlot - 1)
        /\ rg.fSlot <= rg.toSlot
        /\ pc = "from" =>
              \/ ask = rg.fSlot
              \/ ask = rg.fSlot - 1 /\ (reorgs = 0 => JustBefore(ask, rg.fSlot))
        /\ pc = "to" => ask \in rg.fSlot - 1 .. rg.toSlot

\* No block with a number of the range lies before its slots, but for that block.
StartInv ==
    pc \in {"to", "scan", "probe", "header"} /\ Stable(rg.seq) =>
        \A s \in FirstSlot .. head :
            Stands(s) /\ chain[s].bn >= rg.fbn => s >= rg.fSlot \/ JustBefore(s, rg.fSlot)

\* Nor behind them.
EndInv ==
    pc \in {"scan", "probe", "header"} =>
        /\ rg.fbn <= bn
        /\ \A s \in FirstSlot .. head : Stands(s) /\ chain[s].bn <= rg.tbn => s <= rg.toSlot

\* The block of the logs found.
Found(s) ==
    /\ Stands(s) /\ chain[s].bn = hit.bn /\ FirstMsg(s) <= rg.seq /\ LastMsg(s) = hit.to
    /\ s <= rg.toSlot /\ (s >= rg.fSlot \/ JustBefore(s, rg.fSlot))

\* The binary search has not passed it: for a slot without a block getBlockNum goes
\* back over slots without one, maybe to a block before low.
Ahead(s) ==
    /\ s <= high /\ s \notin ask + 1 .. mid
    /\ s >= low \/ (low = rg.fSlot /\ JustBefore(s, low))

TargetInv ==
    pc \in {"probe", "header"} /\ Stable(rg.seq) =>
        \E s \in FirstSlot .. head :
            Found(s) /\ (pc = "probe" => Ahead(s)) /\ (pc = "header" => slot = s)

\* A proof made is of the block that holds its messages up to the last.
Placed(mp) ==
    /\ Stands(mp.slot) /\ mp.ver = chain[mp.slot].ver
    /\ FirstMsg(mp.slot) <= mp.from /\ mp.from <= mp.to /\ mp.to = LastMsg(mp.slot)

MadeInv == \A i \in DOMAIN made : Stable(made[i].from) => Placed(made[i])

\* A message of a block before the range is found at no slot of the range.
EarlyInv ==
    pc \in {"probe", "header"} /\ rg.seq <= LastMsg(begun.from - 1) =>
        /\ hit.bn <= chain[begun.from - 1].bn
        /\ pc = "header" => slot < begun.from

SearchInv == FromInv /\ StartInv /\ EndInv /\ TargetInv /\ EarlyInv /\ MadeInv

\* A later block has a higher number, and a block is its number's only one.
LEMMA BlockOrder ==
    ASSUME ChainTypeOK, ChainOrder, NEW s \in FirstSlot .. head, NEW t \in FirstSlot .. head
    PROVE  /\ s \in Nat /\ t \in Nat /\ chain[s].bn \in Nat /\ chain[t].bn \in Nat
           /\ s < t /\ IsBlock(t) => chain[s].bn < chain[t].bn
           /\ s <= t => chain[s].bn <= chain[t].bn /\ chain[s].tx <= chain[t].tx
           /\ IsBlock(s) /\ IsBlock(t) /\ chain[s].bn = chain[t].bn => s = t
  <1>1. s \in Nat /\ t \in Nat /\ chain[s].bn \in Nat /\ chain[t].bn \in Nat
    BY SlotType, SlotsAreNat
  <1>2. \A u, v \in FirstSlot .. head : u <= v =>
            /\ chain[u].tx <= chain[v].tx /\ chain[u].bn <= chain[v].bn
            /\ u < v /\ chain[v].ver # 0 => chain[u].bn < chain[v].bn
    BY Zenon DEF ChainOrder, Ordered
  <1>3. s < t /\ IsBlock(t) => chain[s].bn < chain[t].bn
    BY <1>1, <1>2 DEF IsBlock
  <1>4. t < s /\ IsBlock(s) => chain[t].bn < chain[s].bn
    BY <1>1, <1>2 DEF IsBlock
  <1>5. s <= t => chain[s].bn <= chain[t].bn /\ chain[s].tx <= chain[t].tx
    BY <1>2
  <1>6. QED
    BY <1>1, <1>3, <1>4, <1>5

\* A block that holds a message sent up to another block is not behind it.
LEMMA HeldUpTo ==
    ASSUME ChainTypeOK, ChainOrder, NEW s \in FirstSlot .. head, NEW t \in FirstSlot .. head,
           NEW q \in Nat, FirstMsg(s) <= q, q <= LastMsg(t)
    PROVE  s <= t
  <1>1. s \in Nat /\ t \in Nat /\ FirstSlot \in Nat /\ head \in Nat
    BY ChainAssumption DEF ChainTypeOK, Slots
  <1>2. ASSUME s > t PROVE FALSE
    <2>1. s - 1 \in FirstSlot .. head /\ t <= s - 1 /\ s # FirstSlot
      BY <1>1, <1>2
    <2>2. chain[t].tx <= chain[s - 1].tx
      BY <2>1, BlockOrder
    <2>3. chain[t].tx \in Nat /\ chain[s - 1].tx \in Nat
      BY <2>1, SlotType DEF Seqs
    <2>4. chain[s - 1].tx + 1 <= q /\ q <= chain[t].tx
      BY <2>1 DEF FirstMsg, LastMsg
    <2>5. QED
      BY <2>2, <2>3, <2>4
  <1>3. QED
    BY <1>1, <1>2

\* A block that holds a message sent after another block is behind it.
LEMMA HeldAfter ==
    ASSUME ChainTypeOK, ChainOrder, NEW s \in FirstSlot .. head, NEW t \in FirstSlot .. head,
           NEW q \in Nat, LastMsg(t) < q, q <= LastMsg(s)
    PROVE  t < s
  <1>1. s \in Nat /\ t \in Nat /\ chain[s].tx \in Nat /\ chain[t].tx \in Nat
    BY SlotType, BlockOrder DEF Seqs
  <1>2. s <= t => chain[s].tx <= chain[t].tx
    BY BlockOrder
  <1>3. QED
    BY <1>1, <1>2 DEF LastMsg

\* The numbers of a search.
LEMMA CallNumbers ==
    ASSUME CallTyped
    PROVE  /\ TypeOK /\ ChainTypeOK /\ ChainOrder /\ CallInv
           /\ FirstSlot \in Nat \ {0} /\ head \in Nat /\ fin \in Nat /\ fin <= head
           /\ reorgs \in Nat /\ begun.fin \in FirstSlot .. fin
           /\ begun.from - 1 \in FirstSlot .. fin /\ begun.from - 1 \in FirstSlot .. head
           /\ begun.from \in Nat /\ begun.from - 1 <= begun.fin
           /\ rg.fSlot \in Nat /\ rg.toSlot \in Nat /\ rg.fbn \in Nat /\ rg.tbn \in Nat
           /\ rg.seq \in Nat /\ hit.bn \in Nat /\ hit.to \in Nat
           /\ ask \in Nat /\ bn \in Nat /\ low \in Nat /\ high \in Nat /\ mid \in Nat /\ slot \in Nat
           /\ pc \in {"from", "to", "scan", "probe", "header"} => rg.toSlot <= head
  <1>1. TypeOK /\ ChainTypeOK /\ ChainOrder /\ CallInv
    BY DEF CallTyped, TypeOK
  <1>2. FirstSlot \in Nat \ {0} /\ head \in Nat /\ fin \in Nat /\ fin <= head /\ reorgs \in Nat
    BY <1>1, ChainAssumption DEF ChainTypeOK, ChainOrder, Slots
  <1>3. pc \in {"from", "to", "scan", "probe", "header"} => rg.toSlot <= head
    BY <1>1 DEF CallInv, Calling, Asking
  <1>4. /\ begun.fin \in FirstSlot .. fin
        /\ begun.from - 1 \in FirstSlot .. fin /\ begun.from - 1 \in FirstSlot .. head
        /\ begun.from \in Nat /\ begun.from - 1 <= begun.fin
    BY <1>1, <1>2 DEF CallInv
  <1>5. /\ rg.fSlot \in Nat /\ rg.toSlot \in Nat /\ rg.fbn \in Nat /\ rg.tbn \in Nat
        /\ rg.seq \in Nat /\ hit.bn \in Nat /\ hit.to \in Nat
    BY <1>1 DEF TypeOK
  <1>6. ask \in Nat /\ bn \in Nat /\ low \in Nat /\ high \in Nat /\ mid \in Nat /\ slot \in Nat
    BY <1>1, ChainAssumption DEF TypeOK
  <1>7. QED
    BY <1>1, <1>2, <1>3, <1>4, <1>5, <1>6

\* What a call leaves.
LEMMA CallFrame ==
    ASSUME UNCHANGED <<chainVars, begun>>
    PROVE  /\ \A s : Stands(s)' <=> Stands(s)
           /\ \A q : Stable(q)' <=> Stable(q)
           /\ \A s : IsBlock(s)' <=> IsBlock(s)
           /\ \A s : FirstMsg(s)' = FirstMsg(s) /\ LastMsg(s)' = LastMsg(s)
           /\ rg'.toSlot = rg.toSlot => \A s, f : JustBefore(s, f)' <=> JustBefore(s, f)
  BY DEF chainVars, Stands, Stable, IsBlock, FirstMsg, LastMsg, JustBefore

LEMMA MadeStays ==
    ASSUME UNCHANGED <<chainVars, begun, made>>, MadeInv
    PROVE  MadeInv'
  <1>1. UNCHANGED <<chain, head, reorgs>>
    BY DEF chainVars
  <1>2. QED
    BY <1>1 DEF MadeInv, Placed, Stands, Stable, IsBlock, FirstMsg, LastMsg

LEMMA BeginSearch ==
    ASSUME CallTyped, CoverInv, SearchInv,
           NEW from \in Slots, NEW to \in Slots, NEW seq \in 1 .. MaxTxSeq, Begin(from, seq, to)
    PROVE  SearchInv'
  <1>1. /\ pc = "idle" /\ pc' = "from" /\ UNCHANGED <<chainVars, made>> /\ ask' = from
        /\ rg' = [NoRange EXCEPT !.fSlot = from, !.toSlot = to, !.seq = seq, !.toSeq = TxSeq]
        /\ begun' = [from |-> from, seq |-> seq, fin |-> fin]
        /\ FirstSlot < from /\ from - 1 <= fin /\ IsBlock(from - 1) /\ from <= to
    BY DEF Begin
  <1>2. rg'.fSlot = from /\ rg'.toSlot = to /\ begun'.from = from /\ chain' = chain
    BY <1>1 DEF NoRange, chainVars
  <1>4. FromInv'
    BY <1>1, <1>2 DEF FromInv, IsBlock
  <1>5. made' = <<>> /\ DOMAIN made' = {}
    BY <1>1 DEF CoverInv
  <1>6. QED
    BY <1>1, <1>4, <1>5 DEF SearchInv, StartInv, EndInv, TargetInv, EarlyInv, MadeInv

LEMMA AskBeforeSearch ==
    ASSUME CallTyped, SearchInv, AskBefore
    PROVE  SearchInv'
  <1>1. /\ Asking /\ ~Answered /\ ask' = ask - 1
        /\ UNCHANGED <<chainVars, pc, rg, bn, hit, low, high, mid, slot, made, begun>>
    BY DEF AskBefore
  <1>2. TypeOK /\ ChainTypeOK /\ ChainOrder /\ CallInv
    BY DEF CallTyped, TypeOK
  <1>3. /\ ask \in Nat /\ head \in Nat /\ FirstSlot \in Nat /\ fin \in Nat /\ mid \in Nat
        /\ rg.fSlot \in Nat /\ rg.toSlot \in Nat /\ begun.fin \in FirstSlot .. fin /\ fin <= head
        /\ begun.from - 1 \in FirstSlot .. head /\ begun.from - 1 <= begun.fin /\ begun.from \in Nat
        /\ rg.toSlot <= head
    BY <1>1, CallNumbers DEF Asking
  <1>4. ~(ask < FirstSlot) /\ ~(ask <= head /\ IsBlock(ask))
    BY <1>1 DEF Answered
  <1>5. chain' = chain /\ head' = head /\ reorgs' = reorgs
    BY <1>1 DEF chainVars
  <1>6. FromInv'
    <2>1. SUFFICES ASSUME pc \in {"from", "to"} PROVE FromInv'
      BY <1>1 DEF FromInv
    <2>2. /\ rg.fSlot = begun.from /\ IsBlock(rg.fSlot - 1)
          /\ rg.fSlot <= rg.toSlot
      BY <2>1 DEF SearchInv, FromInv
    <2>3. pc = "from" => ask' = rg.fSlot - 1 /\ (reorgs = 0 => JustBefore(ask', rg.fSlot))
      <3>1. SUFFICES ASSUME pc = "from"
                     PROVE  ask' = rg.fSlot - 1 /\ (reorgs = 0 => JustBefore(ask', rg.fSlot))
        OBVIOUS
      <3>2. ask = rg.fSlot \/ ask = rg.fSlot - 1
        BY <3>1 DEF SearchInv, FromInv
      <3>3. ask = rg.fSlot
        BY <1>3, <1>4, <2>2, <3>2
      <3>4. ~IsBlock(ask)
        BY <1>3, <1>4, <2>2, <3>3
      <3>5. QED
        BY <1>1, <1>3, <2>2, <3>3, <3>4 DEF JustBefore
    <2>4. pc = "to" => ask' \in rg.fSlot - 1 .. rg.toSlot
      <3>1. SUFFICES ASSUME pc = "to" PROVE ask' \in rg.fSlot - 1 .. rg.toSlot
        OBVIOUS
      <3>2. ask \in rg.fSlot - 1 .. rg.toSlot
        BY <3>1 DEF SearchInv, FromInv
      <3>3. ask # rg.fSlot - 1
        BY <1>3, <1>4, <2>2
      <3>4. QED
        BY <1>1, <1>3, <3>2, <3>3
    <2>5. QED
      BY <1>1, <1>3, <1>5, <2>2, <2>3, <2>4 DEF FromInv, JustBefore, IsBlock
  <1>7. StartInv' /\ EndInv'
    BY <1>1, <1>5 DEF SearchInv, StartInv, EndInv, Stands, Stable, JustBefore, IsBlock, LastMsg
  <1>8. TargetInv'
    <2>1. SUFFICES ASSUME pc = "probe", Stable(rg.seq)
                   PROVE  \E s \in FirstSlot .. head : Found(s)' /\ Ahead(s)'
      BY <1>1, <1>5, CallFrame DEF TargetInv, Asking
    <2>2. PICK s \in FirstSlot .. head : Found(s) /\ Ahead(s)
      BY <2>1 DEF SearchInv, TargetInv
    <2>3. Found(s)'
      BY <1>1, <1>5, <2>2 DEF Found, Stands, IsBlock, FirstMsg, LastMsg, JustBefore
    <2>4. s # ask
      BY <1>3, <1>4, <2>2 DEF Found, Stands
    <2>5. s \notin ask' + 1 .. mid'
      BY <1>1, <1>3, <2>2, <2>4 DEF Ahead
    <2>6. Ahead(s)'
      BY <1>1, <1>5, <2>2, <2>5 DEF Ahead, JustBefore, IsBlock
    <2>7. QED
      BY <2>3, <2>6
  <1>9. MadeInv'
    BY <1>1, MadeStays DEF SearchInv
  <1>10. EarlyInv'
    BY <1>1, <1>5 DEF SearchInv, EarlyInv, LastMsg
  <1>11. QED
    BY <1>6, <1>7, <1>8, <1>9, <1>10 DEF SearchInv

LEMMA AskFromSearch ==
    ASSUME CallTyped, SearchInv, AskFrom
    PROVE  SearchInv'
  <1>1. /\ pc = "from" /\ Answered /\ rg' = [rg EXCEPT !.fbn = AnsweredNum] /\ ask' = rg.toSlot
        /\ pc' = "to" /\ UNCHANGED <<chainVars, made, begun>>
    BY DEF AskFrom
  <1>2. TypeOK /\ ChainTypeOK /\ ChainOrder /\ CallInv
    BY DEF CallTyped, TypeOK
  <1>3. /\ rg'.fbn = AnsweredNum /\ rg'.fSlot = rg.fSlot /\ rg'.toSlot = rg.toSlot
        /\ rg'.seq = rg.seq
    BY <1>1, <1>2 DEF TypeOK
  <1>4. chain' = chain /\ head' = head /\ reorgs' = reorgs
    BY <1>1 DEF chainVars
  <1>5. /\ rg.fSlot = begun.from /\ IsBlock(rg.fSlot - 1)
        /\ rg.fSlot <= rg.toSlot
        /\ reorgs = 0 => ask = rg.fSlot \/ JustBefore(ask, rg.fSlot)
    BY <1>1 DEF SearchInv, FromInv
  <1>6. /\ FirstSlot \in Nat /\ head \in Nat /\ fin \in Nat /\ fin <= head
        /\ begun.fin \in FirstSlot .. fin /\ rg.toSlot \in Nat /\ rg.fSlot \in Nat
        /\ rg.toSlot <= head /\ begun.from - 1 \in FirstSlot .. head /\ begun.from \in Nat
    BY <1>1, CallNumbers
  <1>7. FromInv'
    BY <1>1, <1>3, <1>4, <1>5, <1>6 DEF FromInv, IsBlock
  <1>8. StartInv'
    <2> SUFFICES ASSUME NEW s \in FirstSlot .. head, Stands(s), chain[s].bn >= AnsweredNum
                 PROVE  s >= rg.fSlot \/ JustBefore(s, rg.fSlot)
      BY <1>1, <1>3, <1>4, CallFrame DEF StartInv
    <2>1. CASE reorgs # 0
      BY <1>5, <1>6, <2>1 DEF Stands
    <2>2. CASE reorgs = 0
      <3>1. ask \in FirstSlot .. head /\ IsBlock(ask) /\ AnsweredNum = chain[ask].bn
        <4>1. ask \in FirstSlot .. head /\ ~(ask < FirstSlot)
          BY <1>5, <1>6, <2>2 DEF JustBefore
        <4>2. QED
          BY <1>1, <4>1 DEF Answered, AnsweredNum
      <3>2. ~(s < ask)
        BY <1>2, <3>1, BlockOrder DEF Stands
      <3>3. CASE ask = rg.fSlot
        BY <1>6, <3>2, <3>3
      <3>4. CASE JustBefore(ask, rg.fSlot)
        <4>1. ask = rg.fSlot - 1
          BY <3>4 DEF JustBefore
        <4>2. s = ask \/ s >= rg.fSlot
          BY <1>6, <3>2, <4>1
        <4>3. QED
          BY <3>4, <4>2
      <3>5. QED
        BY <1>5, <3>3, <3>4, <2>2
    <2>3. QED
      BY <2>1, <2>2
  <1>9. EndInv' /\ TargetInv' /\ EarlyInv'
    BY <1>1 DEF EndInv, TargetInv, EarlyInv
  <1>10. MadeInv'
    BY <1>1, MadeStays DEF SearchInv
  <1>11. QED
    BY <1>7, <1>8, <1>9, <1>10 DEF SearchInv

LEMMA AskToSearch ==
    ASSUME CallTyped, SearchInv, AskTo
    PROVE  SearchInv'
  <1>1. /\ pc = "to" /\ Answered /\ rg' = [rg EXCEPT !.tbn = AnsweredNum] /\ bn' = rg.fbn
        /\ pc' = "scan" /\ UNCHANGED <<chainVars, made, begun>>
    BY DEF AskTo
  <1>2. TypeOK /\ ChainTypeOK /\ ChainOrder /\ CallInv
    BY DEF CallTyped, TypeOK
  <1>3. /\ rg'.tbn = AnsweredNum /\ rg'.fSlot = rg.fSlot /\ rg'.toSlot = rg.toSlot
        /\ rg'.seq = rg.seq /\ rg'.fbn = rg.fbn /\ rg.fbn \in Nat
    BY <1>1, <1>2 DEF TypeOK
  <1>4. chain' = chain /\ head' = head /\ reorgs' = reorgs
    BY <1>1 DEF chainVars
  <1>5. rg.fSlot = begun.from /\ ask \in rg.fSlot - 1 .. rg.toSlot
    BY <1>1 DEF SearchInv, FromInv
  <1>6. /\ FirstSlot \in Nat /\ head \in Nat /\ fin \in Nat /\ fin <= head
        /\ begun.fin \in FirstSlot .. fin /\ rg.toSlot \in Nat /\ rg.fSlot \in Nat
        /\ rg.toSlot <= head /\ begun.from - 1 \in FirstSlot .. head /\ begun.from \in Nat
    BY <1>1, CallNumbers
  <1>7. FromInv' /\ TargetInv' /\ EarlyInv'
    BY <1>1 DEF FromInv, TargetInv, EarlyInv
  <1>8. StartInv'
    BY <1>1, <1>3, <1>4 DEF SearchInv, StartInv, Stands, Stable, JustBefore, IsBlock, LastMsg
  <1>9. EndInv'
    <2> SUFFICES ASSUME NEW s \in FirstSlot .. head, IsBlock(s), chain[s].bn <= AnsweredNum
                 PROVE  s <= rg.toSlot
      BY <1>1, <1>3, <1>4, CallFrame DEF EndInv, Stands
    <2>1. ask \in FirstSlot .. head /\ IsBlock(ask) /\ AnsweredNum = chain[ask].bn
      <3>1. ask \in FirstSlot .. head /\ ~(ask < FirstSlot)
        BY <1>5, <1>6
      <3>2. QED
        BY <1>1, <3>1 DEF Answered, AnsweredNum
    <2>2. ~(ask < s)
      BY <1>2, <2>1, BlockOrder
    <2>3. QED
      BY <1>5, <1>6, <2>1, <2>2
  <1>10. MadeInv'
    BY <1>1, MadeStays DEF SearchInv
  <1>11. QED
    BY <1>7, <1>8, <1>9, <1>10 DEF SearchInv

\* A probe of slots that contain the block, or all but the one just before them.
LEMMA ProbeSearch ==
    ASSUME CallTyped, SearchInv, pc \in {"scan", "probe"},
           NEW l \in Nat, NEW h \in Nat, Probe(l, h),
           UNCHANGED <<chainVars, rg, bn, made, begun>>,
           rg.seq <= LastMsg(begun.from - 1) => hit'.bn <= chain[begun.from - 1].bn,
           Stable(rg.seq) => l <= h /\ \E s \in FirstSlot .. head :
               Found(s)' /\ s <= h /\ (s >= l \/ (l = rg.fSlot /\ JustBefore(s, l)))
    PROVE  SearchInv'
  <1>1. chain' = chain /\ head' = head /\ reorgs' = reorgs
    BY DEF chainVars
  <1>2. /\ low' = l /\ high' = h
        /\ \/ l <= h /\ pc' = "probe" /\ mid' \in Nat /\ ask' = mid'
           \/ h < l /\ pc' = "header"
    BY ProbeStep
  <1>3. FromInv'
    BY <1>2 DEF FromInv
  <1>4. StartInv' /\ EndInv'
    BY <1>1, <1>2 DEF SearchInv, StartInv, EndInv, Stands, Stable, JustBefore, IsBlock, LastMsg
  <1>5. TargetInv'
    <2>1. SUFFICES ASSUME Stable(rg.seq)
                   PROVE  pc' = "probe" /\ \E s \in FirstSlot .. head : Found(s)' /\ Ahead(s)'
      BY <1>1, CallFrame DEF TargetInv
    <2>2. PICK s \in FirstSlot .. head :
             Found(s)' /\ s <= h /\ (s >= l \/ (l = rg.fSlot /\ JustBefore(s, l)))
      BY <2>1
    <2>3. l <= h /\ pc' = "probe" /\ mid' \in Nat /\ ask' = mid'
      BY <1>2, <2>1
    <2>4. s \notin ask' + 1 .. mid'
      <3>1. \A m \in Nat : m + 1 .. m = {}
        OBVIOUS
      <3>2. QED
        BY <2>3, <3>1
    <2>5. Ahead(s)'
      BY <1>1, <1>2, <2>2, <2>4 DEF Ahead, JustBefore, IsBlock
    <2>6. QED
      BY <2>2, <2>3, <2>5
  <1>6. MadeInv'
    BY MadeStays DEF SearchInv
  <1>7. EarlyInv'
    <2>1. pc' = "header" => slot' < begun.from
      BY ProbeStep, CallNumbers
    <2>2. QED
      BY <1>1, <2>1 DEF EarlyInv, LastMsg
  <1>8. QED
    BY <1>3, <1>4, <1>5, <1>6, <1>7 DEF SearchInv

LEMMA ScanSearch ==
    ASSUME CallTyped, SearchInv, Scan
    PROVE  SearchInv'
  <1>1. /\ pc = "scan" /\ bn < rg.tbn
        /\ UNCHANGED <<chainVars, rg, made, begun>>
    BY DEF Scan
  <1>2. chain' = chain /\ head' = head /\ reorgs' = reorgs
    BY <1>1 DEF chainVars
  <1>3. CASE bn' = NextChunk /\ pc' = pc
    <2>1. rg.fbn <= bn /\ bn < bn'
      <3>1. rg.fbn <= bn
        BY <1>1 DEF SearchInv, EndInv
      <3>2. QED
        BY <1>1, <1>3, <3>1, CallNumbers, SearchAssumption DEF NextChunk, ChunkEnd
    <2>2. rg.fbn <= bn'
      BY <1>1, <1>3, <2>1, CallNumbers, SearchAssumption DEF NextChunk, ChunkEnd
    <2>3. FromInv' /\ TargetInv' /\ EarlyInv'
      BY <1>1, <1>3 DEF FromInv, TargetInv, EarlyInv
    <2>4. StartInv' /\ EndInv'
      BY <1>1, <1>2, <1>3, <2>2
         DEF SearchInv, StartInv, EndInv, Stands, Stable, JustBefore, IsBlock, LastMsg
    <2>5. MadeInv'
      BY <1>1, MadeStays DEF SearchInv
    <2>6. QED
      BY <2>3, <2>4, <2>5 DEF SearchInv
  <1>4. ASSUME NEW s \in Matches, hit' = [bn |-> chain[s].bn, to |-> LastMsg(s)],
               Probe(rg.fSlot, rg.toSlot), UNCHANGED bn
        PROVE  SearchInv'
    <2>1. /\ s \in FirstSlot .. head /\ IsBlock(s) /\ chain[s].bn \in Nat
          /\ bn <= chain[s].bn /\ chain[s].bn <= ChunkEnd
          /\ FirstMsg(s) <= rg.seq /\ rg.seq <= LastMsg(s)
      BY MatchFields, CallNumbers
    <2>2. chain[s].bn <= rg.tbn /\ rg.fbn <= chain[s].bn
      <3>1. rg.fbn <= bn
        BY <1>1 DEF SearchInv, EndInv
      <3>2. bn \in Nat /\ rg.fbn \in Nat /\ rg.tbn \in Nat /\ MaxFilter \in Nat
        BY CallNumbers, SearchAssumption
      <3>3. ChunkEnd <= rg.tbn /\ ChunkEnd \in Nat
        BY <3>2 DEF ChunkEnd
      <3>4. QED
        BY <2>1, <3>1, <3>2, <3>3
    <2>3. ASSUME Stable(rg.seq)
          PROVE  /\ Stands(s) /\ s <= rg.toSlot
                 /\ s >= rg.fSlot \/ JustBefore(s, rg.fSlot)
                 /\ rg.fSlot <= rg.toSlot
      <3>1. reorgs = 0 \/ s \in begun.from .. begun.fin
        <4>1. begun.fin \in FirstSlot .. head /\ begun.from - 1 \in FirstSlot .. head
          BY CallNumbers
        <4>2. reorgs # 0 => s <= begun.fin
          BY <2>1, <2>3, <4>1, HeldUpTo, CallNumbers DEF Stable
        <4>3. reorgs # 0 => begun.from - 1 < s
          BY <2>1, <2>3, <4>1, HeldAfter, CallNumbers DEF Stable
        <4>4. s \in Nat /\ begun.from \in Nat /\ begun.fin \in Nat
          BY <2>1, CallNumbers
        <4>5. QED
          BY <4>2, <4>3, <4>4
      <3>2. Stands(s)
        BY <2>1, <3>1 DEF Stands
      <3>3. s <= rg.toSlot
        BY <1>1, <2>1, <2>2, <3>2 DEF SearchInv, EndInv
      <3>4. s >= rg.fSlot \/ JustBefore(s, rg.fSlot)
        BY <1>1, <2>1, <2>2, <2>3, <3>2 DEF SearchInv, StartInv
      <3>5. rg.fSlot <= rg.toSlot
        BY <2>1, <3>3, <3>4, CallNumbers DEF JustBefore
      <3>6. QED
        BY <3>2, <3>3, <3>4, <3>5
    <2>4. ASSUME Stable(rg.seq) PROVE Found(s)'
      <3>1. hit'.bn = chain[s].bn /\ hit'.to = LastMsg(s)
        BY <1>4
      <3>2. QED
        BY <1>1, <1>2, <2>1, <2>3, <2>4, <3>1
           DEF Found, Stands, IsBlock, JustBefore, FirstMsg, LastMsg
    <2>5. rg.fSlot \in Nat /\ rg.toSlot \in Nat
      BY CallNumbers
    <2>6. rg.seq <= LastMsg(begun.from - 1) => hit'.bn <= chain[begun.from - 1].bn
      <3>1. begun.from - 1 \in FirstSlot .. head
        BY CallNumbers
      <3>2. rg.seq <= LastMsg(begun.from - 1) => s <= begun.from - 1
        BY <2>1, <3>1, HeldUpTo, CallNumbers
      <3>3. hit'.bn = chain[s].bn
        BY <1>4
      <3>4. s <= begun.from - 1 => chain[s].bn <= chain[begun.from - 1].bn
        BY <2>1, <3>1, BlockOrder, CallNumbers
      <3>5. QED
        BY <3>2, <3>3, <3>4
    <2>7. QED
      BY <1>1, <1>4, <2>1, <2>3, <2>4, <2>5, <2>6, ProbeSearch
  <1>5. QED
    BY <1>3, <1>4 DEF Scan

LEMMA ProbeAboveSearch ==
    ASSUME CallTyped, SearchInv, ProbeAbove
    PROVE  SearchInv'
  <1>1. /\ pc = "probe" /\ Answered /\ AnsweredNum > hit.bn /\ Probe(low, ask - 1)
        /\ UNCHANGED <<chainVars, rg, bn, hit, made, begun>>
    BY DEF ProbeAbove
  <1>2. chain' = chain /\ head' = head /\ reorgs' = reorgs
    BY <1>1 DEF chainVars
  <1>3. low <= mid /\ mid <= high /\ high <= rg.toSlot /\ ask <= mid /\ hit.bn > 0
    BY <1>1, CallNumbers DEF CallInv
  <1>4. ask \in FirstSlot .. head /\ IsBlock(ask) /\ AnsweredNum = chain[ask].bn
    <2>1. AnsweredNum \in Nat /\ AnsweredNum > 0
      BY <1>1, <1>3, CallNumbers, AnsweredType
    <2>2. QED
      BY <1>1, <2>1, CallNumbers, AnsweredType
  <1>5. ask - 1 \in Nat
    BY <1>4, CallNumbers
  <1>6. ASSUME Stable(rg.seq)
        PROVE  /\ low <= ask - 1
               /\ \E s \in FirstSlot .. head :
                     Found(s)' /\ s <= ask - 1 /\ (s >= low \/ (low = rg.fSlot /\ JustBefore(s, low)))
    <2>1. PICK s \in FirstSlot .. head : Found(s) /\ Ahead(s)
      BY <1>1, <1>6 DEF SearchInv, TargetInv
    <2>2. Found(s)'
      BY <1>1, <1>2, <2>1 DEF Found, Stands, IsBlock, FirstMsg, LastMsg, JustBefore
    <2>3. s < ask
      <3>1. chain[s].bn < chain[ask].bn
        BY <1>1, <1>4, <2>1 DEF Found
      <3>2. ~(ask <= s)
        BY <1>4, <3>1, BlockOrder, CallNumbers
      <3>3. QED
        BY <1>4, <2>1, <3>2, CallNumbers
    <2>4. s >= low \/ (low = rg.fSlot /\ JustBefore(s, low))
      BY <2>1 DEF Ahead
    <2>5. low <= ask - 1
      <3>1. CASE s >= low
        BY <1>4, <2>3, <3>1, CallNumbers
      <3>2. CASE JustBefore(s, low)
        <4>1. s = low - 1 /\ ~IsBlock(low)
          BY <3>2 DEF JustBefore
        <4>2. ask # low
          BY <1>4, <4>1
        <4>3. QED
          BY <1>4, <2>3, <4>1, <4>2, CallNumbers
      <3>3. QED
        BY <2>4, <3>1, <3>2
    <2>6. s <= ask - 1
      BY <2>3, CallNumbers
    <2>7. QED
      BY <2>2, <2>4, <2>5, <2>6
  <1>7. low \in Nat
    BY CallNumbers
  <1>8. rg.seq <= LastMsg(begun.from - 1) => hit'.bn <= chain[begun.from - 1].bn
    BY <1>1 DEF SearchInv, EarlyInv
  <1>9. QED
    BY <1>1, <1>5, <1>6, <1>7, <1>8, ProbeSearch

LEMMA ProbeBelowSearch ==
    ASSUME CallTyped, SearchInv, ProbeBelow
    PROVE  SearchInv'
  <1>1. /\ pc = "probe" /\ Answered /\ AnsweredNum < hit.bn /\ Probe(NextLow, high)
        /\ UNCHANGED <<chainVars, rg, bn, hit, made, begun>>
    BY DEF ProbeBelow
  <1>2. chain' = chain /\ head' = head /\ reorgs' = reorgs
    BY <1>1 DEF chainVars
  <1>3. low <= mid /\ mid <= high /\ high <= rg.toSlot /\ ask <= mid
    BY <1>1, CallNumbers DEF CallInv
  <1>4. NextLow \in Nat /\ high \in Nat
    BY CallNumbers DEF NextLow
  <1>5. ASSUME Stable(rg.seq)
        PROVE  /\ NextLow <= high
               /\ \E s \in FirstSlot .. head : Found(s)' /\ s <= high /\ s >= NextLow
    <2>1. PICK s \in FirstSlot .. head : Found(s) /\ Ahead(s)
      BY <1>1, <1>5 DEF SearchInv, TargetInv
    <2>2. Found(s)'
      BY <1>1, <1>2, <2>1 DEF Found, Stands, IsBlock, FirstMsg, LastMsg, JustBefore
    <2>3. ask < s
      <3>1. CASE ask < FirstSlot
        BY <2>1, <3>1, CallNumbers
      <3>2. CASE ~(ask < FirstSlot)
        <4>1. ask \in FirstSlot .. head /\ AnsweredNum = chain[ask].bn
          BY <1>1, <3>2, CallNumbers DEF Answered, AnsweredNum
        <4>2. chain[ask].bn < chain[s].bn
          BY <1>1, <2>1, <4>1 DEF Found
        <4>3. ~(s <= ask)
          BY <2>1, <4>1, <4>2, BlockOrder, CallNumbers
        <4>4. QED
          BY <2>1, <4>1, <4>3, CallNumbers
      <3>3. QED
        BY <3>1, <3>2
    <2>4. mid < s
      <3>1. s \notin ask + 1 .. mid /\ s \in Nat
        BY <2>1, CallNumbers DEF Ahead
      <3>2. QED
        BY <2>3, <3>1, CallNumbers
    <2>5. NextLow <= s
      BY <1>3, <2>1, <2>3, <2>4, CallNumbers DEF NextLow
    <2>6. s <= high
      BY <2>1 DEF Ahead
    <2>7. NextLow <= high
      BY <1>4, <2>1, <2>5, <2>6, CallNumbers
    <2>8. QED
      BY <2>2, <2>5, <2>6, <2>7
  <1>6. rg.seq <= LastMsg(begun.from - 1) => hit'.bn <= chain[begun.from - 1].bn
    BY <1>1 DEF SearchInv, EarlyInv
  <1>7. QED
    BY <1>1, <1>4, <1>5, <1>6, ProbeSearch

LEMMA ProbeFoundSearch ==
    ASSUME CallTyped, SearchInv, ProbeFound
    PROVE  SearchInv'
  <1>1. /\ pc = "probe" /\ Answered /\ AnsweredNum = hit.bn /\ slot' = ask /\ pc' = "header"
        /\ UNCHANGED <<chainVars, rg, bn, hit, made, begun>>
    BY DEF ProbeFound, Wanted
  <1>2. chain' = chain /\ head' = head /\ reorgs' = reorgs
    BY <1>1 DEF chainVars
  <1>3. ask \in FirstSlot .. head /\ IsBlock(ask) /\ AnsweredNum = chain[ask].bn
    <2>1. hit.bn > 0
      BY <1>1, CallNumbers DEF CallInv
    <2>2. QED
      BY <1>1, <2>1, CallNumbers, AnsweredType
  <1>4. FromInv'
    BY <1>1 DEF FromInv
  <1>5. StartInv' /\ EndInv'
    BY <1>1, <1>2 DEF SearchInv, StartInv, EndInv, Stands, Stable, JustBefore, IsBlock, LastMsg
  <1>6. TargetInv'
    <2>1. SUFFICES ASSUME Stable(rg.seq)
                   PROVE  \E s \in FirstSlot .. head : Found(s)' /\ slot' = s
      BY <1>1, <1>2, CallFrame DEF TargetInv
    <2>2. PICK s \in FirstSlot .. head : Found(s)
      BY <1>1, <2>1 DEF SearchInv, TargetInv
    <2>3. Found(s)'
      BY <1>1, <1>2, <2>2 DEF Found, Stands, IsBlock, FirstMsg, LastMsg, JustBefore
    <2>4. s = ask
      <3>1. IsBlock(s) /\ chain[s].bn = chain[ask].bn
        BY <1>1, <1>3, <2>2 DEF Found, Stands
      <3>2. QED
        BY <1>3, <3>1, BlockOrder, CallNumbers
    <2>5. QED
      BY <1>1, <2>3, <2>4
  <1>7. MadeInv'
    BY <1>1, MadeStays DEF SearchInv
  <1>8. EarlyInv'
    <2>1. SUFFICES ASSUME rg.seq <= LastMsg(begun.from - 1)
                   PROVE  hit.bn <= chain[begun.from - 1].bn /\ ask < begun.from
      BY <1>1, <1>2 DEF EarlyInv, LastMsg
    <2>2. hit.bn <= chain[begun.from - 1].bn
      BY <1>1, <2>1 DEF SearchInv, EarlyInv
    <2>3. begun.from - 1 \in FirstSlot .. head
      BY CallNumbers
    <2>4. ~(begun.from - 1 < ask)
      <3>1. begun.from - 1 < ask => chain[begun.from - 1].bn < chain[ask].bn
        BY <1>3, <2>3, BlockOrder, CallNumbers
      <3>2. chain[begun.from - 1].bn \in Nat /\ chain[ask].bn \in Nat
        BY <1>3, <2>3, SlotType, CallNumbers
      <3>3. QED
        BY <1>1, <1>3, <2>2, <3>1, <3>2
    <2>5. QED
      BY <2>2, <2>4, CallNumbers
  <1>9. QED
    BY <1>4, <1>5, <1>6, <1>7, <1>8 DEF SearchInv

LEMMA MakeProofSearch ==
    ASSUME CallTyped, SearchInv, MakeProof
    PROVE  SearchInv'
  <1> DEFINE x == [slot |-> slot, ver |-> IF slot = 0 THEN 0 ELSE chain[slot].ver,
                   from |-> rg.seq, to |-> hit.to]
             S == [slot : Nat, ver : Versions, from : Nat, to : Nat]
             n == Len(made)
  <1>1. /\ pc = "header" /\ pc' = "scan" /\ made' = Append(made, x)
        /\ rg' = [rg EXCEPT !.seq = hit.to + 1, !.fbn = hit.bn + 1, !.fSlot = slot + 1]
        /\ bn' = hit.bn + 1
        /\ UNCHANGED <<chainVars, begun>>
    BY DEF MakeProof
  <1>2. chain' = chain /\ head' = head /\ reorgs' = reorgs
    BY <1>1 DEF chainVars
  <1>3. /\ rg'.seq = hit.to + 1 /\ rg'.fbn = hit.bn + 1 /\ rg'.fSlot = slot + 1
        /\ rg'.toSlot = rg.toSlot /\ rg'.tbn = rg.tbn
    BY <1>1, CallNumbers DEF TypeOK
  <1>4. /\ x.slot = slot /\ x.from = rg.seq /\ x.to = hit.to
        /\ x.ver = IF slot = 0 THEN 0 ELSE chain[slot].ver
    OBVIOUS
  <1>5. x \in S
    <2>1. slot = 0 \/ slot \in FirstSlot .. head
      BY <1>1, CallNumbers DEF CallInv
    <2>2. slot # 0 => chain[slot].ver \in Versions
      BY <2>1, SlotType, CallNumbers
    <2>3. 0 \in Versions
      BY ChainAssumption DEF Versions
    <2>4. QED
      BY <2>2, <2>3, CallNumbers
  <1> HIDE DEF x
  <1>6. Stable(rg.seq) =>
            /\ slot \in FirstSlot .. head /\ Stands(slot) /\ chain[slot].bn = hit.bn
            /\ FirstMsg(slot) <= rg.seq /\ LastMsg(slot) = hit.to
    BY <1>1, Zenon DEF SearchInv, TargetInv, Found
  <1>7. FromInv' /\ TargetInv' /\ EarlyInv'
    BY <1>1 DEF FromInv, TargetInv, EarlyInv
  <1>8. EndInv'
    <2>1. rg'.fbn <= bn'
      BY <1>1, <1>3, CallNumbers
    <2>2. \A s \in FirstSlot .. head : Stands(s) /\ chain[s].bn <= rg.tbn => s <= rg.toSlot
      BY <1>1 DEF SearchInv, EndInv
    <2>3. QED
      BY <1>1, <1>2, <1>3, <2>1, <2>2 DEF EndInv, Stands, IsBlock
  <1>9. StartInv'
    <2>1. SUFFICES ASSUME Stable(hit.to + 1), NEW t \in FirstSlot .. head, Stands(t),
                          chain[t].bn >= hit.bn + 1
                   PROVE  t >= slot + 1
      BY <1>1, <1>2, <1>3, CallFrame DEF StartInv
    <2>2. hit.to \in Nat /\ rg.seq \in Nat /\ rg.seq <= hit.to
      BY <1>1, CallNumbers DEF CallInv
    <2>3. CASE Stable(rg.seq)
      <3>1. slot \in FirstSlot .. head /\ chain[slot].bn = hit.bn
        BY <1>6, <2>3
      <3>2. ~(t <= slot)
        <4>1. chain[slot].bn \in Nat /\ chain[t].bn \in Nat
          BY <3>1, SlotType, CallNumbers
        <4>2. chain[slot].bn < chain[t].bn
          BY <2>1, <3>1, <4>1
        <4>3. QED
          BY <3>1, <4>1, <4>2, BlockOrder, CallNumbers
      <3>3. QED
        BY <3>1, <3>2, CallNumbers
    <2>4. CASE ~Stable(rg.seq)
      <3>1. reorgs # 0
        BY <2>4 DEF Stable
      <3>2. hit.to + 1 <= LastMsg(begun.fin)
        BY <2>1, <3>1 DEF Stable
      <3>3. LastMsg(begun.from - 1) \in Nat /\ LastMsg(begun.fin) \in Nat
        <4>1. begun.from - 1 \in FirstSlot .. head /\ begun.fin \in FirstSlot .. head
          BY CallNumbers
        <4>2. QED
          BY <4>1, SlotType, CallNumbers DEF Seqs
      <3>4. rg.seq <= LastMsg(begun.from - 1)
        BY <2>2, <2>4, <3>2, <3>3 DEF Stable
      <3>5. slot < begun.from
        BY <1>1, <3>4 DEF SearchInv, EarlyInv
      <3>6. begun.from <= t
        BY <2>1, <3>1, CallNumbers DEF Stands
      <3>7. QED
        BY <3>5, <3>6, CallNumbers
    <2>5. QED
      BY <2>3, <2>4
  <1>10. MadeInv'
    <2>1. /\ n \in Nat /\ DOMAIN made = 1 .. n /\ DOMAIN made' = 1 .. n + 1
          /\ made'[n + 1] = x /\ \A i \in 1 .. n : made'[i] = made[i]
      <3>1. made \in Seq(S)
        BY CallNumbers DEF TypeOK
      <3>2. QED
        BY <1>1, <1>5, <3>1, AppendElements
    <2> HIDE DEF n
    <2>2. ASSUME Stable(rg.seq) PROVE Placed(x)
      BY <1>1, <1>4, <1>6, <2>2, CallNumbers DEF Placed, CallInv
    <2>3. \A i \in 1 .. n + 1 : Stable(made'[i].from) => Placed(made'[i])
      <3>1. \A i \in 1 .. n : Stable(made'[i].from) => Placed(made'[i])
        BY <2>1 DEF SearchInv, MadeInv
      <3>2. Stable(made'[n + 1].from) => Placed(made'[n + 1])
        BY <1>4, <2>1, <2>2
      <3>3. QED
        BY <2>1, <3>1, <3>2
    <2>4. SUFFICES ASSUME NEW i \in 1 .. n + 1, Stable(made[i].from)' PROVE Placed(made[i])'
      BY <2>1 DEF MadeInv
    <2>5. Stable(made'[i].from)
      BY <1>1, <1>2, <2>4 DEF Stable, LastMsg
    <2>6. Placed(made'[i])
      BY <2>3, <2>5
    <2>7. QED
      BY <1>1, <1>2, <2>6 DEF Placed, Stands, IsBlock, FirstMsg, LastMsg
  <1>11. QED
    BY <1>7, <1>8, <1>9, <1>10 DEF SearchInv

\* What a reorganisation between two calls leaves.
LEMMA ForkFrame ==
    ASSUME CallTyped, Chain, reorgs' # reorgs
    PROVE  /\ head' = head
           /\ begun.from - 1 \in FirstSlot .. head
           /\ chain'[begun.from - 1] = chain[begun.from - 1]
           /\ \A q \in Nat : Stable(q)' => Stable(q)
           /\ \A s \in FirstSlot .. head : Stands(s)' => Stands(s) /\ chain'[s] = chain[s]
           /\ \A s \in FirstSlot .. head, q \in Nat :
                 Stable(q)' /\ FirstMsg(s) <= q /\ q <= LastMsg(s) /\ Stands(s) =>
                    /\ Stands(s)' /\ chain'[s] = chain[s] /\ begun.from <= s
                    /\ FirstMsg(s)' = FirstMsg(s) /\ LastMsg(s)' = LastMsg(s)
  <1>1. ChainNext /\ UNCHANGED <<pc, searchVars, begun>>
    BY DEF Chain
  <1>2. /\ head' = head /\ fin' = fin /\ reorgs' # 0
        /\ \A s \in FirstSlot .. fin : chain'[s] = chain[s]
    BY <1>1, CallNumbers, ForkStep
  <1>3. /\ begun.fin \in FirstSlot .. fin /\ FirstSlot \in Nat /\ fin \in Nat /\ head \in Nat
        /\ fin <= head /\ begun.from \in Nat /\ begun.fin \in FirstSlot .. head
        /\ begun.from - 1 \in FirstSlot .. fin /\ begun.from - 1 \in FirstSlot .. head
    BY CallNumbers
  <1>4. \A s \in FirstSlot .. head : s <= begun.fin => s \in FirstSlot .. fin /\ chain'[s] = chain[s]
    BY <1>2, <1>3
  <1>5. LastMsg(begun.fin)' = LastMsg(begun.fin) /\ LastMsg(begun.from - 1)' = LastMsg(begun.from - 1)
    BY <1>1, <1>2, <1>3 DEF LastMsg
  <1>6. \A q \in Nat : Stable(q)' => LastMsg(begun.from - 1) < q /\ q <= LastMsg(begun.fin)
    BY <1>1, <1>2, <1>5 DEF Stable
  <1>7. ASSUME NEW s \in FirstSlot .. head, Stands(s)'
        PROVE  Stands(s) /\ chain'[s] = chain[s]
    <2>1. s \in begun.from .. begun.fin /\ IsBlock(s)'
      BY <1>1, <1>2, <1>7 DEF Stands
    <2>2. chain'[s] = chain[s]
      BY <1>3, <1>4, <2>1
    <2>3. QED
      BY <2>1, <2>2 DEF Stands, IsBlock
  <1>8. ASSUME NEW s \in FirstSlot .. head, NEW q \in Nat,
               Stable(q)', FirstMsg(s) <= q, q <= LastMsg(s), Stands(s)
        PROVE  /\ Stands(s)' /\ chain'[s] = chain[s] /\ begun.from <= s
               /\ FirstMsg(s)' = FirstMsg(s) /\ LastMsg(s)' = LastMsg(s)
    <2>1. s <= begun.fin
      BY <1>3, <1>6, <1>8, HeldUpTo, CallNumbers
    <2>2. begun.from - 1 < s
      BY <1>3, <1>6, <1>8, HeldAfter, CallNumbers
    <2>3. s \in begun.from .. begun.fin
      BY <1>3, <2>1, <2>2
    <2>4. chain'[s] = chain[s]
      BY <1>4, <2>1
    <2>5. s # FirstSlot => chain'[s - 1] = chain[s - 1]
      BY <1>2, <1>3, <2>1
    <2>6. QED
      BY <1>1, <1>2, <1>8, <2>3, <2>4, <2>5 DEF Stands, IsBlock, FirstMsg, LastMsg
  <1>9. QED
    BY <1>2, <1>3, <1>6, <1>7, <1>8 DEF Stable

LEMMA ForkSearch ==
    ASSUME CallTyped, CoverInv, SearchInv, Chain
    PROVE  SearchInv'
  <1>1. /\ UNCHANGED <<pc, begun, rg, ask, bn, hit, low, high, mid, slot, made>>
        /\ pc = "idle" \/ (Calling /\ reorgs' # reorgs)
    BY DEF Chain, searchVars
  <1>2. CASE pc = "idle"
    <2>1. DOMAIN made' = {}
      BY <1>1, <1>2 DEF CoverInv
    <2>2. QED
      BY <1>1, <1>2, <2>1 DEF SearchInv, FromInv, StartInv, EndInv, TargetInv, EarlyInv, MadeInv
  <1>3. CASE pc # "idle"
    <2>1. pc \in {"from", "to", "scan", "probe", "header"} /\ reorgs' # reorgs /\ rg.toSlot <= head
      BY <1>1, <1>3, CallNumbers DEF Calling, Asking
    <2>2. /\ head' = head /\ reorgs' # 0
          /\ begun.from - 1 \in FirstSlot .. head
          /\ chain'[begun.from - 1] = chain[begun.from - 1]
          /\ \A q \in Nat : Stable(q)' => Stable(q)
          /\ \A s \in FirstSlot .. head : Stands(s)' => Stands(s) /\ chain'[s] = chain[s]
          /\ \A s \in FirstSlot .. head, q \in Nat :
                Stable(q)' /\ FirstMsg(s) <= q /\ q <= LastMsg(s) /\ Stands(s) =>
                   /\ Stands(s)' /\ chain'[s] = chain[s] /\ begun.from <= s
                   /\ FirstMsg(s)' = FirstMsg(s) /\ LastMsg(s)' = LastMsg(s)
      <3>1. reorgs' # 0
        BY <2>1, CallNumbers, ForkStep DEF Chain
      <3>2. QED
        BY <2>1, <3>1, ForkFrame
    <2>3. FromInv'
      <3>1. SUFFICES ASSUME pc \in {"from", "to"} PROVE FromInv'
        BY <1>1 DEF FromInv
      <3>2. /\ rg.fSlot = begun.from /\ IsBlock(rg.fSlot - 1)
            /\ rg.fSlot <= rg.toSlot
            /\ pc = "from" => ask = rg.fSlot \/ ask = rg.fSlot - 1
            /\ pc = "to" => ask \in rg.fSlot - 1 .. rg.toSlot
        BY <3>1 DEF SearchInv, FromInv
      <3>3. QED
        BY <1>1, <2>2, <3>2 DEF FromInv, IsBlock
    <2>4. rg.seq \in Nat /\ rg.fSlot \in Nat
      BY CallNumbers
    <2>5. StartInv'
      <3>1. SUFFICES ASSUME pc \in {"to", "scan", "probe", "header"}, Stable(rg.seq)',
                            NEW s \in FirstSlot .. head, Stands(s)', chain'[s].bn >= rg.fbn
                     PROVE  s >= rg.fSlot \/ JustBefore(s, rg.fSlot)'
        BY <1>1, <2>2 DEF StartInv
      <3>2. Stable(rg.seq)
        BY <1>1, <2>2, <2>4, <3>1 DEF Stable
      <3>3. Stands(s) /\ chain[s].bn >= rg.fbn
        BY <2>2, <3>1
      <3>4. s >= rg.fSlot \/ JustBefore(s, rg.fSlot)
        BY <3>1, <3>2, <3>3 DEF SearchInv, StartInv
      <3>5. begun.from <= s
        BY <1>1, <2>2, <3>1, CallNumbers DEF Stands
      <3>6. QED
        BY <3>4, <3>5, CallNumbers DEF JustBefore
    <2>6. EndInv'
      BY <1>1, <2>2 DEF SearchInv, EndInv
    <2>7. ASSUME NEW q \in Nat, NEW s \in FirstSlot .. head,
                 Stable(q)', FirstMsg(s) <= q, q <= LastMsg(s), Stands(s)
          PROVE  /\ Stands(s)' /\ chain'[s] = chain[s] /\ begun.from <= s
                 /\ FirstMsg(s)' = FirstMsg(s) /\ LastMsg(s)' = LastMsg(s)
      BY <2>2, <2>7
    <2>8. TargetInv'
      <3>1. SUFFICES ASSUME pc \in {"probe", "header"}, Stable(rg.seq)' PROVE TargetInv'
        BY <1>1 DEF TargetInv
      <3>2. Stable(rg.seq)
        BY <1>1, <2>2, <2>4, <3>1 DEF Stable
      <3>3. PICK s \in FirstSlot .. head :
               Found(s) /\ (pc = "probe" => Ahead(s)) /\ (pc = "header" => slot = s)
        BY <3>1, <3>2, Zenon DEF SearchInv, TargetInv
      <3>4. /\ Stands(s) /\ chain[s].bn = hit.bn /\ FirstMsg(s) <= rg.seq /\ LastMsg(s) = hit.to
            /\ s <= rg.toSlot /\ (s >= rg.fSlot \/ JustBefore(s, rg.fSlot))
        BY <3>3 DEF Found
      <3>5. /\ Stands(s)' /\ chain'[s] = chain[s] /\ begun.from <= s
            /\ FirstMsg(s)' = FirstMsg(s) /\ LastMsg(s)' = LastMsg(s)
        <4>1. Stable(rg.seq)' /\ \E q \in Nat : q = rg.seq /\ Stable(q)'
          BY <1>1, <2>4, <3>1 DEF Stable
        <4>2. rg.seq <= LastMsg(s)
          BY <3>1, <3>4, CallNumbers DEF CallInv
        <4>3. QED
          BY <2>7, <3>4, <4>1, <4>2
      <3>6. \A f : ~JustBefore(s, f)
        BY <3>5, CallNumbers DEF JustBefore
      <3>7. Found(s)'
        BY <1>1, <3>4, <3>5, <3>6 DEF Found
      <3>8. pc = "probe" => Ahead(s)'
        BY <1>1, <3>3, <3>6 DEF Ahead
      <3>9. QED
        BY <1>1, <2>2, <3>3, <3>7, <3>8 DEF TargetInv
    <2>9. MadeInv'
      <3>1. SUFFICES ASSUME NEW i \in DOMAIN made, Stable(made[i].from)' PROVE Placed(made[i])'
        BY <1>1 DEF MadeInv
      <3>2. made[i].from \in Nat
        <4> DEFINE S == [slot : Nat, ver : Versions, from : Nat, to : Nat]
        <4>1. made \in Seq(S)
          BY CallNumbers DEF TypeOK
        <4>2. \A x \in S : x.from \in Nat
          OBVIOUS
        <4> HIDE DEF S
        <4>3. made[i] \in S
          BY <4>1, LenProperties, ElementOfSeq
        <4>4. QED
          BY <4>2, <4>3
      <3>3. PICK q \in Nat : q = made[i].from
        BY <3>2
      <3>4. Stable(q)'
        BY <1>1, <3>1, <3>3 DEF Stable
      <3>5. PICK s : s = made[i].slot
        OBVIOUS
      <3>6. /\ Stands(s) /\ made[i].ver = chain[s].ver
            /\ FirstMsg(s) <= q /\ q <= LastMsg(s) /\ made[i].to = LastMsg(s)
        BY <2>2, <3>3, <3>4, <3>5 DEF SearchInv, MadeInv, Placed
      <3>7. s \in FirstSlot .. head
        BY <3>6 DEF Stands
      <3>8. Stands(s)' /\ chain'[s] = chain[s] /\ FirstMsg(s)' = FirstMsg(s) /\ LastMsg(s)' = LastMsg(s)
        BY <2>7, <3>4, <3>6, <3>7
      <3>9. QED
        BY <1>1, <3>3, <3>5, <3>6, <3>8 DEF Placed, Stands, IsBlock, FirstMsg, LastMsg
    <2>10. EarlyInv'
      BY <1>1, <2>2 DEF SearchInv, EarlyInv, LastMsg
    <2>11. QED
      BY <2>3, <2>5, <2>6, <2>8, <2>9, <2>10 DEF SearchInv
  <1>4. QED
    BY <1>2, <1>3

LEMMA NextSearch == CallTyped /\ CoverInv /\ SearchInv /\ [Next]_vars => SearchInv'
  <1> SUFFICES ASSUME CallTyped, CoverInv, SearchInv, [Next]_vars PROVE SearchInv'
    OBVIOUS
  <1>1. CASE \E from, to \in Slots, seq \in 1 .. MaxTxSeq : Begin(from, seq, to)
    BY <1>1, BeginSearch
  <1>2. CASE AskBefore
    BY <1>2, AskBeforeSearch
  <1>3. CASE AskFrom
    BY <1>3, AskFromSearch
  <1>4. CASE AskTo
    BY <1>4, AskToSearch
  <1>5. CASE Scan
    BY <1>5, ScanSearch
  <1>6. CASE ProbeFound
    BY <1>6, ProbeFoundSearch
  <1>7. CASE ProbeAbove
    BY <1>7, ProbeAboveSearch
  <1>8. CASE ProbeBelow
    BY <1>8, ProbeBelowSearch
  <1>9. CASE MakeProof
    BY <1>9, MakeProofSearch
  <1>10. CASE ScanFails \/ SearchEnd \/ NoHeaderThere \/ CallFails
    <2>1. pc' \in {"notFound", "done", "failed"} /\ UNCHANGED <<chainVars, made, begun>>
      BY <1>10 DEF ScanFails, SearchEnd, NoHeaderThere, CallFails, searchVars
    <2>2. MadeInv'
      BY <2>1, MadeStays DEF SearchInv
    <2>3. QED
      BY <2>1, <2>2 DEF SearchInv, FromInv, StartInv, EndInv, TargetInv, EarlyInv
  <1>11. CASE Chain
    BY <1>11, ForkSearch
  <1>12. CASE UNCHANGED vars
    <2>1. /\ UNCHANGED <<pc, rg, ask, bn, hit, low, high, mid, slot, made, begun, chainVars>>
          /\ UNCHANGED <<chain, head, reorgs>>
      BY <1>12 DEF vars, searchVars, chainVars
    <2>2. MadeInv'
      BY <2>1, MadeStays DEF SearchInv
    <2>3. FromInv' /\ StartInv' /\ EndInv'
      BY <2>1 DEF SearchInv, FromInv, StartInv, EndInv, Stands, Stable, JustBefore, IsBlock, LastMsg
    <2>4. TargetInv'
      BY <2>1 DEF SearchInv, TargetInv, Found, Ahead, Stands, Stable, JustBefore, IsBlock,
                  FirstMsg, LastMsg
    <2>5. EarlyInv'
      BY <2>1 DEF SearchInv, EarlyInv, LastMsg
    <2>6. QED
      BY <2>2, <2>3, <2>4, <2>5 DEF SearchInv
  <1>13. QED
    BY <1>1, <1>2, <1>3, <1>4, <1>5, <1>6, <1>7, <1>8, <1>9, <1>10, <1>11, <1>12 DEF Next, Step

LEMMA SearchAlways == Spec => [](CallTyped /\ CoverInv /\ SearchInv)
  <1>1. Init => SearchInv
    <2> SUFFICES ASSUME Init PROVE SearchInv
      OBVIOUS
    <2>1. pc = "idle" /\ DOMAIN made = {}
      BY DEF Init
    <2>2. QED
      BY <2>1 DEF SearchInv, FromInv, StartInv, EndInv, TargetInv, EarlyInv, MadeInv
  <1>2. QED
    BY <1>1, NextSearch, CoverAlways, PTL DEF Spec

\* The binary search of findSlotForBlockNumber, over slots that have no block, ends at
\* the slot of the block that has the logs, and never at 0 or a neighbour, if the block
\* was final when the search began or nothing is reorganised meanwhile (MadeProvable):
\* the proof made is of that slot's block and holds messages of it only.
THEOREM MadeAreProvable == Spec => []MadeProvable
  <1>1. CallTyped /\ SearchInv => MadeProvable
    <2> SUFFICES ASSUME CallTyped, SearchInv, NEW i \in DOMAIN made, Stable(made[i].from)
                 PROVE  made[i].slot \in Slots /\ Provable(made[i])
      BY DEF MadeProvable
    <2>1. Placed(made[i])
      BY DEF SearchInv, MadeInv
    <2>2. made[i].slot \in FirstSlot .. head
      BY <2>1 DEF Placed, Stands
    <2>3. made[i].slot \in Slots /\ made[i].slot \in FirstSlot .. head
      BY <2>2, SlotType, CallNumbers
    <2>4. made[i].to <= LastMsg(made[i].slot)
      <3>1. LastMsg(made[i].slot) \in Nat
        BY <2>2, SlotType, CallNumbers DEF Seqs
      <3>2. QED
        BY <2>1, <3>1 DEF Placed
    <2>5. QED
      BY <2>1, <2>3, <2>4 DEF Placed, Provable
  <1>2. QED
    BY <1>1, SearchAlways, PTL

------------------------------------------------------------------------------
(* The calls find what the step of Receiver finds *)

LEMMA Division ==
    \A n \in Nat \ {0}, a \in Nat :
        a = n * (a \div n) + (a % n) /\ a % n \in 0 .. n - 1 /\ a \div n \in Nat
  BY SMTT(30)

LEMMA Multiples == \A n, x, y \in Nat : x < y => n * x + n <= n * y
  <1>1. \A n, x, d \in Nat : n * x + n <= n * (x + 1 + d)
    BY SMTT(30)
  <1>2. \A x, y \in Nat : x < y => y - x - 1 \in Nat /\ x + 1 + (y - x - 1) = y
    OBVIOUS
  <1>3. QED
    BY <1>1, <1>2

\* Between two multiples there is none.
LEMMA NoMultiple ==
    ASSUME NEW n \in Nat \ {0}, NEW x \in Nat, NEW y \in Nat,
           n * x < n * y, n * y < n * x + n
    PROVE  FALSE
  <1>1. n * x \in Nat /\ n * y \in Nat
    OBVIOUS
  <1>2. ~(x < y)
    <2>1. x < y => n * x + n <= n * y
      BY Multiples
    <2>2. QED
      BY <1>1, <2>1
  <1>3. ~(y < x)
    <2>1. y < x => n * y + n <= n * x
      BY Multiples
    <2>2. QED
      BY <1>1, <2>1
  <1>4. x = y
    BY <1>2, <1>3
  <1>5. QED
    BY <1>1, <1>4

LEMMA MultipleOf ==
    ASSUME NEW n \in Nat \ {0}, NEW a \in Nat, a % n = 0
    PROVE  \E x \in Nat : a = n * x
  <1>1. a = n * (a \div n) + (a % n) /\ a \div n \in Nat
    BY Division, Zenon
  <1>2. n * (a \div n) \in Nat
    BY <1>1
  <1>3. a = n * (a \div n)
    BY <1>1, <1>2
  <1>4. QED
    BY <1>1, <1>3

LEMMA ModBetween ==
    ASSUME NEW n \in Nat \ {0}, NEW a \in Nat, NEW b \in Nat, a % n = 0, a < b, b < a + n
    PROVE  b % n # 0
  <1> SUFFICES ASSUME b % n = 0 PROVE FALSE
    OBVIOUS
  <1>1. PICK x \in Nat : a = n * x
    BY MultipleOf
  <1>2. PICK y \in Nat : b = n * y
    BY MultipleOf
  <1>3. QED
    BY <1>1, <1>2, NoMultiple

LEMMA ModNext ==
    ASSUME NEW n \in Nat \ {0}, NEW a \in Nat, NEW b \in Nat, a % n = 0, b = a + n
    PROVE  b % n = 0
  <1>1. PICK x \in Nat : a = n * x
    BY MultipleOf
  <1>2. PICK y, r \in Nat : b = n * y + r /\ r \in 0 .. n - 1 /\ r = b % n
    <2>1. b \div n \in Nat /\ b % n \in 0 .. n - 1 /\ b = n * (b \div n) + (b % n)
      BY Division, Zenon
    <2>2. b % n \in Nat
      BY <2>1
    <2>3. QED
      BY <2>1, <2>2
  <1>3. n * (x + 1) = b
    <2>1. \A m, z \in Nat : m * (z + 1) = m * z + m
      OBVIOUS
    <2>2. QED
      BY <1>1, <2>1
  <1>4. ASSUME r # 0 PROVE FALSE
    <2>1. n * y \in Nat /\ n * y < n * (x + 1) /\ n * (x + 1) < n * y + n
      BY <1>2, <1>3, <1>4
    <2>2. x + 1 \in Nat
      OBVIOUS
    <2>3. QED
      BY <2>1, <2>2, NoMultiple
  <1>5. QED
    BY <1>2, <1>4

LEMMA ZeroMod == \A n \in Nat \ {0} : 0 % n = 0
  BY SMTT(30)

\* A chunk begins a number of whole chunks after the first or behind the last block,
\* and the blocks before it do not hold the next message.
ScanInv ==
    pc \in {"scan", "probe", "header"} /\ reorgs = 0 =>
        /\ (bn - rg.fbn) % (MaxFilter + 1) = 0 \/ bn = rg.tbn + 1
        /\ \A s \in FirstSlot .. head :
              IsBlock(s) /\ rg.fbn <= chain[s].bn /\ chain[s].bn < bn =>
                  ~(FirstMsg(s) <= rg.seq /\ rg.seq <= LastMsg(s))

\* The logs found are of a block that is scanned.
HitInv ==
    pc \in {"probe", "header"} /\ reorgs = 0 =>
        rg.fbn <= hit.bn /\ hit.bn \in ScannedBlocks(rg.fbn, rg.tbn)

\* What no chunk but the next looks at.
LEMMA ScanStays ==
    ASSUME ScanInv, UNCHANGED <<chainVars, rg, bn>>,
           pc' \in {"scan", "probe", "header"} => pc \in {"scan", "probe", "header"}
    PROVE  ScanInv'
  BY DEF ScanInv, chainVars, IsBlock, FirstMsg, LastMsg

LEMMA ScanScans ==
    ASSUME CallTyped, SearchInv, ScanInv, HitInv, Scan
    PROVE  ScanInv' /\ HitInv'
  <1> DEFINE n == MaxFilter + 1
  <1>1. /\ pc = "scan" /\ bn < rg.tbn /\ UNCHANGED <<chainVars, rg>>
    BY DEF Scan
  <1>2. chain' = chain /\ head' = head /\ reorgs' = reorgs
    BY <1>1 DEF chainVars
  <1>3. n \in Nat \ {0} /\ MaxFilter \in Nat /\ bn \in Nat /\ rg.fbn \in Nat /\ rg.tbn \in Nat
    BY CallNumbers, SearchAssumption
  <1>4. rg.fbn <= bn /\ bn - rg.fbn \in Nat
    <2>1. rg.fbn <= bn
      BY <1>1 DEF SearchInv, EndInv
    <2>2. QED
      BY <1>3, <2>1
  <1>5. reorgs = 0 => (bn - rg.fbn) % n = 0
    <2>1. bn # rg.tbn + 1
      BY <1>1, <1>3
    <2>2. QED
      BY <1>1, <2>1 DEF ScanInv
  <1> HIDE DEF n
  <1>6. /\ ChunkEnd \in Nat /\ bn <= ChunkEnd /\ ChunkEnd <= rg.tbn
        /\ ChunkEnd + 1 = bn + n \/ ChunkEnd = rg.tbn
        /\ ChunkEnd < bn + n
    BY <1>1, <1>3 DEF ChunkEnd, n
  <1>7. CASE Matches = {} /\ bn' = NextChunk /\ pc' = pc
    <2>1. bn' = ChunkEnd + 1
      BY <1>7 DEF NextChunk
    <2>2. HitInv'
      BY <1>1, <1>7 DEF HitInv
    <2>3. SUFFICES ASSUME reorgs = 0 PROVE ScanInv'
      BY <1>2, <2>2 DEF ScanInv
    <2>4. (bn' - rg.fbn) % n = 0 \/ bn' = rg.tbn + 1
      <3>1. CASE ChunkEnd + 1 = bn + n
        <4>1. bn' - rg.fbn = (bn - rg.fbn) + n /\ bn' - rg.fbn \in Nat
          BY <1>3, <1>4, <2>1, <3>1
        <4>2. QED
          BY <1>3, <1>4, <1>5, <2>3, <4>1, ModNext
      <3>2. CASE ChunkEnd = rg.tbn
        BY <2>1, <3>2
      <3>3. QED
        BY <1>6, <3>1, <3>2
    <2>5. ASSUME NEW s \in FirstSlot .. head, IsBlock(s), rg.fbn <= chain[s].bn, chain[s].bn < bn'
          PROVE  ~(FirstMsg(s) <= rg.seq /\ rg.seq <= LastMsg(s))
      <3>1. chain[s].bn \in Nat
        BY SlotType, CallNumbers
      <3>2. CASE chain[s].bn < bn
        BY <1>1, <2>3, <2>5, <3>2 DEF ScanInv
      <3>3. CASE bn <= chain[s].bn
        <4>1. chain[s].bn <= ChunkEnd
          BY <1>6, <2>1, <2>5, <3>1
        <4>2. s \notin Matches
          BY <1>7
        <4>3. QED
          BY <2>5, <3>3, <4>1, <4>2 DEF Matches
      <3>4. QED
        BY <1>3, <3>1, <3>2, <3>3
    <2>6. (bn' - rg'.fbn) % (MaxFilter + 1) = 0 \/ bn' = rg'.tbn + 1
      BY <1>1, <2>4 DEF n
    <2>7. QED
      BY <1>1, <1>2, <2>2, <2>5, <2>6 DEF ScanInv, IsBlock, FirstMsg, LastMsg
  <1>8. ASSUME NEW s \in Matches, hit' = [bn |-> chain[s].bn, to |-> LastMsg(s)],
               Probe(rg.fSlot, rg.toSlot), UNCHANGED bn
        PROVE  ScanInv' /\ HitInv'
    <2>1. /\ s \in FirstSlot .. head /\ IsBlock(s) /\ chain[s].bn \in Nat
          /\ bn <= chain[s].bn /\ chain[s].bn <= ChunkEnd
      BY MatchFields, CallNumbers
    <2>2. ScanInv'
      BY <1>1, <1>8, ScanStays
    <2>3. rg.fbn <= chain[s].bn /\ chain[s].bn <= rg.tbn
      BY <1>3, <1>4, <1>6, <2>1
    <2>4. ASSUME reorgs = 0, (rg.tbn - rg.fbn) % n = 0 PROVE chain[s].bn <= rg.tbn - 1
      <3>1. SUFFICES ASSUME chain[s].bn = rg.tbn PROVE FALSE
        BY <1>3, <2>1, <2>3
      <3>2. rg.tbn < bn + n
        BY <1>3, <1>6, <2>1, <3>1
      <3>3. /\ rg.tbn - rg.fbn \in Nat /\ bn - rg.fbn < rg.tbn - rg.fbn
            /\ rg.tbn - rg.fbn < (bn - rg.fbn) + n
        BY <1>1, <1>3, <1>4, <3>2
      <3>4. (bn - rg.fbn) % n = 0
        BY <1>5, <2>4
      <3>5. QED
        BY <1>3, <1>4, <2>4, <3>3, <3>4, ModBetween
    <2>5. reorgs = 0 => chain[s].bn \in ScannedBlocks(rg.fbn, rg.tbn)
      <3>1. SUFFICES ASSUME reorgs = 0 PROVE chain[s].bn \in ScannedBlocks(rg.fbn, rg.tbn)
        OBVIOUS
      <3>2. CASE (rg.tbn - rg.fbn) % n = 0
        <4>1. chain[s].bn \in rg.fbn .. rg.tbn - 1
          BY <1>3, <2>1, <2>3, <2>4, <3>1, <3>2
        <4>2. QED
          BY <3>2, <4>1 DEF ScannedBlocks, n
      <3>3. CASE (rg.tbn - rg.fbn) % n # 0
        <4>1. chain[s].bn \in rg.fbn .. rg.tbn
          BY <1>3, <2>1, <2>3
        <4>2. QED
          BY <3>3, <4>1 DEF ScannedBlocks, n
      <3>4. QED
        BY <3>2, <3>3
    <2>6. hit'.bn = chain[s].bn
      BY <1>8
    <2>7. HitInv'
      BY <1>1, <1>2, <2>3, <2>5, <2>6 DEF HitInv
    <2>8. QED
      BY <2>2, <2>7
  <1>9. QED
    BY <1>7, <1>8 DEF Scan

LEMMA NextScan ==
    CallTyped /\ SearchInv /\ ScanInv /\ HitInv /\ [Next]_vars => ScanInv' /\ HitInv'
  <1> SUFFICES ASSUME CallTyped, SearchInv, ScanInv, HitInv, [Next]_vars
               PROVE  ScanInv' /\ HitInv'
    OBVIOUS
  <1>1. CASE Scan
    BY <1>1, ScanScans
  <1>2. CASE AskTo
    <2>1. /\ pc' = "scan" /\ rg' = [rg EXCEPT !.tbn = AnsweredNum] /\ bn' = rg.fbn
          /\ UNCHANGED chainVars
      BY <1>2 DEF AskTo
    <2>2. rg'.fbn = rg.fbn /\ rg.fbn \in Nat
      BY <2>1, CallNumbers DEF TypeOK
    <2>3. (bn' - rg'.fbn) % (MaxFilter + 1) = 0
      <3>1. bn' - rg'.fbn = 0 /\ MaxFilter + 1 \in Nat \ {0}
        BY <2>1, <2>2, SearchAssumption
      <3>2. QED
        BY <3>1, ZeroMod
    <2>4. ASSUME NEW s \in FirstSlot .. head PROVE ~(rg.fbn <= chain[s].bn /\ chain[s].bn < rg.fbn)
      BY <2>2, SlotType, CallNumbers
    <2>5. QED
      BY <2>1, <2>2, <2>3, <2>4 DEF ScanInv, HitInv, chainVars, IsBlock
  <1>3. CASE MakeProof
    <2>1. /\ pc' = "scan" /\ bn' = hit.bn + 1
          /\ rg' = [rg EXCEPT !.seq = hit.to + 1, !.fbn = hit.bn + 1, !.fSlot = slot + 1]
          /\ UNCHANGED chainVars
      BY <1>3 DEF MakeProof
    <2>2. rg'.fbn = hit.bn + 1 /\ hit.bn + 1 \in Nat
      <3>1. hit.bn + 1 \in Nat
        BY CallNumbers
      <3>2. QED
        BY <2>1, <3>1, CallNumbers DEF TypeOK
    <2>3. (bn' - rg'.fbn) % (MaxFilter + 1) = 0
      <3>1. bn' - rg'.fbn = 0 /\ MaxFilter + 1 \in Nat \ {0}
        BY <2>1, <2>2, SearchAssumption
      <3>2. QED
        BY <3>1, ZeroMod
    <2>4. ASSUME NEW s \in FirstSlot .. head
          PROVE  ~(hit.bn + 1 <= chain[s].bn /\ chain[s].bn < hit.bn + 1)
      BY <2>2, SlotType, CallNumbers
    <2>5. QED
      BY <2>1, <2>2, <2>3, <2>4 DEF ScanInv, HitInv, chainVars, IsBlock
  <1>4. CASE \/ AskBefore \/ ProbeFound \/ ProbeAbove \/ ProbeBelow
    <2>1. /\ UNCHANGED <<chainVars, rg, bn, hit>>
          /\ pc' = pc \/ (pc = "probe" /\ pc' \in {"probe", "header"})
      BY <1>4 DEF AskBefore, ProbeFound, ProbeAbove, ProbeBelow, Probe
    <2>2. ScanInv'
      BY <2>1, ScanStays
    <2>3. HitInv'
      BY <2>1 DEF HitInv, chainVars
    <2>4. QED
      BY <2>2, <2>3
  <1>5. CASE \/ \E from, to \in Slots, seq \in 1 .. MaxTxSeq : Begin(from, seq, to)
             \/ AskFrom \/ ScanFails \/ SearchEnd \/ NoHeaderThere \/ CallFails
    <2>1. pc' \in {"from", "to", "notFound", "done", "failed"}
      BY <1>5 DEF Begin, AskFrom, ScanFails, SearchEnd, NoHeaderThere, CallFails
    <2>2. QED
      BY <2>1 DEF ScanInv, HitInv
  <1>6. CASE Chain
    <2>1. /\ (pc' = pc /\ pc = "idle") \/ (pc' = pc /\ reorgs' # reorgs)
          /\ ChainNext
      BY <1>6 DEF Chain
    <2>2. reorgs' # reorgs => reorgs' # 0
      BY <2>1, CallNumbers, ForkStep
    <2>3. QED
      BY <2>1, <2>2, CallNumbers DEF ScanInv, HitInv
  <1>7. CASE UNCHANGED vars
    <2>1. UNCHANGED <<chainVars, rg, bn, hit, pc, reorgs>>
      BY <1>7 DEF vars, searchVars, chainVars
    <2>2. QED
      BY <2>1, ScanStays DEF HitInv
  <1>8. QED
    BY <1>1, <1>2, <1>3, <1>4, <1>5, <1>6, <1>7 DEF Next, Step

\* As long as nothing is reorganised the calls of messageProofDatasByRange find the
\* block that the step of Receiver finds (FoundAt), and fail to find one only if there
\* is none (AgreesWithStep): for every length of range and of chunk, the last block
\* that getBTPLogsWithSeq leaves out included.
THEOREM CallsAgreeWithStep == Spec => AgreesWithStep
  <1>1. Init => ScanInv /\ HitInv
    BY DEF Init, ScanInv, HitInv
  <1>2. Spec => [](CallTyped /\ CoverInv /\ SearchInv /\ ScanInv /\ HitInv)
    BY <1>1, NextScan, SearchAlways, PTL DEF Spec
  <1>3. CallTyped /\ SearchInv /\ HitInv /\ MakeProof /\ reorgs = 0 =>
            slot \in FoundAt(rg) /\ hit.to = LastMsg(slot)
    <2> SUFFICES ASSUME CallTyped, SearchInv, HitInv, MakeProof, reorgs = 0
                 PROVE  slot \in FoundAt(rg) /\ hit.to = LastMsg(slot)
      OBVIOUS
    <2>1. pc = "header"
      BY DEF MakeProof
    <2>2. slot \in FirstSlot .. head /\ Found(slot)
      BY <2>1, Zenon DEF SearchInv, TargetInv, Stable
    <2>3. /\ IsBlock(slot) /\ slot <= rg.toSlot /\ FirstMsg(slot) <= rg.seq
          /\ hit.to = LastMsg(slot) /\ chain[slot].bn = hit.bn
          /\ slot >= rg.fSlot \/ JustBefore(slot, rg.fSlot)
      BY <2>2 DEF Found, Stands
    <2>4. rg.seq <= LastMsg(slot)
      BY <2>1, <2>3, CallNumbers DEF CallInv
    <2>5. chain[slot].bn \in ScannedBlocks(rg.fbn, rg.tbn)
      BY <2>1, <2>3 DEF HitInv
    <2>6. \A t \in slot + 1 .. rg.fSlot : ~IsBlock(t)
      <3>1. slot \in Nat /\ rg.fSlot \in Nat
        BY CallNumbers
      <3>2. CASE slot >= rg.fSlot
        BY <3>1, <3>2
      <3>3. CASE JustBefore(slot, rg.fSlot)
        <4>1. slot = rg.fSlot - 1 /\ ~IsBlock(rg.fSlot)
          BY <3>3 DEF JustBefore
        <4>2. \A t \in slot + 1 .. rg.fSlot : t = rg.fSlot
          BY <3>1, <4>1
        <4>3. QED
          BY <4>1, <4>2
      <3>4. QED
        BY <2>3, <3>2, <3>3
    <2>7. QED
      BY <2>2, <2>3, <2>4, <2>5, <2>6 DEF FoundAt, ScannedAt
  <1>4. CallTyped /\ ScanInv /\ ScanFails /\ reorgs = 0 => FoundAt(rg) = {}
    <2> SUFFICES ASSUME CallTyped, ScanInv, ScanFails, reorgs = 0, NEW s \in FoundAt(rg)
                 PROVE  FALSE
      OBVIOUS
    <2>1. pc = "scan" /\ bn >= rg.tbn
      BY DEF ScanFails
    <2>2. /\ s \in FirstSlot .. head /\ IsBlock(s)
          /\ chain[s].bn \in ScannedBlocks(rg.fbn, rg.tbn)
          /\ FirstMsg(s) <= rg.seq /\ rg.seq <= LastMsg(s)
      BY DEF FoundAt, ScannedAt
    <2>3. chain[s].bn \in Nat
      BY <2>2, SlotType, CallNumbers
    <2>4. rg.fbn <= chain[s].bn /\ chain[s].bn <= rg.tbn
      <3>1. chain[s].bn \in rg.fbn .. rg.tbn - 1 \/ chain[s].bn \in rg.fbn .. rg.tbn
        BY <2>2, Zenon DEF ScannedBlocks
      <3>2. rg.fbn \in Nat /\ rg.tbn \in Nat
        BY CallNumbers
      <3>3. QED
        BY <2>3, <3>1, <3>2
    <2>5. chain[s].bn < bn
      <3>1. CASE bn = rg.tbn
        <4>1. (rg.tbn - rg.fbn) % (MaxFilter + 1) = 0
          BY <2>1, <3>1, CallNumbers DEF ScanInv
        <4>2. chain[s].bn \in rg.fbn .. rg.tbn - 1
          BY <2>2, <4>1 DEF ScannedBlocks
        <4>3. QED
          BY <2>3, <3>1, <4>2, CallNumbers
      <3>2. CASE bn # rg.tbn
        BY <2>1, <2>3, <2>4, <3>2, CallNumbers
      <3>3. QED
        BY <3>1, <3>2
    <2>6. QED
      BY <2>1, <2>2, <2>4, <2>5 DEF ScanInv
  <1>5. QED
    BY <1>2, <1>3, <1>4, PTL DEF AgreesWithStep
=============================================================================
