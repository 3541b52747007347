------------------------ MODULE ReceiverStatusProofs ------------------------
(***************************************************************************)
(* What the receiver gathers, promises and finds: a status promises only   *)
(* messages that were sent, statuses rise, nothing is gathered twice; a    *)
(* rebuild that ends has a proof of every final message after the last     *)
(* status, and the search of the first update one of every message the     *)
(* link lacks.                                                             *)
(***************************************************************************)
EXTENDS ReceiverProofs

------------------------------------------------------------------------------
(* The inductive invariants *)

\* The slots of statuses rise from the last one taken to the one under way.
TurnInv ==
    /\ prevRS.slot <= fin /\ rs.slot <= fin
    /\ Announcing \/ pc = "send" => prevRS.slot <= lastFU
    /\ pc \in {"storeStatus", "send"} => rs.slot = lastFU

\* On the chain c with newest slot h, a proof that holds the messages of its block
\* from one of them on.
Exact(c, h, mp) ==
    mp.slot \in FirstSlot + 1 .. h /\ c[mp.slot - 1].tx < mp.from /\ mp.to = c[mp.slot].tx

AllExact(c, h, proofs) == \A i \in DOMAIN proofs : Exact(c, h, proofs[i])

\* On the chain c with finalized slot f, a status for a final slot that promises
\* what was sent.
Sent(c, f, st) == st.slot \in FirstSlot .. f /\ st.seq <= c[st.slot].tx

AllSent(c, f, statuses) == \A i \in DOMAIN statuses : Sent(c, f, statuses[i])

\* The header being handled is a block of the chain.
HeaderInv ==
    pc \in {"undelivered", "storeUndelivered", "header", "append"} =>
        hdr.slot <= head /\ IsBlock(hdr.slot) /\ hdr.bn = chain[hdr.slot].bn

\* Every proof is exact, wherever a slice of them was loaded.
ExactInv ==
    /\ AllExact(chain, head, mps)
    /\ AllExact(chain, head, made)
    /\ AllExact(chain, head, msnap)
    /\ gpc = "storeMps" => AllExact(chain, head, gsnap)

\* Every status is sent, wherever a slice of them was loaded.
SentInv ==
    /\ Sent(chain, fin, prevRS) /\ Sent(chain, fin, rs)
    /\ AllSent(chain, fin, rss) /\ AllSent(chain, fin, rsnap)
    /\ gpc = "storeRss" => AllSent(chain, fin, gsnap)

\* What holds without reorganisations.
CalmInv == HeaderInv /\ ExactInv /\ SentInv

LastTo(proofs) == proofs[Len(proofs)].to

\* No message is missing between one proof and the next, and none goes beyond the last.
Gathered(proofs) ==
    /\ \A i \in 1 .. Len(proofs) - 1 : proofs[i + 1].from <= proofs[i].to + 1
    /\ \A i \in DOMAIN proofs : proofs[i].to <= LastTo(proofs)

Appending == pc \in {"undelivered", "storeUndelivered", "append", "rebuild", "storeRebuilt"}

\* Unless the handler is about to append to it, what is held ends at seq.
RestInv == ~Appending => made = <<>> /\ (mps # <<>> => seq = LastTo(mps))

\* A block's messages follow those held.
AppendInv ==
    pc = "append" =>
        /\ msnap = mps /\ Len(made) = 1 /\ made[1].to = seq /\ made[1].from <= seq
        /\ mps # <<>> => made[1].from = LastTo(mps) + 1

\* The search of the first update may begin among the messages held, and it ends
\* after all of them.
FirstSearchInv ==
    /\ pc = "undelivered" =>
          /\ prevRS.seq <= rg.toSeq
          /\ made = <<>> => rg.seq <= rg.toSeq
          /\ made # <<>> => rg.seq = seq + 1 /\ seq = LastTo(made)
          /\ mps # <<>> =>
                /\ LastTo(mps) <= rg.toSeq
                /\ made = <<>> => rg.seq <= LastTo(mps) + 1
                /\ made # <<>> => made[1].from <= LastTo(mps) + 1
    /\ pc = "storeUndelivered" =>
          /\ msnap = mps /\ made # <<>> /\ seq = LastTo(made)
          /\ mps # <<>> => made[1].from <= LastTo(mps) + 1 /\ LastTo(mps) <= seq

\* A rebuild finds what it holds from nothing, and all that was received.
RebuildSearchInv ==
    /\ pc \in {"rebuild", "storeRebuilt"} =>
          mps = <<>> /\ (made # <<>> => seq = LastTo(made))
    /\ pc = "rebuild" => rg.seq = seq + 1 /\ bls.rx <= rg.toSeq
    /\ pc = "storeRebuilt" => msnap = mps /\ bls.rx <= seq

\* What the last status promised is behind seq, though not during the search of the
\* first update, and so is what the next one does.
PromiseInv ==
    /\ pc # "undelivered" => prevRS.seq <= seq
    /\ pc \in {"storeStatus", "send"} => prevRS.seq <= rs.seq /\ rs.seq <= seq
    /\ pc \in {"header", "append"} => once
    /\ mps # <<>> /\ ~once => bls.rx <= LastTo(mps)

\* What holds without reorganisations and clearData.
QuietInv ==
    /\ gpc = "idle"
    /\ Gathered(mps) /\ Gathered(made)
    /\ RestInv /\ AppendInv /\ FirstSearchInv /\ RebuildSearchInv /\ PromiseInv

------------------------------------------------------------------------------
(* Statuses take turns *)

LEMMA StatusNumbers ==
    ASSUME TypeOK
    PROVE  /\ prevRS.slot \in Nat /\ rs.slot \in Nat /\ prevRS.seq \in Nat /\ rs.seq \in Nat
           /\ upd.f \in Nat /\ lastFU \in Nat /\ fin \in Nat /\ head \in Nat
           /\ FirstSlot \in Nat /\ FirstSlot <= prevRS.slot /\ FirstSlot <= rs.slot
           /\ FirstSlot <= upd.f /\ seq \in Nat
           /\ FirstSlot <= fin /\ FirstSlot <= head
  BY ChainAssumption
     DEF TypeOK, ChainTypeOK, GatheredOK, HandlerOK, Status, Update, Slots, Seqs

\* A step that does not take a status, and goes on with the one under way or drops it.
LEMMA QuietTurn ==
    ASSUME TypeOK, TurnInv, TypeOK', fin <= fin', UNCHANGED <<prevRS, lastFU>>,
           rs' \in {rs, NoStatus},
           \/ pc' # "storeStatus" /\ pc' # "send" /\ (Announcing' => Announcing)
           \/ pc' = pc /\ rs' = rs
           \/ pc = "storeStatus" /\ rs' = rs
    PROVE  TurnInv'
  <1>1. /\ prevRS'.slot = prevRS.slot /\ lastFU' = lastFU
        /\ rs'.slot \in {rs.slot, FirstSlot}
    BY DEF NoStatus
  <1>2. fin' \in Nat /\ FirstSlot <= fin'
    BY SlotsAreNat DEF TypeOK, ChainTypeOK, Slots
  <1>3. prevRS'.slot <= fin' /\ rs'.slot <= fin'
    BY <1>1, <1>2, StatusNumbers DEF TurnInv
  <1>4. Announcing' \/ pc' = "send" => prevRS'.slot <= lastFU'
    BY <1>1 DEF TurnInv, Announcing
  <1>5. pc' \in {"storeStatus", "send"} => rs'.slot = lastFU'
    BY <1>1 DEF TurnInv, Announcing
  <1>6. QED
    BY <1>3, <1>4, <1>5 DEF TurnInv

LEMMA StartTurn ==
    ASSUME TypeOK, ChainOrder, LinkInv, StartState(dst), fin' = fin
    PROVE  TurnInv'
  BY FinalNumbers DEF StartState, TurnInv, Announcing, NoStatus, LinkInv

LEMMA HandlerTurn ==
    ASSUME TypeOK, AscendInv, ChainOrder, LinkInv, TurnInv, TypeOK', Handler
    PROVE  TurnInv'
  <1>1. ASSUME NEW h \in OptimisticUpdates, FirstUpdate(h) \/ LaterUpdate(h) PROVE TurnInv'
    <2>1. UNCHANGED <<fin, prevRS, lastFU, rs>> /\ pc' \in {"undelivered", "header"}
      BY <1>1 DEF FirstUpdate, LaterUpdate, chainVars
    <2>2. pc' # "storeStatus" /\ pc' # "send" /\ ~Announcing' /\ rs' = rs /\ fin <= fin'
      BY <2>1, StatusNumbers DEF Announcing
    <2>3. QED
      BY <2>1, <2>2, QuietTurn
  <1>2. CASE StoreUndelivered \/ GatherFromHeader \/ StoreGathered \/ RangeFails
    <2>1. UNCHANGED <<fin, prevRS, lastFU>> /\ pc' \in {"header", "append", "idle"}
          /\ rs' \in {rs, NoStatus}
      BY <1>2 DEF StoreUndelivered, GatherFromHeader, StoreGathered, RangeFails, Return, chainVars
    <2>2. pc' # "storeStatus" /\ pc' # "send" /\ ~Announcing' /\ fin <= fin'
      BY <2>1, StatusNumbers DEF Announcing
    <2>3. QED
      BY <2>1, <2>2, QuietTurn
  <1>3. CASE RangeStep \/ RangeMisses \/ RangeDone
    <2>1. UNCHANGED <<fin, prevRS, lastFU, rs>>
      BY <1>3 DEF RangeStep, RangeMisses, RangeDone, chainVars
    <2>2. pc' # "storeStatus" /\ pc' # "send" /\ (Announcing' => Announcing)
      BY <1>3 DEF RangeStep, RangeMisses, RangeDone, Searching, Announcing
    <2>3. fin <= fin' /\ rs' = rs
      BY <2>1, StatusNumbers
    <2>4. QED
      BY <2>1, <2>2, <2>3, QuietTurn
  <1>4. CASE RangePanics
    BY <1>4, StartTurn DEF RangePanics, Panic, chainVars
  <1>5. ASSUME NEW a \in Attesting, FinalityUpdate(a) PROVE TurnInv'
    <2>1. lastFU' = fin /\ pc' = "validate" /\ UNCHANGED <<fin, prevRS, rs>>
      BY <1>5 DEF FinalityUpdate, chainVars
    <2>2. QED
      BY <2>1 DEF TurnInv
  <1>6. CASE Validate \/ StoreRebuilt
    <2>1. UNCHANGED <<fin, prevRS, lastFU, rs>>
          /\ pc' \in {"announce", "rebuild"} /\ pc \in {"validate", "storeRebuilt"}
      BY <1>6 DEF Validate, StoreRebuilt, chainVars
    <2>2. QED
      BY <2>1, QuietTurn, StatusNumbers DEF Announcing
  <1>7. CASE MakeStatus
    <2>1. /\ pc = "announce" /\ pc' = "storeStatus" /\ rs'.slot = upd.f
          /\ UNCHANGED <<fin, prevRS, lastFU>>
      BY <1>7 DEF MakeStatus, chainVars
    <2>2. upd.f = lastFU /\ lastFU <= fin
      BY <2>1 DEF AscendInv, Announcing
    <2>3. prevRS.slot <= lastFU
      BY <2>1 DEF TurnInv, Announcing
    <2>4. QED
      BY <2>1, <2>2, <2>3 DEF TurnInv
  <1>8. CASE StoreStatus
    <2>1. pc = "storeStatus" /\ UNCHANGED <<fin, prevRS, lastFU, rs>>
      BY <1>8 DEF StoreStatus, chainVars
    <2>2. QED
      BY <2>1, QuietTurn, StatusNumbers
  <1>9. QED
    BY <1>1, <1>2, <1>3, <1>4, <1>5, <1>6, <1>7, <1>8 DEF Handler

LEMMA NextTurn ==
    ASSUME TypeOK, AscendInv, ChainOrder, LinkInv, TurnInv, TypeOK', [Next]_vars
    PROVE  TurnInv'
  <1>1. CASE Chain
    <2>1. fin <= fin'
      BY <1>1, ChainNextType DEF Chain, TypeOK
    <2>2. UNCHANGED <<prevRS, lastFU, rs, pc>>
      BY <1>1 DEF Chain, handlerVars
    <2>3. QED
      BY <2>1, <2>2, QuietTurn
  <1>2. CASE Consume
    <2>1. /\ pc = "send" /\ prevRS' = rs /\ pc' = "idle" /\ rs' = NoStatus
          /\ UNCHANGED <<fin, lastFU>>
      BY <1>2 DEF Consume, Return, chainVars
    <2>2. QED
      BY <2>1, StatusNumbers DEF TurnInv, Announcing, NoStatus
  <1>3. CASE RelayBlockUpdate \/ RefuseBlockUpdate \/ RelayMessageProof \/ Execute
    <2>1. UNCHANGED <<fin, prevRS, lastFU, rs, pc>>
      BY <1>3 DEF RelayBlockUpdate, RefuseBlockUpdate, RelayMessageProof, Execute, chainVars,
                  handlerVars
    <2>2. QED
      BY <2>1, QuietTurn, StatusNumbers
  <1>4. CASE Clear \/ LoadRss \/ StoreRss \/ ScanMps \/ LoadMps \/ StoreMps
    <2>1. UNCHANGED <<fin, prevRS, lastFU, rs, pc>>
      BY <1>4 DEF Clear, LoadRss, StoreRss, ScanMps, LoadMps, StoreMps, chainVars, handlerVars
    <2>2. QED
      BY <2>1, QuietTurn, StatusNumbers
  <1>5. CASE RpcFails
    <2>1. UNCHANGED <<fin, prevRS, lastFU>> /\ pc' = "idle" /\ rs' = NoStatus
      BY <1>5 DEF RpcFails, Return, chainVars
    <2>2. ~Announcing' /\ fin <= fin'
      BY <2>1, StatusNumbers DEF Announcing
    <2>3. QED
      BY <2>1, <2>2, QuietTurn
  <1>6. CASE ClearPanics \/ FaultPanics \/ Restart
    BY <1>6, StartTurn DEF ClearPanics, Panic, FaultPanics, Restart, chainVars
  <1>7. CASE UNCHANGED vars
    <2>1. UNCHANGED <<fin, prevRS, lastFU, rs, pc>>
      BY <1>7 DEF vars, chainVars, handlerVars
    <2>2. QED
      BY <2>1, QuietTurn, StatusNumbers
  <1>8. QED
    BY <1>1, <1>2, <1>3, <1>4, <1>5, <1>6, <1>7, HandlerTurn DEF Next, Link, ClearData

------------------------------------------------------------------------------
(* Sequences of proofs and of statuses *)

LEMMA ExactConcat ==
    ASSUME NEW c, NEW h, NEW p \in Seq(MsgProof), NEW q \in Seq(MsgProof),
           AllExact(c, h, p), AllExact(c, h, q)
    PROVE  AllExact(c, h, p \o q)
  BY ConcatElements DEF AllExact

LEMMA ExactAppend ==
    ASSUME NEW c, NEW h, NEW p \in Seq(MsgProof), NEW x \in MsgProof,
           AllExact(c, h, p), Exact(c, h, x)
    PROVE  AllExact(c, h, Append(p, x))
  <1>1. \A i \in 1 .. Len(p) + 1 : i \in 1 .. Len(p) \/ i = Len(p) + 1
    BY AppendElements
  <1>2. QED
    BY <1>1, AppendElements DEF AllExact

LEMMA ExactRest ==
    ASSUME NEW c, NEW h, NEW p \in Seq(MsgProof), NEW k \in Nat, AllExact(c, h, p)
    PROVE  AllExact(c, h, SubSeq(p, k + 1, Len(p)))
  BY RestFacts DEF AllExact

\* What is exact or sent stays so on a chain that goes on.
LEMMA ExactStays ==
    ASSUME NEW c, NEW h \in Nat, NEW d, NEW k \in Nat, h <= k, NEW p,
           \A s \in FirstSlot .. h : d[s] = c[s],
           AllExact(c, h, p)
    PROVE  AllExact(d, k, p)
  <1>1. ASSUME NEW mp, Exact(c, h, mp) PROVE Exact(d, k, mp)
    <2>1. mp.slot \in FirstSlot + 1 .. h
      BY <1>1 DEF Exact
    <2>2. /\ mp.slot \in FirstSlot .. h /\ mp.slot - 1 \in FirstSlot .. h
          /\ mp.slot \in FirstSlot + 1 .. k
      BY <2>1, ChainAssumption
    <2>3. QED
      BY <1>1, <2>2 DEF Exact
  <1>2. QED
    BY <1>1 DEF AllExact

LEMMA SentAppend ==
    ASSUME NEW c, NEW f, NEW p \in Seq(Status), NEW x \in Status,
           AllSent(c, f, p), Sent(c, f, x)
    PROVE  AllSent(c, f, Append(p, x))
  <1>1. \A i \in 1 .. Len(p) + 1 : i \in 1 .. Len(p) \/ i = Len(p) + 1
    BY AppendElements
  <1>2. QED
    BY <1>1, AppendElements DEF AllSent

LEMMA SentRest ==
    ASSUME NEW c, NEW f, NEW p \in Seq(Status), NEW k \in Nat, AllSent(c, f, p)
    PROVE  AllSent(c, f, SubSeq(p, k + 1, Len(p)))
  BY RestFacts DEF AllSent

LEMMA SentStays ==
    ASSUME NEW c, NEW f \in Nat, NEW d, NEW g \in Nat, f <= g,
           \A s \in FirstSlot .. f : d[s] = c[s]
    PROVE  /\ \A x : Sent(c, f, x) => Sent(d, g, x)
           /\ \A p : AllSent(c, f, p) => AllSent(d, g, p)
  <1>1. ASSUME NEW x, Sent(c, f, x) PROVE Sent(d, g, x)
    <2>1. x.slot \in FirstSlot .. f /\ x.slot \in FirstSlot .. g
      BY <1>1, ChainAssumption DEF Sent
    <2>2. QED
      BY <1>1, <2>1 DEF Sent
  <1>2. QED
    BY <1>1 DEF AllSent

------------------------------------------------------------------------------
(* Without reorganisations every proof is exact *)

\* Messages of a slot: none at the first, and each later one starts where the one
\* before ends.
LEMMA SlotMessages ==
    ASSUME TypeOK, ChainOrder, NEW s \in FirstSlot .. head
    PROVE  /\ chain[s].tx \in Nat /\ LastMsg(s) = chain[s].tx /\ FirstMsg(s) \in Nat \ {0}
           /\ FirstMsg(s) <= LastMsg(s) => s \in FirstSlot + 1 .. head
           /\ s # FirstSlot => s - 1 \in FirstSlot .. head /\ FirstMsg(s) = chain[s - 1].tx + 1
  <1>1. chain[s].tx \in Nat /\ FirstMsg(s) \in Nat \ {0}
    BY SlotType DEF TypeOK, Seqs
  <1>2. FirstMsg(FirstSlot) = 1 /\ LastMsg(FirstSlot) = 0
    BY DEF FirstMsg, LastMsg, ChainOrder
  <1>3. QED
    BY <1>1, <1>2, FinalNumbers DEF FirstMsg, LastMsg

\* A message block that a search finds.
LEMMA FoundExact ==
    ASSUME TypeOK, ChainOrder, NEW s \in FoundAt(rg)
    PROVE  /\ Exact(chain, head, [slot |-> s, ver |-> chain[s].ver,
                                  from |-> rg.seq, to |-> LastMsg(s)])
           /\ s \in FirstSlot + 1 .. head /\ FirstMsg(s) <= rg.seq /\ rg.seq <= LastMsg(s)
           /\ rg.seq \in Nat /\ LastMsg(s) \in Nat /\ FirstMsg(s) \in Nat \ {0}
           /\ FirstMsg(s) = chain[s - 1].tx + 1 /\ chain[s - 1].tx \in Nat
  <1>1. s \in FirstSlot .. head /\ FirstMsg(s) <= rg.seq /\ rg.seq <= LastMsg(s)
    BY DEF FoundAt, ScannedAt
  <1>2. rg.seq \in Nat
    BY DEF TypeOK, HandlerOK, Search
  <1>3. /\ s \in FirstSlot + 1 .. head /\ s # FirstSlot
        /\ LastMsg(s) = chain[s].tx /\ FirstMsg(s) = chain[s - 1].tx + 1
        /\ chain[s - 1].tx \in Nat /\ chain[s].tx \in Nat
    BY <1>1, <1>2, FinalNumbers, SlotMessages
  <1>4. QED
    BY <1>1, <1>2, <1>3 DEF Exact

\* As long as no block was orphaned a search finds the slot of every block it scans.
LEMMA NoneLost ==
    ASSUME reorgs = 0
    PROVE  LostAt(rg) = {} /\ ~RangeMisses
  BY DEF LostAt, RangeMisses

\* The block with the number of the header being handled is the header's.
LEMMA GatherExact ==
    ASSUME TypeOK, ChainOrder, HeaderInv, pc = "header",
           NEW s \in SlotsOfBlock(hdr.bn), FirstMsg(s) <= LastMsg(s)
    PROVE  /\ s = hdr.slot
           /\ Exact(chain, head, [slot |-> hdr.slot, ver |-> hdr.ver,
                                  from |-> FirstMsg(s), to |-> LastMsg(s)])
           /\ [slot |-> hdr.slot, ver |-> hdr.ver,
               from |-> FirstMsg(s), to |-> LastMsg(s)] \in MsgProof
           /\ FirstMsg(s) \in Nat \ {0} /\ LastMsg(s) \in Nat
  <1>1. s \in FirstSlot .. head /\ IsBlock(s) /\ chain[s].bn = hdr.bn
    BY DEF SlotsOfBlock
  <1>2. hdr.slot <= head /\ IsBlock(hdr.slot) /\ hdr.bn = chain[hdr.slot].bn
    BY DEF HeaderInv
  <1>3. hdr.slot \in FirstSlot .. head /\ hdr.slot \in Slots /\ hdr.ver \in Versions
    BY <1>2, FinalNumbers, ChainAssumption DEF TypeOK, HandlerOK, Header, Slots
  <1>4. chain[s].bn \in Nat /\ chain[hdr.slot].bn \in Nat
    BY <1>1, <1>3, SlotType DEF TypeOK
  <1>5. ~(s < hdr.slot) /\ ~(hdr.slot < s)
    BY <1>1, <1>2, <1>3, <1>4, FinalNumbers DEF ChainOrder, Ordered, IsBlock
  <1>6. s = hdr.slot
    BY <1>1, <1>3, <1>5, FinalNumbers
  <1>7. /\ s \in FirstSlot + 1 .. head /\ s # FirstSlot
        /\ LastMsg(s) = chain[s].tx /\ FirstMsg(s) = chain[s - 1].tx + 1
        /\ chain[s - 1].tx \in Nat /\ FirstMsg(s) \in Nat \ {0} /\ LastMsg(s) \in Nat
    BY <1>1, FinalNumbers, SlotMessages
  <1>8. Exact(chain, head, [slot |-> hdr.slot, ver |-> hdr.ver,
                            from |-> FirstMsg(s), to |-> LastMsg(s)])
    BY <1>6, <1>7 DEF Exact
  <1>9. LastMsg(s) \in Seqs
    BY <1>1, SlotType DEF TypeOK
  <1>10. QED
    BY <1>3, <1>6, <1>7, <1>8, <1>9, MsgProofType

\* An optimistic update is for a block of the chain, if none was orphaned.
LEMMA UpdateHeader ==
    ASSUME TypeOK, ChainOrder, reorgs = 0, NEW h \in OptimisticUpdates
    PROVE  /\ h.slot \in FirstSlot .. head /\ h.slot > att
           /\ IsBlock(h.slot) /\ h.bn = chain[h.slot].bn
  <1>1. h \in HeadersIn(FirstSlot .. head) /\ h.slot > att
    BY DEF OptimisticUpdates, ChainOrder
  <1>2. PICK s \in FirstSlot .. head : IsBlock(s) /\ h = HeaderAt(s)
    BY <1>1 DEF HeadersIn
  <1>3. QED
    BY <1>1, <1>2 DEF HeaderAt

LEMMA NextHeader ==
    ASSUME TypeOK, ChainOrder, reorgs = 0, reorgs' = 0, HeaderInv, [Next]_vars
    PROVE  HeaderInv'
  <1>1. ASSUME NEW h \in OptimisticUpdates, FirstUpdate(h) \/ LaterUpdate(h) PROVE HeaderInv'
    <2>1. hdr' = h /\ UNCHANGED <<chain, head>>
      BY <1>1 DEF FirstUpdate, LaterUpdate, chainVars
    <2>2. h.slot <= head /\ chain[h.slot].ver # 0 /\ h.bn = chain[h.slot].bn
      BY UpdateHeader, FinalNumbers DEF IsBlock
    <2>3. QED
      BY <2>1, <2>2 DEF HeaderInv, IsBlock
  <1>2. ASSUME UNCHANGED <<chain, head>>,
               \/ pc' \notin {"undelivered", "storeUndelivered", "header", "append"}
               \/ /\ hdr' = hdr
                  /\ pc \in {"undelivered", "storeUndelivered", "header", "append"}
               \/ UNCHANGED <<pc, hdr>>
        PROVE  HeaderInv'
    BY <1>2 DEF HeaderInv, IsBlock
  <1>3. CASE StoreUndelivered \/ GatherFromHeader \/ StoreGathered
    <2>1. UNCHANGED <<chain, head>>
      BY <1>3 DEF StoreUndelivered, GatherFromHeader, StoreGathered, chainVars
    <2>2. CASE StoreUndelivered \/ StoreGathered
      BY <1>2, <2>1, <2>2 DEF StoreUndelivered, StoreGathered, Return
    <2>3. CASE GatherFromHeader
      <3>1. pc = "header" /\ (pc' = "idle" \/ hdr' = hdr)
        BY <2>3 DEF GatherFromHeader, Return
      <3>2. QED
        BY <1>2, <2>1, <3>1
    <2>4. QED
      BY <1>3, <2>2, <2>3
  <1>4. CASE RangeStep \/ RangeMisses \/ RangeFails \/ RangeDone
    BY <1>2, <1>4 DEF RangeStep, RangeMisses, RangeFails, RangeDone, Searching, Return, chainVars
  <1>5. CASE RangePanics \/ ClearPanics \/ FaultPanics \/ Restart
    BY <1>2, <1>5 DEF RangePanics, ClearPanics, FaultPanics, Restart, Panic, StartState, chainVars
  <1>6. CASE \E a \in Attesting : FinalityUpdate(a)
    BY <1>2, <1>6 DEF FinalityUpdate, chainVars
  <1>7. CASE Validate \/ StoreRebuilt \/ MakeStatus \/ StoreStatus
    BY <1>2, <1>7 DEF Validate, StoreRebuilt, MakeStatus, StoreStatus, chainVars
  <1>8. CASE Link \/ RpcFails
    BY <1>2, <1>8 DEF Link, Consume, RelayBlockUpdate, RefuseBlockUpdate, RelayMessageProof,
                      Execute, RpcFails, Return, chainVars, handlerVars
  <1>9. CASE Clear \/ LoadRss \/ StoreRss \/ ScanMps \/ LoadMps \/ StoreMps
    BY <1>2, <1>9 DEF Clear, LoadRss, StoreRss, ScanMps, LoadMps, StoreMps, chainVars, handlerVars
  <1>10. CASE Chain
    <2>1. UNCHANGED <<pc, hdr>>
      BY <1>10 DEF Chain, handlerVars
    <2>2. head <= head' /\ \A s \in FirstSlot .. head : chain'[s] = chain[s]
      BY <1>10, ChainNextOrder DEF Chain, TypeOK
    <2>3. head' \in Nat
      BY <1>10, ChainNextType, SlotsAreNat DEF Chain, TypeOK, ChainTypeOK
    <2>4. SUFFICES ASSUME pc' \in {"undelivered", "storeUndelivered", "header", "append"}
                   PROVE  hdr.slot <= head' /\ chain'[hdr.slot].ver # 0
                            /\ hdr.bn = chain'[hdr.slot].bn
      BY <2>1 DEF HeaderInv, IsBlock
    <2>5. hdr.slot <= head /\ chain[hdr.slot].ver # 0 /\ hdr.bn = chain[hdr.slot].bn
      BY <2>1, <2>4 DEF HeaderInv, IsBlock
    <2>6. hdr.slot \in FirstSlot .. head
      BY <2>5, FinalNumbers, ChainAssumption DEF TypeOK, HandlerOK, Header, Slots
    <2>7. QED
      BY <2>2, <2>3, <2>5, <2>6, FinalNumbers
  <1>11. CASE UNCHANGED vars
    BY <1>2, <1>11 DEF vars, chainVars, handlerVars
  <1>12. QED
    BY <1>1, <1>3, <1>4, <1>5, <1>6, <1>7, <1>8, <1>9, <1>10, <1>11 DEF Next, Handler, ClearData

LEMMA ExactNothing == \A c, h : AllExact(c, h, <<>>)
  BY DEF AllExact

\* A step that makes no proof: it moves, drops or keeps what is exact already.
LEMMA ExactMoves ==
    ASSUME ExactInv, UNCHANGED <<chain, head>>,
           mps' \in {mps, <<>>}, made' \in {made, <<>>}, msnap' \in {msnap, mps, <<>>},
           gpc' # "storeMps" \/ UNCHANGED <<gpc, gsnap>>
    PROVE  ExactInv'
  <1>1. AllExact(chain, head, mps') /\ AllExact(chain, head, made') /\ AllExact(chain, head, msnap')
    BY ExactNothing DEF ExactInv
  <1>2. gpc' = "storeMps" => AllExact(chain, head, gsnap')
    BY DEF ExactInv
  <1>3. QED
    BY <1>1, <1>2 DEF ExactInv

LEMMA HandlerExact ==
    ASSUME TypeOK, ChainOrder, HeaderInv, ExactInv, reorgs = 0, Handler
    PROVE  ExactInv'
  <1>1. ASSUME NEW h \in OptimisticUpdates, FirstUpdate(h) \/ LaterUpdate(h) PROVE ExactInv'
    BY <1>1, ExactMoves DEF FirstUpdate, LaterUpdate, chainVars, clearVars
  <1>2. CASE StoreUndelivered
    <2>1. /\ mps' = msnap \o made /\ made' = <<>> /\ msnap' = <<>>
          /\ UNCHANGED <<chain, head, gpc, gsnap>>
      BY <1>2 DEF StoreUndelivered, chainVars, clearVars
    <2>2. AllExact(chain, head, mps')
      BY <2>1, ExactConcat DEF ExactInv, TypeOK, HandlerOK
    <2>3. QED
      BY <2>1, <2>2, ExactNothing DEF ExactInv
  <1>3. CASE StoreGathered
    <2>1. /\ mps' = msnap \o made /\ made' = <<>> /\ msnap' = <<>>
          /\ UNCHANGED <<chain, head, gpc, gsnap>>
      BY <1>3 DEF StoreGathered, Return, chainVars, clearVars
    <2>2. AllExact(chain, head, mps')
      BY <2>1, ExactConcat DEF ExactInv, TypeOK, HandlerOK
    <2>3. QED
      BY <2>1, <2>2, ExactNothing DEF ExactInv
  <1>4. CASE GatherFromHeader
    <2> DEFINE blocks == {s \in SlotsOfBlock(hdr.bn) : FirstMsg(s) <= LastMsg(s)}
    <2>1. pc = "header" /\ UNCHANGED <<chain, head, mps, gpc, gsnap>>
      BY <1>4 DEF GatherFromHeader, chainVars, clearVars
    <2>2. CASE Return
      BY <2>1, <2>2, ExactMoves DEF Return
    <2>3. ASSUME NEW s \in blocks, msnap' = mps,
                 made' = <<[slot |-> hdr.slot, ver |-> hdr.ver,
                            from |-> FirstMsg(s), to |-> LastMsg(s)]>>
          PROVE  ExactInv'
      <3>1. Exact(chain, head, [slot |-> hdr.slot, ver |-> hdr.ver,
                                from |-> FirstMsg(s), to |-> LastMsg(s)])
        BY <2>1, GatherExact
      <3>2. AllExact(chain, head, made')
        BY <2>3, <3>1 DEF AllExact
      <3>3. QED
        BY <2>1, <2>3, <3>2 DEF ExactInv
    <2>4. QED
      BY <1>4, <2>2, <2>3 DEF GatherFromHeader
  <1>5. CASE RangeStep
    <2>1. PICK s \in FoundAt(rg) :
             made' = Append(made, [slot |-> s, ver |-> chain[s].ver,
                                   from |-> rg.seq, to |-> LastMsg(s)])
      BY <1>5 DEF RangeStep
    <2>2. UNCHANGED <<chain, head, mps, msnap, gpc, gsnap>>
      BY <1>5 DEF RangeStep, chainVars, clearVars
    <2>3. AllExact(chain, head, made')
      BY <2>1, FoundExact, FoundAreScanned, ScannedAtType, ExactAppend DEF ExactInv, TypeOK, HandlerOK
    <2>4. QED
      BY <2>2, <2>3 DEF ExactInv
  <1>6. CASE RangeFails \/ RangeDone
    BY <1>6, ExactMoves DEF RangeFails, RangeDone, Return, chainVars, clearVars
  <1>7. CASE RangePanics
    BY <1>7, ExactMoves DEF RangePanics, Panic, StartState, chainVars
  <1>8. CASE \E a \in Attesting : FinalityUpdate(a)
    BY <1>8, ExactMoves DEF FinalityUpdate, chainVars, clearVars
  <1>9. CASE Validate \/ MakeStatus \/ StoreStatus
    BY <1>9, ExactMoves DEF Validate, MakeStatus, StoreStatus, chainVars, clearVars
  <1>10. CASE StoreRebuilt
    <2>1. /\ mps' \in {mps, msnap \o made} /\ made' = <<>> /\ msnap' = <<>>
          /\ UNCHANGED <<chain, head, gpc, gsnap>>
      BY <1>10 DEF StoreRebuilt, chainVars, clearVars
    <2>2. AllExact(chain, head, mps')
      BY <2>1, ExactConcat DEF ExactInv, TypeOK, HandlerOK
    <2>3. QED
      BY <2>1, <2>2, ExactNothing DEF ExactInv
  <1>11. ~RangeMisses
    BY NoneLost
  <1>12. QED
    BY <1>1, <1>2, <1>3, <1>4, <1>5, <1>6, <1>7, <1>8, <1>9, <1>10, <1>11 DEF Handler

LEMMA NextExact ==
    ASSUME TypeOK, ChainOrder, HeaderInv, ExactInv, reorgs = 0, reorgs' = 0, [Next]_vars
    PROVE  ExactInv'
  <1>1. CASE Chain
    <2>1. UNCHANGED <<mps, made, msnap, gpc, gsnap>>
      BY <1>1 DEF Chain, handlerVars, clearVars
    <2>2. head <= head' /\ \A s \in FirstSlot .. head : chain'[s] = chain[s]
      BY <1>1, ChainNextOrder DEF Chain, TypeOK
    <2>3. head \in Nat /\ head' \in Nat
      BY <1>1, ChainNextType, SlotsAreNat DEF Chain, TypeOK, ChainTypeOK
    <2>4. \A p : AllExact(chain, head, p) => AllExact(chain', head', p)
      BY <2>2, <2>3, ExactStays
    <2>5. QED
      BY <2>1, <2>4 DEF ExactInv
  <1>2. CASE Link \/ RpcFails
    BY <1>2, ExactMoves DEF Link, Consume, RelayBlockUpdate, RefuseBlockUpdate,
       RelayMessageProof, Execute, RpcFails, Return, chainVars, handlerVars, clearVars
  <1>3. CASE Clear \/ LoadRss \/ StoreRss \/ ScanMps
    BY <1>3, ExactMoves DEF Clear, LoadRss, StoreRss, ScanMps, chainVars, handlerVars
  <1>4. CASE LoadMps
    <2>1. /\ gsnap' = SubSeq(mps, gi + 1, Len(mps))
          /\ UNCHANGED <<chain, head, mps, made, msnap>>
      BY <1>4 DEF LoadMps, chainVars, handlerVars
    <2>2. AllExact(chain, head, gsnap')
      BY <2>1, ExactRest DEF ExactInv, TypeOK, GatheredOK, ClearOK
    <2>3. QED
      BY <2>1, <2>2 DEF ExactInv
  <1>5. CASE StoreMps
    <2>1. /\ gpc = "storeMps" /\ mps' = gsnap /\ gpc' = "idle"
          /\ UNCHANGED <<chain, head, made, msnap>>
      BY <1>5 DEF StoreMps, chainVars, handlerVars
    <2>2. QED
      BY <2>1 DEF ExactInv
  <1>6. CASE ClearPanics \/ FaultPanics \/ Restart
    BY <1>6, ExactMoves DEF ClearPanics, FaultPanics, Restart, Panic, StartState, chainVars
  <1>7. CASE UNCHANGED vars
    BY <1>7, ExactMoves DEF vars, chainVars, handlerVars, clearVars
  <1>8. QED
    BY <1>1, <1>2, <1>3, <1>4, <1>5, <1>6, <1>7, HandlerExact DEF Next, ClearData

------------------------------------------------------------------------------
(* Without reorganisations every status promises what was sent *)

LEMMA SeqAtChoice ==
    ASSUME NEW f
    PROVE  \/ LastProofsFor(f) = {} /\ SeqAt(f) = prevRS.seq
           \/ \E i \in LastProofsFor(f) : SeqAt(f) = mps[i].to
  BY DEF SeqAt

\* The status to announce for the finalized slot promises what was sent by then.
LEMMA SeqAtSent ==
    ASSUME TypeOK, AscendInv, ChainOrder, TurnInv, ExactInv, SentInv, pc = "announce"
    PROVE  /\ upd.f \in FirstSlot .. fin
           /\ SeqAt(upd.f) <= chain[upd.f].tx
  <1>1. upd.f = lastFU /\ lastFU <= fin /\ prevRS.slot <= lastFU
    BY DEF AscendInv, TurnInv, Announcing
  <1>2. upd.f \in FirstSlot .. fin /\ upd.f \in FirstSlot .. head
    BY <1>1, StatusNumbers, FinalNumbers
  <1>3. ASSUME NEW s \in FirstSlot .. upd.f
        PROVE  chain[s].tx <= chain[upd.f].tx /\ chain[s].tx \in Nat /\ chain[upd.f].tx \in Nat
    BY <1>2, FinalNumbers DEF LastMsg, Seqs
  <1>4. prevRS.seq <= chain[upd.f].tx
    <2>1. prevRS.slot \in FirstSlot .. upd.f /\ prevRS.seq <= chain[prevRS.slot].tx
      BY <1>1, StatusNumbers DEF SentInv, Sent
    <2>2. QED
      BY <1>3, <2>1, StatusNumbers
  <1>5. ASSUME NEW i \in LastProofsFor(upd.f) PROVE mps[i].to <= chain[upd.f].tx
    <2>1. i \in DOMAIN mps /\ mps[i].slot <= upd.f
      BY DEF LastProofsFor
    <2>2. Exact(chain, head, mps[i])
      BY <2>1 DEF ExactInv, AllExact
    <2>3. mps[i].slot \in FirstSlot .. upd.f /\ mps[i].to = chain[mps[i].slot].tx
      BY <2>1, <2>2, StatusNumbers DEF Exact
    <2>4. QED
      BY <1>3, <2>3
  <1>6. QED
    BY <1>2, <1>4, <1>5, SeqAtChoice

\* A step that makes no status: it moves, drops or keeps what was promised before.
LEMMA SentMoves ==
    ASSUME TypeOK, ChainOrder, SentInv, UNCHANGED <<chain, fin>>,
           prevRS' \in {prevRS, rs}, rs' \in {rs, NoStatus},
           rss' \in {rss, <<>>}, rsnap' \in {rsnap, rss, <<>>},
           gpc' # "storeRss" \/ UNCHANGED <<gpc, gsnap>>
    PROVE  SentInv'
  <1>1. Sent(chain, fin, NoStatus)
    BY FinalNumbers, StatusNumbers DEF Sent, NoStatus, LastMsg, Seqs, ChainOrder
  <1>2. AllSent(chain, fin, <<>>)
    BY DEF AllSent
  <1>3. /\ Sent(chain, fin, prevRS') /\ Sent(chain, fin, rs')
        /\ AllSent(chain, fin, rss') /\ AllSent(chain, fin, rsnap')
    BY <1>1, <1>2 DEF SentInv
  <1>4. gpc' = "storeRss" => AllSent(chain, fin, gsnap')
    BY DEF SentInv
  <1>5. QED
    BY <1>3, <1>4 DEF SentInv

\* The status of the destination was sent.
LEMMA StartSent ==
    ASSUME TypeOK, ChainOrder, LinkInv, StartState(dst), UNCHANGED <<chain, fin>>
    PROVE  SentInv'
  <1>1. Sent(chain, fin, [slot |-> dst.height, seq |-> dst.rx])
    BY FinalNumbers DEF Sent, LinkInv, LastMsg
  <1>2. Sent(chain, fin, NoStatus)
    BY FinalNumbers, StatusNumbers DEF Sent, NoStatus, LastMsg, Seqs, ChainOrder
  <1>3. QED
    BY <1>1, <1>2 DEF StartState, SentInv, AllSent

LEMMA NextSent ==
    ASSUME TypeOK, AscendInv, ChainOrder, LinkInv, TurnInv, ExactInv, SentInv, [Next]_vars
    PROVE  SentInv'
  <1>1. CASE Chain
    <2>1. UNCHANGED <<prevRS, rs, rss, rsnap, gpc, gsnap>>
      BY <1>1 DEF Chain, handlerVars, clearVars
    <2>2. fin <= fin' /\ \A s \in FirstSlot .. fin : chain'[s] = chain[s]
      BY <1>1, ChainNextOrder DEF Chain, TypeOK
    <2>3. fin \in Nat /\ fin' \in Nat
      BY <1>1, ChainNextType, SlotsAreNat DEF Chain, TypeOK, ChainTypeOK
    <2>4. /\ \A x : Sent(chain, fin, x) => Sent(chain', fin', x)
          /\ \A p : AllSent(chain, fin, p) => AllSent(chain', fin', p)
      BY <2>2, <2>3, SentStays
    <2>5. QED
      BY <2>1, <2>4 DEF SentInv
  <1>2. CASE Link \/ RpcFails
    BY <1>2, SentMoves DEF Link, Consume, RelayBlockUpdate, RefuseBlockUpdate,
       RelayMessageProof, Execute, RpcFails, Return, chainVars, handlerVars, clearVars
  <1>3. CASE Clear \/ ScanMps \/ LoadMps \/ StoreMps
    BY <1>3, SentMoves DEF Clear, ScanMps, LoadMps, StoreMps, chainVars, handlerVars
  <1>4. CASE LoadRss
    <2>1. /\ gsnap' = SubSeq(rss, gi + 1, Len(rss))
          /\ UNCHANGED <<chain, fin, prevRS, rs, rss, rsnap>>
      BY <1>4 DEF LoadRss, chainVars, handlerVars
    <2>2. AllSent(chain, fin, gsnap')
      BY <2>1, SentRest DEF SentInv, TypeOK, GatheredOK, ClearOK
    <2>3. QED
      BY <2>1, <2>2 DEF SentInv
  <1>5. CASE StoreRss
    <2>1. /\ gpc = "storeRss" /\ rss' = gsnap /\ gpc' = "mps"
          /\ UNCHANGED <<chain, fin, prevRS, rs, rsnap>>
      BY <1>5 DEF StoreRss, chainVars, handlerVars
    <2>2. QED
      BY <2>1 DEF SentInv
  <1>6. CASE RangePanics \/ ClearPanics \/ FaultPanics \/ Restart
    BY <1>6, StartSent DEF RangePanics, ClearPanics, FaultPanics, Restart, Panic, chainVars
  <1>7. CASE UNCHANGED vars
    BY <1>7, SentMoves DEF vars, chainVars, handlerVars, clearVars
  <1>8. ASSUME NEW h \in OptimisticUpdates, FirstUpdate(h) \/ LaterUpdate(h) PROVE SentInv'
    BY <1>8, SentMoves DEF FirstUpdate, LaterUpdate, chainVars, clearVars
  <1>9. CASE StoreUndelivered \/ StoreGathered \/ RangeStep \/ RangeMisses \/ RangeFails
             \/ RangeDone
    BY <1>9, SentMoves DEF StoreUndelivered, StoreGathered, RangeStep, RangeMisses, RangeFails,
       RangeDone, Return, chainVars, clearVars
  <1>10. CASE GatherFromHeader
    <2>1. /\ UNCHANGED <<chain, fin, prevRS, rss, gpc, gsnap>>
          /\ rs' \in {rs, NoStatus} /\ rsnap' \in {rsnap, <<>>}
      BY <1>10 DEF GatherFromHeader, Return, chainVars, clearVars
    <2>2. QED
      BY <2>1, SentMoves
  <1>11. CASE \E a \in Attesting : FinalityUpdate(a)
    BY <1>11, SentMoves DEF FinalityUpdate, chainVars, clearVars
  <1>12. CASE Validate \/ StoreRebuilt
    BY <1>12, SentMoves DEF Validate, StoreRebuilt, chainVars, clearVars
  <1>13. CASE MakeStatus
    <2>1. /\ pc = "announce" /\ rs' = [slot |-> upd.f, seq |-> SeqAt(upd.f)] /\ rsnap' = rss
          /\ UNCHANGED <<chain, fin, prevRS, rss, gpc, gsnap>>
      BY <1>13 DEF MakeStatus, chainVars, clearVars
    <2>2. Sent(chain, fin, rs')
      BY <2>1, SeqAtSent DEF Sent
    <2>3. QED
      BY <2>1, <2>2 DEF SentInv
  <1>14. CASE StoreStatus
    <2>1. /\ rss' = Append(rsnap, rs) /\ rsnap' = <<>>
          /\ UNCHANGED <<chain, fin, prevRS, rs, gpc, gsnap>>
      BY <1>14 DEF StoreStatus, chainVars, clearVars
    <2>2. AllSent(chain, fin, rss')
      BY <2>1, SentAppend DEF SentInv, TypeOK, HandlerOK
    <2>3. QED
      BY <2>1, <2>2 DEF SentInv, AllSent
  <1>15. QED
    BY <1>1, <1>2, <1>3, <1>4, <1>5, <1>6, <1>7, <1>8, <1>9, <1>10, <1>11, <1>12, <1>13, <1>14
       DEF Next, Handler, ClearData

\* What was orphaned or cleared stays counted.
LEMMA CountsRise ==
    ASSUME TypeOK, ChainOrder, [Next]_vars
    PROVE  /\ reorgs' = 0 => reorgs = 0
           /\ clears' = 0 => clears = 0
  <1>0. reorgs \in Nat /\ clears \in Nat
    BY ChainAssumption, ReceiverAssumption DEF TypeOK, ChainTypeOK, BudgetsOK
  <1>1. CASE Chain
    <2>1. reorgs <= reorgs' /\ reorgs' \in Nat
      BY <1>1, ChainNextOrder, ChainNextType, ChainAssumption DEF Chain, TypeOK, ChainTypeOK
    <2>2. clears' = clears
      BY <1>1 DEF Chain, budgets
    <2>3. QED
      BY <1>0, <2>1, <2>2
  <1>2. CASE Handler \/ ClearData \/ Consume \/ RpcFails \/ FaultPanics \/ Restart
    <2>1. reorgs' = reorgs
      BY <1>2, OtherSteps
    <2>2. clears' = clears \/ clears' = clears + 1
      BY <1>2 DEF Handler, FirstUpdate, LaterUpdate, StoreUndelivered, GatherFromHeader,
                  StoreGathered, RangeStep, RangeMisses, RangeFails, RangePanics, RangeDone,
                  FinalityUpdate, Validate, StoreRebuilt, MakeStatus, StoreStatus, ClearData, Clear, LoadRss,
                  StoreRss, ScanMps, LoadMps, StoreMps, ClearPanics, Panic, Consume, RpcFails,
                  FaultPanics, Restart, budgets
    <2>3. QED
      BY <1>0, <2>1, <2>2
  <1>3. CASE RelayBlockUpdate \/ RefuseBlockUpdate \/ RelayMessageProof \/ Execute \/ UNCHANGED vars
    BY <1>3 DEF RelayBlockUpdate, RefuseBlockUpdate, RelayMessageProof, Execute, vars, chainVars,
                budgets
  <1>4. QED
    BY <1>1, <1>2, <1>3 DEF Next, Link

\* What holds in every state, and without reorganisations.
StatusInv ==
    /\ TypeOK /\ AscendInv /\ ChainOrder /\ LinkInv /\ TurnInv
    /\ reorgs = 0 => CalmInv

LEMMA InitStatus == Init => StatusInv
  <1> SUFFICES ASSUME Init PROVE StatusInv
    OBVIOUS
  <1>1. TypeOK /\ ChainOrder
    BY InitTyped, ChainInitOrder DEF Init
  <1>2. AscendInv
    BY SlotsAreNat DEF Init, ChainInit, AscendInv, Ascends, Announcing, Bound
  <1>3. fin = FirstSlot /\ dst = NoLinkStatus /\ bls = NoLinkStatus /\ chain[FirstSlot].tx = 0
    BY <1>1 DEF Init, ChainInit, ChainOrder
  <1>4. LinkInv
    BY <1>3, ChainAssumption DEF LinkInv, NoLinkStatus, LastMsg
  <1>5. TurnInv
    BY <1>3, ChainAssumption DEF Init, TurnInv, Announcing, NoStatus
  <1>6. HeaderInv /\ ExactInv
    BY DEF Init, HeaderInv, ExactInv, AllExact
  <1>7. SentInv
    BY <1>3, ChainAssumption DEF Init, SentInv, Sent, AllSent, NoStatus
  <1>8. QED
    BY <1>1, <1>2, <1>4, <1>5, <1>6, <1>7 DEF StatusInv, CalmInv

LEMMA NextStatus == StatusInv /\ [Next]_vars => StatusInv'
  <1> SUFFICES ASSUME StatusInv, [Next]_vars PROVE StatusInv'
    OBVIOUS
  <1> USE DEF StatusInv
  <1>1. TypeOK' /\ AscendInv' /\ ChainOrder' /\ LinkInv'
    BY NextTyped, NextAscend, NextLink
  <1>2. TurnInv'
    BY <1>1, NextTurn
  <1>3. ASSUME reorgs' = 0 PROVE CalmInv'
    <2>1. reorgs = 0 /\ HeaderInv /\ ExactInv /\ SentInv
      BY <1>3, CountsRise DEF CalmInv
    <2>2. HeaderInv' /\ ExactInv' /\ SentInv'
      BY <1>3, <2>1, NextHeader, NextExact, NextSent
    <2>3. QED
      BY <2>2 DEF CalmInv
  <1>4. QED
    BY <1>1, <1>2, <1>3

\* As long as no block was orphaned a status promises no message that was sent after
\* its slot, whatever was rebuilt from a search and whatever slices clearData and the
\* handler stored over one another, for every number of messages, restarts, faults
\* and statuses cleared (Monitoring, clearData).
THEOREM StatusesSent == Spec => []StatusNeverAhead
  <1>1. StatusInv => StatusNeverAhead
    BY DEF StatusInv, StatusNeverAhead, CalmInv, SentInv, AllSent, Sent, LastMsg
  <1>2. QED
    BY <1>1, InitStatus, NextStatus, PTL DEF Spec

------------------------------------------------------------------------------
(* Without reorganisations and clearData nothing is gathered twice *)

LEMMA LastToType ==
    ASSUME NEW p \in Seq(MsgProof), p # <<>>
    PROVE  /\ Len(p) \in Nat \ {0} /\ DOMAIN p = 1 .. Len(p)
           /\ 1 \in DOMAIN p /\ Len(p) \in DOMAIN p /\ LastTo(p) \in Nat
           /\ \A i \in DOMAIN p : p[i].to \in Nat /\ p[i].from \in Nat
  <1>1. Len(p) \in Nat \ {0} /\ DOMAIN p = 1 .. Len(p)
    BY EmptySeq, LenProperties
  <1>2. ASSUME NEW i \in DOMAIN p PROVE p[i].to \in Nat /\ p[i].from \in Nat
    <2>1. p[i] \in MsgProof
      BY MsgProofFields
    <2>2. QED
      BY <2>1, ChainAssumption DEF MsgProof
  <1>3. QED
    BY <1>1, <1>2 DEF LastTo

\* Proofs gathered after others, from a message they hold or the next one on.
LEMMA GatheredConcat ==
    ASSUME NEW p \in Seq(MsgProof), NEW r \in Seq(MsgProof), r # <<>>,
           Gathered(p), Gathered(r),
           p # <<>> => r[1].from <= LastTo(p) + 1 /\ LastTo(p) <= LastTo(r)
    PROVE  Gathered(p \o r) /\ p \o r # <<>> /\ LastTo(p \o r) = LastTo(r)
  <1> DEFINE w == p \o r
             m == Len(p)
             n == Len(r)
  <1>1. /\ m \in Nat /\ n \in Nat \ {0} /\ Len(w) = m + n
        /\ DOMAIN p = 1 .. m /\ DOMAIN r = 1 .. n /\ DOMAIN w = 1 .. m + n
        /\ \A i \in 1 .. m : w[i] = p[i]
        /\ \A i \in 1 .. n : w[m + i] = r[i]
    BY ConcatElements, LastToType
  <1>2. p # <<>> <=> m # 0
    BY EmptySeq, LenProperties
  <1>3. /\ \A i \in 1 .. n : r[i].to \in Nat /\ r[i].to <= LastTo(r)
        /\ \A i \in 1 .. m : p[i].to \in Nat /\ p[i].to <= LastTo(p)
        /\ LastTo(p) = p[m].to /\ LastTo(r) = r[n].to
    BY <1>1, MsgProofFields, SMTT(30) DEF Gathered, LastTo, Seqs
  <1> HIDE DEF w, m, n
  <1>4. \A i \in 1 .. m + n : i \in 1 .. m \/ \E j \in 1 .. n : i = m + j
    <2> SUFFICES ASSUME NEW i \in 1 .. m + n, i \notin 1 .. m PROVE \E j \in 1 .. n : i = m + j
      OBVIOUS
    <2>1. i - m \in 1 .. n /\ i = m + (i - m)
      BY <1>1
    <2>2. QED
      BY <2>1
  <1>5. w[m + n] = r[n] /\ w[m + 1] = r[1]
    BY <1>1
  <1>6. LastTo(w) = LastTo(r)
    BY <1>1, <1>3, <1>5 DEF LastTo
  <1>7. \A i \in DOMAIN w : w[i].to <= LastTo(w)
    <2>1. ASSUME NEW i \in 1 .. m PROVE w[i].to <= LastTo(r)
      <3>1. p[m].to \in Nat /\ r[n].to \in Nat /\ p[i].to \in Nat /\ m # 0
        BY <1>1, <1>3
      <3>2. p[i].to <= LastTo(p) /\ LastTo(p) <= LastTo(r)
        BY <1>2, <1>3, <3>1
      <3>3. QED
        BY <1>1, <1>3, <3>1, <3>2
    <2>2. ASSUME NEW j \in 1 .. n PROVE w[m + j].to <= LastTo(r)
      BY <1>1, <1>3
    <2>3. \A i \in 1 .. m + n : w[i].to <= LastTo(r)
      BY <1>4, <2>1, <2>2
    <2>4. QED
      BY <1>1, <1>6, <2>3
  <1>8. ASSUME NEW i \in 1 .. m + n - 1 PROVE w[i + 1].from <= w[i].to + 1
    <2>1. CASE i < m
      <3>1. i \in 1 .. m /\ i + 1 \in 1 .. m /\ i \in 1 .. m - 1
        BY <1>1, <2>1
      <3>2. QED
        BY <1>1, <3>1 DEF Gathered, m
    <2>2. CASE i = m
      <3>1. w[i + 1] = r[1] /\ w[i] = p[m] /\ m # 0
        BY <1>1, <1>5, <2>2
      <3>2. QED
        BY <1>2, <1>3, <3>1
    <2>3. CASE i > m
      <3>1. PICK j \in 1 .. n - 1 : i = m + j /\ i + 1 = m + (j + 1)
        <4>1. i - m \in 1 .. n - 1 /\ i = m + (i - m) /\ i + 1 = m + ((i - m) + 1)
          BY <1>1, <2>3
        <4>2. QED
          BY <4>1
      <3>2. j \in 1 .. n /\ j + 1 \in 1 .. n
        BY <1>1
      <3>3. w[i] = r[j] /\ w[i + 1] = r[j + 1]
        BY <1>1, <3>1, <3>2
      <3>4. QED
        BY <3>3 DEF Gathered, n
    <2>4. QED
      BY <1>1, <2>1, <2>2, <2>3
  <1>9. w # <<>>
    BY <1>1
  <1>10. QED
    BY <1>1, <1>6, <1>7, <1>8, <1>9 DEF Gathered, w

LEMMA GatheredOne ==
    ASSUME NEW x \in MsgProof
    PROVE  /\ <<x>> \in Seq(MsgProof) /\ <<x>> # <<>> /\ Gathered(<<x>>)
           /\ LastTo(<<x>>) = x.to /\ Len(<<x>>) = 1 /\ <<x>>[1] = x
  <1>1. /\ <<x>> \in Seq(MsgProof) /\ <<x>> # <<>> /\ Len(<<x>>) = 1 /\ <<x>>[1] = x
        /\ DOMAIN <<x>> = 1 .. 1
    OBVIOUS
  <1>2. x.to \in Nat
    BY ChainAssumption DEF MsgProof
  <1>3. QED
    BY <1>1, <1>2 DEF Gathered, LastTo

LEMMA GatheredAppend ==
    ASSUME NEW p \in Seq(MsgProof), NEW x \in MsgProof, Gathered(p),
           p # <<>> => x.from <= LastTo(p) + 1 /\ LastTo(p) <= x.to
    PROVE  /\ Gathered(Append(p, x)) /\ Append(p, x) # <<>> /\ LastTo(Append(p, x)) = x.to
           /\ p = <<>> => Append(p, x)[1] = x
           /\ p # <<>> => Append(p, x)[1] = p[1]
  <1>1. Append(p, x) = p \o <<x>>
    OBVIOUS
  <1>2. /\ Gathered(p \o <<x>>) /\ p \o <<x>> # <<>> /\ LastTo(p \o <<x>>) = x.to
    BY GatheredOne, GatheredConcat
  <1>3. p = <<>> => Append(p, x)[1] = x
    OBVIOUS
  <1>4. p # <<>> => Append(p, x)[1] = p[1]
    BY AppendElements, LastToType
  <1>5. QED
    BY <1>1, <1>2, <1>3, <1>4

\* What every step needs of the invariant as numbers.
LEMMA QuietNumbers ==
    ASSUME TypeOK
    PROVE  /\ seq \in Nat /\ prevRS.seq \in Nat /\ rs.seq \in Nat
           /\ rg.seq \in Nat /\ rg.toSeq \in Nat /\ bls.rx \in Nat /\ dst.rx \in Nat
           /\ mps \in Seq(MsgProof) /\ made \in Seq(MsgProof) /\ msnap \in Seq(MsgProof)
           /\ mps # <<>> => LastTo(mps) \in Nat
           /\ made # <<>> => LastTo(made) \in Nat /\ made[1].from \in Nat /\ made[1].to \in Nat
           /\ rg \in Search /\ once \in BOOLEAN
  <1>1. /\ mps \in Seq(MsgProof) /\ made \in Seq(MsgProof) /\ msnap \in Seq(MsgProof)
        /\ rg \in Search /\ once \in BOOLEAN
    BY DEF TypeOK, GatheredOK, HandlerOK
  <1>2. rg.seq \in Nat /\ rg.toSeq \in Nat
    BY <1>1, ChainAssumption DEF Search, Seqs
  <1>3. bls.rx \in Nat /\ dst.rx \in Nat
    BY ChainAssumption DEF TypeOK, LinkStatus, Seqs
  <1>4. QED
    BY <1>1, <1>2, <1>3, LastToType, StatusNumbers

\* A step that neither searches nor appends, and does not make a status.
LEMMA QuietStays ==
    ASSUME TypeOK, QuietInv, UNCHANGED <<gpc, mps, made, msnap, seq, rg, prevRS, once>>,
           bls'.rx = bls.rx
             \/ (bls'.rx \in Nat /\ bls'.rx <= bls.rx)
             \/ (mps # <<>> /\ bls'.rx <= LastTo(mps)),
           \/ pc' = pc /\ rs' = rs
           \/ /\ ~Appending /\ ~Appending'
              /\ pc' \in {"storeStatus", "send"} => pc \in {"storeStatus", "send"} /\ rs' = rs
              /\ pc' = "header" => once
    PROVE  QuietInv'
  <1>1. ~Appending' \/ pc' = pc
    OBVIOUS
  <1>2. RestInv'
    BY <1>1 DEF QuietInv, RestInv, Appending, LastTo
  <1>3. AppendInv'
    BY <1>1 DEF QuietInv, AppendInv, Appending, LastTo
  <1>4. FirstSearchInv'
    BY <1>1 DEF QuietInv, FirstSearchInv, Appending, LastTo
  <1>5. RebuildSearchInv'
    <2>1. pc' \in {"rebuild", "storeRebuilt"} => mps = <<>> /\ pc' = pc
      BY <1>1 DEF QuietInv, RebuildSearchInv, Appending
    <2>2. pc' \in {"rebuild", "storeRebuilt"} => bls'.rx \in Nat /\ bls'.rx <= bls.rx
      BY <2>1, QuietNumbers
    <2>3. pc' = "rebuild" => bls'.rx <= rg.toSeq
      BY <2>1, <2>2, QuietNumbers DEF QuietInv, RebuildSearchInv
    <2>4. pc' = "storeRebuilt" => bls'.rx <= seq
      BY <2>1, <2>2, QuietNumbers DEF QuietInv, RebuildSearchInv
    <2>5. QED
      BY <2>1, <2>3, <2>4 DEF QuietInv, RebuildSearchInv, LastTo
  <1>6. PromiseInv'
    <2>1. mps # <<>> /\ ~once => bls'.rx <= LastTo(mps)
      BY QuietNumbers DEF QuietInv, PromiseInv
    <2>2. pc' # "undelivered" => prevRS.seq <= seq
      BY DEF QuietInv, PromiseInv, Appending
    <2>3. QED
      BY <2>1, <2>2 DEF QuietInv, PromiseInv, Appending, LastTo
  <1>7. QED
    BY <1>2, <1>3, <1>4, <1>5, <1>6 DEF QuietInv, Gathered, LastTo

\* The handler returns, with nothing appended.
LEMMA QuietReturn ==
    ASSUME TypeOK, QuietInv, UNCHANGED <<gpc, mps, seq, bls, once>>,
           pc' = "idle", made' = <<>>, prevRS'.seq <= seq,
           mps = <<>> \/ ~Appending
    PROVE  QuietInv'
  <1>1. Gathered(<<>>)
    BY DEF Gathered
  <1>2. mps # <<>> => seq = LastTo(mps)
    BY DEF QuietInv, RestInv
  <1>3. Gathered(mps)
    BY DEF QuietInv
  <1>4. Gathered(mps') /\ Gathered(made')
    BY <1>1, <1>3
  <1>5. RestInv'
    BY <1>2 DEF RestInv, LastTo
  <1>6. AppendInv' /\ FirstSearchInv' /\ RebuildSearchInv'
    BY DEF AppendInv, FirstSearchInv, RebuildSearchInv
  <1>7. PromiseInv'
    BY DEF QuietInv, PromiseInv, LastTo
  <1>8. QED
    BY <1>4, <1>5, <1>6, <1>7 DEF QuietInv

LEMMA QuietStart ==
    ASSUME TypeOK, StartState(dst)
    PROVE  QuietInv'
  <1>1. /\ gpc' = "idle" /\ mps' = <<>> /\ made' = <<>> /\ pc' = "idle"
        /\ prevRS'.seq = dst.rx /\ seq' = dst.rx
    BY DEF StartState
  <1>2. Gathered(mps') /\ Gathered(made')
    BY <1>1 DEF Gathered
  <1>3. RestInv' /\ AppendInv' /\ FirstSearchInv' /\ RebuildSearchInv'
    BY <1>1 DEF RestInv, AppendInv, FirstSearchInv, RebuildSearchInv
  <1>4. PromiseInv'
    BY <1>1, QuietNumbers DEF PromiseInv
  <1>5. QED
    BY <1>1, <1>2, <1>3, <1>4 DEF QuietInv

\* What was promised or gathered is not beyond what was sent.
LEMMA QuietSent ==
    ASSUME TypeOK, ChainOrder, LinkInv, CalmInv
    PROVE  /\ TxSeq \in Nat /\ prevRS.seq <= TxSeq /\ bls.rx <= TxSeq
           /\ mps # <<>> => LastTo(mps) <= TxSeq
  <1>1. ASSUME NEW s \in FirstSlot .. head
        PROVE  chain[s].tx <= TxSeq /\ chain[s].tx \in Nat /\ TxSeq \in Nat
    BY FinalNumbers, SlotMessages DEF LastMsg, TxSeq
  <1>2. prevRS.seq <= TxSeq
    <2>1. prevRS.slot \in FirstSlot .. head /\ prevRS.seq <= chain[prevRS.slot].tx
      BY FinalNumbers DEF CalmInv, SentInv, Sent
    <2>2. QED
      BY <1>1, <2>1, StatusNumbers
  <1>3. bls.rx <= TxSeq
    <2>1. bls.height \in FirstSlot .. head /\ bls.rx <= chain[bls.height].tx
      BY FinalNumbers DEF LinkInv, LastMsg
    <2>2. QED
      BY <1>1, <2>1, FinalNumbers
  <1>4. ASSUME mps # <<>> PROVE LastTo(mps) <= TxSeq
    <2>1. Len(mps) \in DOMAIN mps
      BY <1>4, LastToType, QuietNumbers
    <2>2. Exact(chain, head, mps[Len(mps)])
      BY <2>1 DEF CalmInv, ExactInv, AllExact
    <2>3. mps[Len(mps)].slot \in FirstSlot .. head /\ LastTo(mps) = chain[mps[Len(mps)].slot].tx
      BY <2>2, FinalNumbers DEF Exact, LastTo
    <2>4. QED
      BY <1>1, <2>3
  <1>5. FirstSlot \in FirstSlot .. head
    BY FinalNumbers
  <1>6. QED
    BY <1>1, <1>2, <1>3, <1>4, <1>5

\* The first update looks for what is undelivered, or goes on to its header.
LEMMA QuietFirst ==
    ASSUME TypeOK, ChainOrder, LinkInv, CalmInv, QuietInv,
           NEW h \in OptimisticUpdates, FirstUpdate(h)
    PROVE  QuietInv'
  <1>1. /\ pc = "idle" /\ ~once
        /\ UNCHANGED <<gpc, mps, made, msnap, seq, bls, prevRS, rs>>
        /\ \/ pc' = "header" /\ once' = TRUE
           \/ /\ pc' = "undelivered" /\ once' = once /\ bls.rx < TxSeq
              /\ rg'.seq = bls.rx + 1 /\ rg'.toSeq = TxSeq
    BY DEF FirstUpdate, RangeSearch, chainVars, linkVars, clearVars
  <1>2. made = <<>> /\ (mps # <<>> => seq = LastTo(mps) /\ bls.rx <= LastTo(mps))
    BY <1>1 DEF QuietInv, RestInv, PromiseInv, Appending
  <1>3. CASE pc' = "header"
    <2>1. RestInv' /\ PromiseInv'
      BY <1>1, <1>2, <1>3 DEF QuietInv, RestInv, PromiseInv, LastTo
    <2>2. AppendInv' /\ FirstSearchInv' /\ RebuildSearchInv'
      BY <1>3 DEF AppendInv, FirstSearchInv, RebuildSearchInv
    <2>3. QED
      BY <1>1, <2>1, <2>2 DEF QuietInv, Gathered, LastTo
  <1>4. CASE pc' = "undelivered"
    <2>1. /\ once' = once /\ bls.rx < TxSeq /\ rg'.seq = bls.rx + 1 /\ rg'.toSeq = TxSeq
      BY <1>1, <1>4
    <2>2. /\ prevRS'.seq <= rg'.toSeq /\ rg'.seq <= rg'.toSeq /\ made' = <<>>
          /\ mps # <<>> => LastTo(mps) <= rg'.toSeq /\ rg'.seq <= LastTo(mps) + 1
      BY <1>1, <1>2, <2>1, QuietSent, QuietNumbers
    <2>3. FirstSearchInv'
      BY <1>1, <1>4, <2>2 DEF FirstSearchInv, LastTo
    <2>4. RestInv' /\ AppendInv' /\ RebuildSearchInv'
      BY <1>4 DEF RestInv, AppendInv, RebuildSearchInv, Appending
    <2>5. PromiseInv'
      BY <1>1, <1>2, <1>4 DEF PromiseInv, LastTo
    <2>6. QED
      BY <1>1, <2>3, <2>4, <2>5 DEF QuietInv, Gathered, LastTo
  <1>5. QED
    BY <1>1, <1>3, <1>4

\* An update skips its block, stops at a gap, or gathers the block after seq.
LEMMA QuietGather ==
    ASSUME TypeOK, ChainOrder, CalmInv, QuietInv, GatherFromHeader
    PROVE  QuietInv'
  <1>1. pc = "header" /\ UNCHANGED <<gpc, mps, bls, prevRS, once>>
    BY DEF GatherFromHeader, linkVars, clearVars
  <1>2. once /\ prevRS.seq <= seq /\ (mps # <<>> => seq = LastTo(mps))
    BY <1>1 DEF QuietInv, RestInv, PromiseInv, Appending
  <1>3. CASE Return /\ seq' = seq
    <2>1. pc' = "idle" /\ made' = <<>>
      BY <1>3 DEF Return
    <2>2. ~Appending
      BY <1>1 DEF Appending
    <2>3. QED
      BY <1>1, <1>2, <1>3, <2>1, <2>2, QuietReturn
  <1>4. ASSUME NEW s \in SlotsOfBlock(hdr.bn), FirstMsg(s) <= LastMsg(s),
               ~Seen(FirstMsg(s)), FirstMsg(s) <= seq + 1,
               made' = <<[slot |-> hdr.slot, ver |-> hdr.ver,
                          from |-> FirstMsg(s), to |-> LastMsg(s)]>>,
               seq' = LastMsg(s), msnap' = mps, pc' = "append"
        PROVE  QuietInv'
    <2> DEFINE x == [slot |-> hdr.slot, ver |-> hdr.ver, from |-> FirstMsg(s), to |-> LastMsg(s)]
    <2>1. x \in MsgProof /\ FirstMsg(s) \in Nat /\ LastMsg(s) \in Nat
      BY <1>1, <1>4, GatherExact DEF CalmInv
    <2>2. FirstMsg(s) = seq + 1 /\ prevRS.seq <= LastMsg(s)
      BY <1>2, <1>4, <2>1, QuietNumbers DEF Seen
    <2>3. Gathered(<<x>>) /\ Len(<<x>>) = 1 /\ <<x>>[1] = x
      BY <2>1, GatheredOne
    <2>4. made' = <<x>> /\ x.from = seq + 1 /\ x.to = seq'
      BY <1>4, <2>2
    <2> HIDE DEF x
    <2>5. Len(made') = 1 /\ made'[1].to = seq' /\ made'[1].from = seq + 1 /\ Gathered(made')
      BY <2>3, <2>4
    <2>6. AppendInv'
      BY <1>1, <1>2, <1>4, <2>2, <2>5 DEF AppendInv, LastTo
    <2>7. RestInv' /\ FirstSearchInv' /\ RebuildSearchInv'
      BY <1>4 DEF RestInv, FirstSearchInv, RebuildSearchInv, Appending
    <2>8. PromiseInv'
      BY <1>1, <1>2, <1>4, <2>2 DEF PromiseInv
    <2>9. QED
      BY <1>1, <2>5, <2>6, <2>7, <2>8 DEF QuietInv, Gathered, LastTo
  <1>5. \/ Return /\ seq' = seq
        \/ \E s \in SlotsOfBlock(hdr.bn) :
              /\ FirstMsg(s) <= LastMsg(s) /\ ~Seen(FirstMsg(s)) /\ FirstMsg(s) <= seq + 1
              /\ made' = <<[slot |-> hdr.slot, ver |-> hdr.ver,
                            from |-> FirstMsg(s), to |-> LastMsg(s)]>>
              /\ seq' = LastMsg(s) /\ msnap' = mps /\ pc' = "append"
    BY Zenon DEF GatherFromHeader
  <1>6. QED
    BY <1>3, <1>4, <1>5

\* What was made is appended to what is held, and ends at seq.
LEMMA QuietStore ==
    ASSUME TypeOK, QuietInv, UNCHANGED <<gpc, seq, bls, prevRS>>,
           pc' \in {"idle", "header", "announce"}, made' = <<>>, mps' = msnap \o made,
           msnap = mps, made # <<>>, seq = LastTo(made),
           mps # <<>> => made[1].from <= LastTo(mps) + 1 /\ LastTo(mps) <= seq,
           prevRS.seq <= seq, once' \/ bls.rx <= seq, pc' = "header" => once'
    PROVE  QuietInv'
  <1>1. Gathered(mps \o made) /\ mps \o made # <<>> /\ LastTo(mps \o made) = LastTo(made)
    BY QuietNumbers, GatheredConcat DEF QuietInv
  <1>2. mps' # <<>> /\ mps'[Len(mps')].to = seq
    BY <1>1 DEF LastTo
  <1>3. Gathered(mps')
    BY <1>1
  <1>4. Gathered(made')
    BY DEF Gathered
  <1>5. RestInv'
    BY <1>2 DEF RestInv, LastTo
  <1>6. AppendInv' /\ FirstSearchInv' /\ RebuildSearchInv'
    BY DEF AppendInv, FirstSearchInv, RebuildSearchInv
  <1>7. PromiseInv'
    BY <1>2 DEF PromiseInv, LastTo
  <1>8. gpc' = "idle"
    BY DEF QuietInv
  <1>9. QED
    BY <1>3, <1>4, <1>5, <1>6, <1>7, <1>8 DEF QuietInv

LEMMA QuietStoreGathered ==
    ASSUME TypeOK, QuietInv, StoreGathered
    PROVE  QuietInv'
  <1>1. /\ pc = "append" /\ mps' = msnap \o made /\ made' = <<>> /\ pc' = "idle"
        /\ UNCHANGED <<gpc, seq, bls, prevRS, once>>
    BY DEF StoreGathered, Return, linkVars, clearVars
  <1>2. /\ msnap = mps /\ Len(made) = 1 /\ made[1].to = seq /\ made[1].from <= seq
        /\ mps # <<>> => made[1].from = LastTo(mps) + 1
        /\ once /\ prevRS.seq <= seq
    BY <1>1 DEF QuietInv, AppendInv, PromiseInv
  <1>3. made # <<>> /\ LastTo(made) = seq
    BY <1>2 DEF LastTo
  <1>4. mps # <<>> => made[1].from <= LastTo(mps) + 1 /\ LastTo(mps) <= seq
    BY <1>2, <1>3, QuietNumbers
  <1>5. QED
    BY <1>1, <1>2, <1>3, <1>4, QuietStore

LEMMA QuietStoreUndelivered ==
    ASSUME TypeOK, QuietInv, StoreUndelivered
    PROVE  QuietInv'
  <1>1. /\ pc = "storeUndelivered" /\ mps' = msnap \o made /\ made' = <<>> /\ pc' = "header"
        /\ once' = TRUE /\ UNCHANGED <<gpc, seq, bls, prevRS>>
    BY DEF StoreUndelivered, linkVars, clearVars
  <1>2. /\ msnap = mps /\ made # <<>> /\ seq = LastTo(made) /\ prevRS.seq <= seq
        /\ mps # <<>> => made[1].from <= LastTo(mps) + 1 /\ LastTo(mps) <= seq
    BY <1>1 DEF QuietInv, FirstSearchInv, PromiseInv
  <1>3. QED
    BY <1>1, <1>2, QuietStore

LEMMA QuietStoreRebuilt ==
    ASSUME TypeOK, QuietInv, StoreRebuilt
    PROVE  QuietInv'
  <1>1. /\ pc = "storeRebuilt" /\ made' = <<>> /\ pc' = "announce"
        /\ mps' = IF made = <<>> THEN mps ELSE msnap \o made
        /\ UNCHANGED <<gpc, seq, bls, prevRS, once>>
    BY DEF StoreRebuilt, linkVars, clearVars
  <1>2. /\ mps = <<>> /\ msnap = mps /\ (made # <<>> => seq = LastTo(made))
        /\ bls.rx <= seq /\ prevRS.seq <= seq
    BY <1>1 DEF QuietInv, RebuildSearchInv, PromiseInv
  <1>3. CASE made = <<>>
    <2>1. mps' = <<>> /\ gpc' = "idle"
      BY <1>1, <1>2, <1>3 DEF QuietInv
    <2>2. Gathered(mps') /\ Gathered(made')
      BY <1>1, <2>1 DEF Gathered
    <2>3. RestInv' /\ AppendInv' /\ FirstSearchInv' /\ RebuildSearchInv' /\ PromiseInv'
      BY <1>1, <1>2, <2>1 DEF RestInv, AppendInv, FirstSearchInv, RebuildSearchInv, PromiseInv
    <2>4. QED
      BY <2>1, <2>2, <2>3 DEF QuietInv
  <1>4. CASE made # <<>>
    BY <1>1, <1>2, <1>4, QuietStore
  <1>5. QED
    BY <1>3, <1>4

\* A search finds the block of the next message.
LEMMA QuietStep ==
    ASSUME TypeOK, ChainOrder, QuietInv, RangeStep
    PROVE  QuietInv'
  <1>1. PICK s \in FoundAt(rg) :
           /\ made' = Append(made, [slot |-> s, ver |-> chain[s].ver,
                                    from |-> rg.seq, to |-> LastMsg(s)])
           /\ seq' = LastMsg(s)
           /\ rg' = [rg EXCEPT !.seq = LastMsg(s) + 1, !.fbn = chain[s].bn + 1,
                               !.fSlot = s + 1]
    BY DEF RangeStep
  <1>2. /\ pc' = pc /\ pc \in {"undelivered", "rebuild"}
        /\ UNCHANGED <<gpc, mps, bls, prevRS, once>>
    BY DEF RangeStep, Searching, linkVars, clearVars
  <1> DEFINE x == [slot |-> s, ver |-> chain[s].ver, from |-> rg.seq, to |-> LastMsg(s)]
  <1>3. x \in MsgProof
    BY FoundAreScanned, ScannedAtType DEF TypeOK, HandlerOK
  <1>4. rg.seq \in Nat /\ LastMsg(s) \in Nat /\ rg.seq <= LastMsg(s)
    BY FoundExact
  <1>5. rg'.seq = seq' + 1 /\ rg'.toSeq = rg.toSeq /\ seq' \in Nat /\ rg.seq <= seq'
    BY <1>1, <1>4, QuietNumbers DEF Search
  <1>6. made # <<>> => rg.seq = LastTo(made) + 1
    BY <1>2, QuietNumbers DEF QuietInv, FirstSearchInv, RebuildSearchInv
  <1>7. x.from = rg.seq /\ x.to = seq' /\ made' = Append(made, x)
    BY <1>1
  <1> HIDE DEF x
  <1>8. /\ Gathered(made') /\ made' # <<>> /\ made'[Len(made')].to = seq'
        /\ made = <<>> => made'[1].from = rg.seq
        /\ made # <<>> => made'[1] = made[1]
    <2>1. made # <<>> => x.from <= LastTo(made) + 1 /\ LastTo(made) <= x.to
      <3>1. made # <<>> => LastTo(made) \in Nat
        BY QuietNumbers
      <3>2. QED
        BY <1>4, <1>5, <1>6, <1>7, <3>1
    <2>2. Gathered(made) /\ made \in Seq(MsgProof)
      BY QuietNumbers DEF QuietInv
    <2>3. /\ Gathered(Append(made, x)) /\ Append(made, x) # <<>>
          /\ LastTo(Append(made, x)) = x.to
          /\ made = <<>> => Append(made, x)[1] = x
          /\ made # <<>> => Append(made, x)[1] = made[1]
      BY <1>3, <2>1, <2>2, GatheredAppend
    <2>4. QED
      BY <1>7, <2>3 DEF LastTo
  <1>9. FirstSearchInv'
    <2>1. CASE pc = "undelivered"
      <3>1. prevRS'.seq <= rg'.toSeq
        BY <1>2, <1>5, <2>1 DEF QuietInv, FirstSearchInv
      <3>2. mps' # <<>> => LastTo(mps') <= rg'.toSeq /\ made'[1].from <= LastTo(mps') + 1
        BY <1>2, <1>5, <1>8, <2>1 DEF QuietInv, FirstSearchInv, LastTo
      <3>3. made' # <<>> /\ rg'.seq = seq' + 1 /\ seq' = LastTo(made')
        BY <1>5, <1>8 DEF LastTo
      <3>4. pc' = "undelivered"
        BY <1>2, <2>1
      <3>5. QED
        BY <3>1, <3>2, <3>3, <3>4 DEF FirstSearchInv
    <2>2. CASE pc = "rebuild"
      BY <1>2, <2>2 DEF FirstSearchInv
    <2>3. QED
      BY <1>2, <2>1, <2>2
  <1>10. RebuildSearchInv'
    <2>1. ASSUME pc = "rebuild" PROVE mps = <<>> /\ bls.rx <= rg.toSeq
      BY <2>1 DEF QuietInv, RebuildSearchInv
    <2>2. pc' # "storeRebuilt"
      BY <1>2
    <2>3. pc' = "rebuild" => mps' = <<>> /\ bls'.rx <= rg'.toSeq
      BY <1>2, <1>5, <2>1
    <2>4. QED
      BY <1>5, <1>8, <2>2, <2>3 DEF RebuildSearchInv, LastTo
  <1>11. RestInv' /\ AppendInv'
    BY <1>2 DEF RestInv, AppendInv, Appending
  <1>12. PromiseInv'
    <2>1. pc = "rebuild" => prevRS.seq <= seq /\ rg.seq = seq + 1
      BY DEF QuietInv, PromiseInv, RebuildSearchInv
    <2>2. pc' # "undelivered" => prevRS'.seq <= seq'
      BY <1>2, <1>5, <2>1, QuietNumbers
    <2>3. QED
      BY <1>2, <2>2 DEF QuietInv, PromiseInv, LastTo
  <1>13. QED
    BY <1>2, <1>8, <1>9, <1>10, <1>11, <1>12 DEF QuietInv, Gathered, LastTo

\* A search that ends has gone beyond all it looked for.
LEMMA QuietDone ==
    ASSUME TypeOK, QuietInv, RangeDone
    PROVE  QuietInv'
  <1>1. /\ rg.seq > rg.toSeq /\ msnap' = mps
        /\ UNCHANGED <<gpc, mps, made, seq, bls, prevRS, once>>
        /\ \/ pc = "undelivered" /\ pc' = "storeUndelivered"
           \/ pc = "rebuild" /\ pc' = "storeRebuilt"
    BY DEF RangeDone, Searching, SearchDone, linkVars, clearVars
  <1>2. Gathered(mps') /\ Gathered(made') /\ gpc' = "idle"
    BY <1>1 DEF QuietInv
  <1>3. RestInv' /\ AppendInv'
    BY <1>1 DEF RestInv, AppendInv, Appending
  <1>4. CASE pc = "undelivered"
    <2>1. /\ prevRS.seq <= rg.toSeq
          /\ made = <<>> => rg.seq <= rg.toSeq
          /\ made # <<>> => rg.seq = seq + 1 /\ seq = LastTo(made)
          /\ mps # <<>> =>
                LastTo(mps) <= rg.toSeq /\ (made # <<>> => made[1].from <= LastTo(mps) + 1)
      BY <1>4 DEF QuietInv, FirstSearchInv
    <2>2. made # <<>> /\ rg.seq = seq + 1 /\ seq = LastTo(made)
      BY <1>1, <2>1, QuietNumbers
    <2>3. prevRS.seq <= seq
      BY <1>1, <2>1, <2>2, QuietNumbers
    <2>4. mps # <<>> => made[1].from <= LastTo(mps) + 1 /\ LastTo(mps) <= seq
      <3>1. mps # <<>> => LastTo(mps) \in Nat
        BY QuietNumbers
      <3>2. QED
        BY <1>1, <2>1, <2>2, <3>1, QuietNumbers
    <2>5. FirstSearchInv' /\ RebuildSearchInv'
      BY <1>1, <1>4, <2>2, <2>4 DEF FirstSearchInv, RebuildSearchInv, LastTo
    <2>6. PromiseInv'
      BY <1>1, <1>4, <2>3 DEF QuietInv, PromiseInv, LastTo
    <2>7. QED
      BY <1>2, <1>3, <2>5, <2>6 DEF QuietInv
  <1>5. CASE pc = "rebuild"
    <2>1. /\ mps = <<>> /\ (made # <<>> => seq = LastTo(made))
          /\ rg.seq = seq + 1 /\ bls.rx <= rg.toSeq /\ prevRS.seq <= seq
      BY <1>5 DEF QuietInv, RebuildSearchInv, PromiseInv
    <2>2. bls.rx <= seq
      BY <1>1, <2>1, QuietNumbers
    <2>3. FirstSearchInv' /\ RebuildSearchInv' /\ PromiseInv'
      BY <1>1, <1>5, <2>1, <2>2 DEF FirstSearchInv, RebuildSearchInv, PromiseInv, LastTo
    <2>4. QED
      BY <1>2, <1>3, <2>3 DEF QuietInv
  <1>6. QED
    BY <1>1, <1>4, <1>5

LEMMA QuietValidate ==
    ASSUME TypeOK, ChainOrder, LinkInv, CalmInv, QuietInv, Validate
    PROVE  QuietInv'
  <1>1. /\ pc = "validate"
        /\ \/ pc' = "announce" /\ UNCHANGED <<seq, mps, rg>>
           \/ /\ pc' = "rebuild" /\ mps' = <<>> /\ seq' = prevRS.seq /\ rg' = RebuildSearch
    BY Zenon DEF Validate
  <1>2. UNCHANGED <<gpc, made, msnap, bls, prevRS, once, rs>>
    BY DEF Validate, linkVars, clearVars
  <1>3. CASE pc' = "announce"
    <2>1. ~Appending /\ ~Appending'
      BY <1>1, <1>3 DEF Appending
    <2>2. UNCHANGED <<seq, mps, rg>>
      BY <1>1, <1>3
    <2>3. QED
      BY <1>2, <1>3, <2>1, <2>2, QuietStays
  <1>4. CASE pc' = "rebuild"
    <2>1. mps' = <<>> /\ seq' = prevRS.seq /\ rg'.seq = prevRS.seq + 1 /\ rg'.toSeq = TxSeq
      BY <1>1, <1>4 DEF RebuildSearch, RangeSearch
    <2>2. made' = <<>> /\ bls'.rx <= rg'.toSeq
      BY <1>1, <1>2, <2>1, QuietSent DEF QuietInv, RestInv, Appending
    <2>3. Gathered(mps') /\ Gathered(made')
      BY <2>1, <2>2 DEF Gathered
    <2>4. RestInv' /\ AppendInv' /\ FirstSearchInv'
      BY <1>4 DEF RestInv, AppendInv, FirstSearchInv, Appending
    <2>5. RebuildSearchInv' /\ PromiseInv'
      BY <1>2, <1>4, <2>1, <2>2, QuietNumbers DEF RebuildSearchInv, PromiseInv
    <2>6. QED
      BY <1>2, <2>3, <2>4, <2>5 DEF QuietInv
  <1>5. QED
    BY <1>1, <1>3, <1>4

\* The status to announce promises no less than the one before: the messageProofData
\* it is taken from is the last one held, or the next one begins above the slot.
LEMMA SeqAtRises ==
    ASSUME TypeOK, AscendInv, ChainOrder, TurnInv, CalmInv, QuietInv, pc = "announce"
    PROVE  /\ prevRS.seq <= SeqAt(upd.f)
           /\ SeqAt(upd.f) <= seq
  <1>0. /\ prevRS.seq <= seq /\ (mps # <<>> => seq = LastTo(mps)) /\ Gathered(mps)
        /\ seq \in Nat /\ prevRS.seq \in Nat /\ mps \in Seq(MsgProof)
    BY QuietNumbers DEF QuietInv, PromiseInv, RestInv, Appending
  <1>1. upd.f \in FirstSlot .. head /\ prevRS.slot \in FirstSlot .. upd.f
    <2>1. upd.f = lastFU /\ lastFU <= fin /\ prevRS.slot <= lastFU
      BY DEF AscendInv, TurnInv, Announcing
    <2>2. QED
      BY <2>1, StatusNumbers, FinalNumbers
  <1>2. ASSUME NEW s \in FirstSlot .. head, prevRS.slot <= s
        PROVE  prevRS.seq <= chain[s].tx /\ chain[s].tx \in Nat
    <2>1. prevRS.slot \in FirstSlot .. head /\ prevRS.seq <= chain[prevRS.slot].tx
      BY <1>1, FinalNumbers DEF CalmInv, SentInv, Sent
    <2>2. chain[prevRS.slot].tx <= chain[s].tx /\ chain[s].tx \in Nat
          /\ chain[prevRS.slot].tx \in Nat
      BY <1>2, <2>1, FinalNumbers, SlotMessages DEF LastMsg
    <2>3. QED
      BY <1>0, <2>1, <2>2
  <1>3. ASSUME NEW i \in LastProofsFor(upd.f) PROVE prevRS.seq <= mps[i].to /\ mps[i].to <= seq
    <2>1. /\ i \in DOMAIN mps /\ mps[i].slot <= upd.f
          /\ \A j \in 1 .. i - 1 : mps[j].slot < upd.f
          /\ \A k \in i + 1 .. Len(mps) :
                mps[k].slot > upd.f \/ \E j \in 1 .. k - 1 : mps[j].slot >= upd.f
      BY DEF LastProofsFor
    <2>2. /\ DOMAIN mps = 1 .. Len(mps) /\ Len(mps) \in Nat /\ mps # <<>>
          /\ \A j \in DOMAIN mps : mps[j].slot \in Nat /\ mps[j].to \in Nat /\ mps[j].from \in Nat
      <3>1. DOMAIN mps = 1 .. Len(mps) /\ Len(mps) \in Nat /\ mps # <<>>
        BY <1>0, <2>1, LenProperties
      <3>2. \A j \in DOMAIN mps : mps[j].to \in Nat /\ mps[j].from \in Nat
        BY <1>0, <3>1, LastToType
      <3>3. ASSUME NEW j \in DOMAIN mps PROVE mps[j].slot \in Nat
        <4>1. mps[j] \in MsgProof
          BY <1>0, MsgProofFields
        <4>2. mps[j].slot \in Slots \/ mps[j].slot = 0
          BY <4>1 DEF MsgProof
        <4>3. QED
          BY <4>2, ChainAssumption DEF Slots
      <3>4. QED
        BY <3>1, <3>2, <3>3
    <2>3. mps[i].to <= seq
      BY <1>0, <2>1, <2>2 DEF Gathered
    <2>4. CASE i = Len(mps)
      BY <1>0, <2>2, <2>3, <2>4 DEF LastTo
    <2>5. CASE mps[i].slot = upd.f
      <3>1. mps[i].to = chain[upd.f].tx
        BY <2>1, <2>5 DEF CalmInv, ExactInv, AllExact, Exact
      <3>2. QED
        BY <1>1, <1>2, <2>3, <3>1
    <2>6. CASE i # Len(mps) /\ mps[i].slot # upd.f
      <3>1. i \in 1 .. Len(mps) - 1 /\ i + 1 \in DOMAIN mps /\ i + 1 \in i + 1 .. Len(mps)
        BY <2>1, <2>2, <2>6
      <3>2. mps[i + 1].slot > upd.f
        <4>1. ASSUME NEW j \in 1 .. i, mps[j].slot >= upd.f PROVE FALSE
          <5>1. j \in 1 .. i - 1 \/ j = i
            BY <2>1, <2>2
          <5>2. j \in DOMAIN mps /\ mps[j].slot \in Nat /\ upd.f \in Nat
            BY <2>1, <2>2, StatusNumbers
          <5>3. CASE j = i
            BY <2>1, <2>6, <4>1, <5>2, <5>3
          <5>4. CASE j \in 1 .. i - 1
            BY <2>1, <4>1, <5>2, <5>4
          <5>5. QED
            BY <5>1, <5>3, <5>4
        <4>2. \A j \in 1 .. i + 1 - 1 : j \in 1 .. i
          BY <2>1, <2>2
        <4>3. QED
          BY <2>1, <3>1, <4>1, <4>2
      <3> DEFINE t == mps[i + 1].slot
      <3>3. t \in FirstSlot + 1 .. head /\ chain[t - 1].tx < mps[i + 1].from
        BY <3>1 DEF CalmInv, ExactInv, AllExact, Exact
      <3>4. mps[i + 1].from <= mps[i].to + 1
        BY <1>0, <3>1 DEF Gathered
      <3>5. t - 1 \in FirstSlot .. head /\ prevRS.slot <= t - 1
        BY <1>1, <3>2, <3>3, StatusNumbers
      <3>6. prevRS.seq <= chain[t - 1].tx /\ chain[t - 1].tx \in Nat
        BY <1>2, <3>5
      <3>7. mps[i].to \in Nat /\ mps[i + 1].from \in Nat
        BY <2>1, <2>2, <3>1
      <3>8. prevRS.seq <= mps[i].to
        <4>1. \A a, b, c, d \in Nat : a <= b /\ b < c /\ c <= d + 1 => a <= d
          OBVIOUS
        <4>2. prevRS.seq \in Nat
          BY <1>0
        <4> HIDE DEF t
        <4>3. QED
          BY <3>3, <3>4, <3>6, <3>7, <4>1, <4>2, Zenon
      <3>9. QED
        BY <2>3, <3>8
    <2>7. QED
      BY <2>4, <2>5, <2>6
  <1>4. QED
    BY <1>0, <1>3, SeqAtChoice

LEMMA QuietStatus ==
    ASSUME TypeOK, AscendInv, ChainOrder, TurnInv, CalmInv, QuietInv, MakeStatus
    PROVE  QuietInv'
  <1>1. /\ pc = "announce" /\ pc' = "storeStatus" /\ rs' = [slot |-> upd.f, seq |-> SeqAt(upd.f)]
        /\ UNCHANGED <<gpc, mps, made, msnap, seq, rg, bls, prevRS, once>>
    BY DEF MakeStatus, linkVars, clearVars
  <1>2. prevRS.seq <= rs'.seq /\ rs'.seq <= seq
    BY <1>1, SeqAtRises
  <1>3. RestInv'
    BY <1>1 DEF QuietInv, RestInv, Appending, LastTo
  <1>4. AppendInv' /\ FirstSearchInv' /\ RebuildSearchInv'
    BY <1>1 DEF AppendInv, FirstSearchInv, RebuildSearchInv
  <1>5. PromiseInv'
    BY <1>1, <1>2 DEF QuietInv, PromiseInv, LastTo
  <1>6. QED
    BY <1>1, <1>3, <1>4, <1>5 DEF QuietInv, Gathered, LastTo

LEMMA NextQuiet ==
    ASSUME TypeOK, AscendInv, ChainOrder, LinkInv, TurnInv, CalmInv, QuietInv, reorgs = 0, clears' = 0,
           [Next]_vars
    PROVE  QuietInv'
  <1>1. CASE Chain \/ UNCHANGED vars
    <2>1. UNCHANGED <<gpc, mps, made, msnap, seq, rg, prevRS, once, bls, pc, rs>>
      BY <1>1 DEF Chain, vars, linkVars, handlerVars, clearVars
    <2>2. QED
      BY <2>1, QuietStays
  <1>2. ASSUME NEW h \in OptimisticUpdates, FirstUpdate(h) \/ LaterUpdate(h) PROVE QuietInv'
    <2>1. CASE FirstUpdate(h)
      BY <2>1, QuietFirst
    <2>2. CASE LaterUpdate(h)
      <3>1. /\ pc = "idle" /\ once /\ pc' = "header"
            /\ UNCHANGED <<gpc, mps, made, msnap, seq, rg, prevRS, once, bls>>
        BY <2>2 DEF LaterUpdate, linkVars, clearVars
      <3>2. ~Appending /\ ~Appending'
        BY <3>1 DEF Appending
      <3>3. QED
        BY <3>1, <3>2, QuietStays
    <2>3. QED
      BY <1>2, <2>1, <2>2
  <1>3. CASE StoreUndelivered \/ GatherFromHeader \/ StoreGathered
    BY <1>3, QuietStoreUndelivered, QuietGather, QuietStoreGathered
  <1>4. CASE RangeStep \/ RangeMisses \/ RangeDone
    BY <1>4, QuietStep, NoneLost, QuietDone
  <1>5. CASE RangeFails \/ RpcFails
    <2>1. /\ UNCHANGED <<gpc, mps, seq, bls, once, prevRS>> /\ pc' = "idle" /\ made' = <<>>
          /\ pc \in {"header", "validate", "rebuild"}
      BY <1>5 DEF RangeFails, RpcFails, Return, linkVars, clearVars
    <2>2. prevRS'.seq <= seq /\ (mps = <<>> \/ ~Appending)
      BY <2>1 DEF QuietInv, PromiseInv, RebuildSearchInv, Appending
    <2>3. QED
      BY <2>1, <2>2, QuietReturn
  <1>6. CASE RangePanics \/ ClearPanics \/ FaultPanics \/ Restart
    BY <1>6, QuietStart DEF RangePanics, ClearPanics, FaultPanics, Restart, Panic
  <1>7. CASE \E a \in Attesting : FinalityUpdate(a)
    <2>1. /\ pc = "idle" /\ pc' = "validate"
          /\ UNCHANGED <<gpc, mps, made, msnap, seq, rg, prevRS, once, bls>>
      BY <1>7 DEF FinalityUpdate, linkVars, clearVars
    <2>2. ~Appending /\ ~Appending'
      BY <2>1 DEF Appending
    <2>3. QED
      BY <2>1, <2>2, QuietStays
  <1>8. CASE Validate \/ StoreRebuilt \/ MakeStatus
    BY <1>8, QuietValidate, QuietStoreRebuilt, QuietStatus
  <1>9. CASE StoreStatus
    <2>1. /\ pc = "storeStatus" /\ pc' = "send"
          /\ UNCHANGED <<gpc, mps, made, msnap, seq, rg, prevRS, once, bls, rs>>
      BY <1>9 DEF StoreStatus, linkVars, clearVars
    <2>2. ~Appending /\ ~Appending'
      BY <2>1 DEF Appending
    <2>3. QED
      BY <2>1, <2>2, QuietStays
  <1>10. CASE Consume
    <2>1. /\ pc = "send" /\ pc' = "idle" /\ made' = <<>> /\ prevRS' = rs
          /\ UNCHANGED <<gpc, mps, seq, bls, once>>
      BY <1>10 DEF Consume, Return, linkVars, clearVars
    <2>2. prevRS'.seq <= seq /\ ~Appending
      BY <2>1 DEF QuietInv, PromiseInv, Appending
    <2>3. QED
      BY <2>1, <2>2, QuietReturn
  <1>11. CASE RelayBlockUpdate \/ RefuseBlockUpdate \/ RelayMessageProof \/ Execute
    <2>1. UNCHANGED <<gpc, mps, made, msnap, seq, rg, prevRS, once, pc, rs>>
      BY <1>11 DEF RelayBlockUpdate, RefuseBlockUpdate, RelayMessageProof, Execute,
                   handlerVars, clearVars
    <2>2. CASE RelayBlockUpdate \/ Execute
      <3>1. bls'.rx = bls.rx
        BY <2>2 DEF RelayBlockUpdate, Execute, TypeOK, LinkStatus
      <3>2. QED
        BY <2>1, <3>1, QuietStays
    <2>3. CASE RefuseBlockUpdate
      <3>1. bls'.rx \in Nat /\ bls'.rx <= bls.rx
        BY <2>3, QuietNumbers DEF RefuseBlockUpdate, LinkInv
      <3>2. QED
        BY <2>1, <3>1, QuietStays
    <2>4. CASE RelayMessageProof
      <3>1. PICK i \in ProofsFor(bls.rx + 1) :
               bls' = [bls EXCEPT !.rx = mps[i].to, !.last = mps[i].slot]
        BY <2>4 DEF RelayMessageProof
      <3>2. bls'.rx = mps[i].to /\ i \in DOMAIN mps
        BY <3>1 DEF TypeOK, LinkStatus, ProofsFor
      <3>3. mps # <<>> /\ mps[i].to <= LastTo(mps)
        BY <3>2 DEF QuietInv, Gathered
      <3>4. QED
        BY <2>1, <3>2, <3>3, QuietStays
    <2>5. QED
      BY <1>11, <2>2, <2>3, <2>4
  <1>12. CASE Clear \/ LoadRss \/ StoreRss \/ ScanMps \/ LoadMps \/ StoreMps
    <2>1. gpc = "idle"
      BY DEF QuietInv
    <2>2. Clear
      BY <1>12, <2>1 DEF LoadRss, StoreRss, ScanMps, LoadMps, StoreMps
    <2>3. clears' = clears + 1 /\ clears \in Nat
      BY <2>2, ReceiverAssumption DEF Clear, TypeOK, BudgetsOK
    <2>4. QED
      BY <2>3
  <1>13. QED
    BY <1>1, <1>2, <1>3, <1>4, <1>5, <1>6, <1>7, <1>8, <1>9, <1>10, <1>11, <1>12
       DEF Next, Handler, Link, ClearData

LEMMA QuietAlways == Spec => [](StatusInv /\ (reorgs = 0 /\ clears = 0 => QuietInv))
  <1>1. Init => QuietInv
    <2>1. ASSUME Init PROVE Gathered(mps) /\ Gathered(made)
      BY <2>1 DEF Init, Gathered
    <2>2. Init => RestInv /\ AppendInv /\ FirstSearchInv /\ RebuildSearchInv
      BY DEF Init, RestInv, AppendInv, FirstSearchInv, RebuildSearchInv
    <2>3. Init => PromiseInv
      BY DEF Init, PromiseInv, NoStatus
    <2>4. Init => gpc = "idle"
      BY DEF Init
    <2>5. QED
      BY <2>1, <2>2, <2>3, <2>4 DEF QuietInv
  <1>2. ASSUME StatusInv, reorgs = 0 /\ clears = 0 => QuietInv, [Next]_vars,
               reorgs' = 0, clears' = 0
        PROVE  QuietInv'
    <2>1. reorgs = 0 /\ clears = 0
      BY <1>2, CountsRise DEF StatusInv
    <2>2. QED
      BY <1>2, <2>1, NextQuiet DEF StatusInv
  <1>3. StatusInv /\ (reorgs = 0 /\ clears = 0 => QuietInv) /\ [Next]_vars
          => (reorgs = 0 /\ clears = 0 => QuietInv)'
    BY <1>2
  <1>4. QED
    BY <1>1, <1>3, InitStatus, NextStatus, PTL DEF Spec

\* Until the relay starts again, the statuses the link takes never go back in slot,
\* and as long as no block was orphaned and clearData has not run not in messages
\* promised either, whatever rebuild or RPC failed in between and for every number of
\* messages, restarts and faults (Monitoring's finality handler).
THEOREM StatusesGoUp == Spec => StatusesRise
  <1>1. ASSUME StatusInv, reorgs = 0 /\ clears = 0 => QuietInv, Consume
        PROVE  /\ prevRS.slot <= prevRS'.slot
               /\ reorgs = 0 /\ clears = 0 => prevRS.seq <= prevRS'.seq
    <2>1. pc = "send" /\ prevRS' = rs
      BY <1>1 DEF Consume
    <2>2. prevRS.slot <= lastFU /\ rs.slot = lastFU
      BY <1>1, <2>1 DEF StatusInv, TurnInv
    <2>3. reorgs = 0 /\ clears = 0 => prevRS.seq <= rs.seq
      BY <1>1, <2>1 DEF QuietInv, PromiseInv
    <2>4. QED
      BY <2>1, <2>2, <2>3
  <1>2. StatusInv /\ (reorgs = 0 /\ clears = 0 => QuietInv) =>
          [Consume => /\ prevRS.slot <= prevRS'.slot
                      /\ reorgs = 0 /\ clears = 0 => prevRS.seq <= prevRS'.seq]_vars
    BY <1>1
  <1>3. QED
    BY <1>2, QuietAlways, PTL DEF StatusesRise

\* As long as no block was orphaned and clearData has not run, no optimistic update
\* gathers a message that is held already, whichever of the update, the search of the
\* first one and a rebuild came first (messageProofDataFromHeader, Monitoring).
THEOREM NothingGatheredTwice == Spec => NoDoubleGather
  <1>1. ASSUME StatusInv, reorgs = 0 /\ clears = 0 => QuietInv, StoreGathered,
               reorgs = 0, clears = 0,
               NEW q \in made[1].from .. made[1].to, NEW i \in DOMAIN mps, Holds(mps[i], q)
        PROVE  FALSE
    <2>1. pc = "append" /\ QuietInv /\ TypeOK
      BY <1>1 DEF StoreGathered, StatusInv
    <2>2. mps \in Seq(MsgProof) /\ made \in Seq(MsgProof) /\ Len(made) = 1
      BY <2>1, QuietNumbers DEF QuietInv, AppendInv
    <2>3. mps # <<>> /\ made # <<>>
      <3>1. mps # <<>>
        BY <2>2
      <3>2. made # <<>>
        <4>1. Len(<<>>) = 0 /\ Len(made) # 0
          BY <2>2
        <4>2. QED
          BY <4>1, Zenon
      <3>3. QED
        BY <3>1, <3>2
    <2>4. made[1].from = LastTo(mps) + 1 /\ mps[i].to <= LastTo(mps)
      BY <1>1, <2>1, <2>3 DEF QuietInv, AppendInv, Gathered
    <2>5. LastTo(mps) \in Nat /\ mps[i].to \in Nat
      BY <1>1, <2>2, <2>3, LastToType
    <2>6. q >= LastTo(mps) + 1 /\ q <= mps[i].to
      BY <1>1, <2>4 DEF Holds
    <2>7. QED
      BY <1>1, <2>4, <2>5, <2>6
  <1>2. StatusInv /\ (reorgs = 0 /\ clears = 0 => QuietInv) =>
          [StoreGathered /\ reorgs = 0 /\ clears = 0 =>
             \A q \in made[1].from .. made[1].to : ~HeldBy(mps, q)]_vars
    BY <1>1 DEF HeldBy
  <1>3. QED
    BY <1>2, QuietAlways, PTL DEF NoDoubleGather

------------------------------------------------------------------------------
(* Searches *)

\* On the chain c with finalized slot f, a proof of the message q that has the
\* chain's own header.
FinalHeld(c, f, proofs, q) ==
    \E i \in DOMAIN proofs :
        /\ Holds(proofs[i], q)
        /\ Exact(c, f, proofs[i])
        /\ proofs[i].ver = c[proofs[i].slot].ver

\* The messages after lo of the blocks after a slot up to f have such proofs, as far
\* as they are before n.
Covers(c, proofs, lo, slot, f, n) ==
    \A q \in lo + 1 .. c[f].tx : c[slot].tx < q /\ q < n => FinalHeld(c, f, proofs, q)

\* On the chain c finalized up to g, the search r does not pass over the block of its
\* next message, if that lies after a slot and up to f.
Reaches(c, g, r, slot, f) ==
    \/ r.fSlot <= slot + 1
    \/ r.fSlot - 1 \in FirstSlot .. g /\ c[r.fSlot - 1].tx < r.seq
    \/ c[f].tx < r.seq

LEMMA FinalHeldStays ==
    ASSUME NEW c, NEW f \in Nat, NEW d, \A s \in FirstSlot .. f : d[s] = c[s],
           NEW p, NEW q, FinalHeld(c, f, p, q)
    PROVE  FinalHeld(d, f, p, q)
  <1>1. PICK i \in DOMAIN p :
           Holds(p[i], q) /\ Exact(c, f, p[i]) /\ p[i].ver = c[p[i].slot].ver
    BY DEF FinalHeld
  <1>2. p[i].slot \in FirstSlot + 1 .. f
    BY <1>1 DEF Exact
  <1>3. p[i].slot \in FirstSlot .. f /\ p[i].slot - 1 \in FirstSlot .. f
    BY <1>2, ChainAssumption
  <1>4. Exact(d, f, p[i]) /\ p[i].ver = d[p[i].slot].ver
    BY <1>1, <1>2, <1>3 DEF Exact
  <1>5. QED
    BY <1>1, <1>4 DEF FinalHeld

\* One proof more, which holds the next messages.
LEMMA CoversMore ==
    ASSUME NEW c, NEW lo \in Nat, NEW slot, NEW f, NEW n \in Nat, c[f].tx \in Nat,
           NEW p \in Seq(MsgProof), NEW x \in MsgProof, x.from = n,
           Covers(c, p, lo, slot, f, n),
           \A q \in lo + 1 .. c[f].tx :
              c[slot].tx < q /\ n <= q /\ q <= x.to => Exact(c, f, x) /\ x.ver = c[x.slot].ver
    PROVE  Covers(c, Append(p, x), lo, slot, f, x.to + 1)
  <1> SUFFICES ASSUME NEW q \in lo + 1 .. c[f].tx, c[slot].tx < q, q < x.to + 1
               PROVE  FinalHeld(c, f, Append(p, x), q)
    BY DEF Covers
  <1>1. x.to \in Nat
    BY ChainAssumption DEF MsgProof
  <1>2. CASE q < n
    <2>1. PICK i \in DOMAIN p : Holds(p[i], q) /\ Exact(c, f, p[i]) /\ p[i].ver = c[p[i].slot].ver
      BY <1>2 DEF Covers, FinalHeld
    <2>2. i \in DOMAIN Append(p, x) /\ Append(p, x)[i] = p[i]
      BY AppendElements
    <2>3. QED
      BY <2>1, <2>2 DEF FinalHeld
  <1>3. CASE ~(q < n)
    <2>1. n <= q /\ q <= x.to
      BY <1>1, <1>3
    <2>2. Holds(x, q) /\ Exact(c, f, x) /\ x.ver = c[x.slot].ver
      BY <2>1 DEF Holds
    <2>3. Len(p) + 1 \in DOMAIN Append(p, x) /\ Append(p, x)[Len(p) + 1] = x
      BY AppendElements
    <2>4. QED
      BY <2>2, <2>3 DEF FinalHeld
  <1>4. QED
    BY <1>2, <1>3

\* The block of a message that a search scans lies after the slots whose messages are
\* before it, and not after a slot whose messages are not.
LEMMA ScannedSpan ==
    ASSUME TypeOK, ChainOrder, NEW s \in ScannedAt(rg)
    PROVE  /\ s \in FirstSlot + 1 .. head /\ s \in Nat
           /\ rg.seq \in Nat /\ LastMsg(s) \in Nat /\ LastMsg(s) = chain[s].tx
           /\ Exact(chain, s, [slot |-> s, ver |-> chain[s].ver,
                               from |-> rg.seq, to |-> LastMsg(s)])
           /\ \A t \in FirstSlot .. head : \A q \in Nat :
                 /\ chain[t].tx \in Nat
                 /\ rg.seq <= q /\ q <= chain[t].tx => s <= t
                 /\ chain[t].tx < q /\ q <= LastMsg(s) => t < s
  <1>1. s \in FirstSlot .. head /\ FirstMsg(s) <= rg.seq /\ rg.seq <= LastMsg(s)
    BY DEF ScannedAt
  <1>2. rg.seq \in Nat
    BY DEF TypeOK, HandlerOK, Search
  <1>3. /\ s \in FirstSlot + 1 .. head /\ s \in Nat /\ s # FirstSlot
        /\ LastMsg(s) = chain[s].tx /\ FirstMsg(s) = chain[s - 1].tx + 1
        /\ s - 1 \in FirstSlot .. head
        /\ chain[s - 1].tx \in Nat /\ chain[s].tx \in Nat
    BY <1>1, <1>2, FinalNumbers, SlotMessages
  <1>4. Exact(chain, s, [slot |-> s, ver |-> chain[s].ver,
                         from |-> rg.seq, to |-> LastMsg(s)])
    BY <1>1, <1>2, <1>3, FinalNumbers DEF Exact
  <1>5. ASSUME NEW t \in FirstSlot .. head, NEW q \in Nat
        PROVE  /\ chain[t].tx \in Nat
               /\ rg.seq <= q /\ q <= chain[t].tx => s <= t
               /\ chain[t].tx < q /\ q <= LastMsg(s) => t < s
    <2>1. chain[t].tx \in Nat /\ t \in Nat
      BY SlotMessages, FinalNumbers
    <2>2. s <= t => chain[s].tx <= chain[t].tx
      BY <1>1, FinalNumbers DEF LastMsg
    <2>3. t <= s - 1 => chain[t].tx <= chain[s - 1].tx
      BY <1>3, FinalNumbers DEF LastMsg
    <2>4. QED
      BY <1>1, <1>2, <1>3, <2>1, <2>2, <2>3
  <1>6. QED
    BY <1>2, <1>3, <1>4, <1>5

\* What a search does with the block of the next message.
LEMMA SearchMoves ==
    ASSUME TypeOK, RangeStep \/ RangeMisses
    PROVE  \E s \in ScannedAt(rg) : \E x \in MsgProof :
              /\ made' = Append(made, x) /\ x.from = rg.seq /\ x.to = LastMsg(s)
              /\ rg'.seq = LastMsg(s) + 1 /\ rg'.toSeq = rg.toSeq /\ rg'.toSlot = rg.toSlot
              /\ \/ /\ x = [slot |-> s, ver |-> chain[s].ver, from |-> rg.seq, to |-> LastMsg(s)]
                    /\ rg'.fSlot = s + 1
                 \/ /\ reorgs # 0 /\ s \notin FoundAt(rg)
                    /\ rg'.fSlot = 1
  <1>1. rg \in Search /\ ChainTypeOK
    BY DEF TypeOK, HandlerOK
  <1>2. CASE RangeStep
    <2>1. PICK s \in FoundAt(rg) :
             /\ made' = Append(made, [slot |-> s, ver |-> chain[s].ver,
                                      from |-> rg.seq, to |-> LastMsg(s)])
             /\ rg' = [rg EXCEPT !.seq = LastMsg(s) + 1, !.fbn = chain[s].bn + 1,
                                 !.fSlot = s + 1]
      BY <1>2 DEF RangeStep
    <2> DEFINE x == [slot |-> s, ver |-> chain[s].ver, from |-> rg.seq, to |-> LastMsg(s)]
    <2>2. s \in ScannedAt(rg) /\ x \in MsgProof
      BY <1>1, FoundAreScanned, ScannedAtType
    <2>3. /\ rg'.seq = LastMsg(s) + 1 /\ rg'.fSlot = s + 1
          /\ rg'.toSeq = rg.toSeq /\ rg'.toSlot = rg.toSlot
      BY <1>1, <2>1 DEF Search
    <2>4. x.from = rg.seq /\ x.to = LastMsg(s) /\ made' = Append(made, x)
      BY <2>1
    <2>5. QED
      BY <2>2, <2>3, <2>4
  <1>3. CASE RangeMisses
    <2>1. PICK s \in LostAt(rg) :
             /\ made' = Append(made, [slot |-> 0, ver |-> 0,
                                      from |-> rg.seq, to |-> LastMsg(s)])
             /\ rg' = [rg EXCEPT !.seq = LastMsg(s) + 1, !.fbn = chain[s].bn + 1, !.fSlot = 1]
      BY <1>3 DEF RangeMisses
    <2> DEFINE x == [slot |-> 0, ver |-> 0, from |-> rg.seq, to |-> LastMsg(s)]
    <2>2. s \in ScannedAt(rg) /\ x \in MsgProof
      BY <1>1, FoundAreScanned, ScannedAtType
    <2>3. /\ rg'.seq = LastMsg(s) + 1 /\ rg'.fSlot = 1
          /\ rg'.toSeq = rg.toSeq /\ rg'.toSlot = rg.toSlot
      BY <1>1, <2>1 DEF Search
    <2>4. x.from = rg.seq /\ x.to = LastMsg(s) /\ made' = Append(made, x)
      BY <2>1
    <2>5. reorgs # 0 /\ s \notin FoundAt(rg)
      BY DEF LostAt
    <2>6. QED
      BY <2>2, <2>3, <2>4, <2>5
  <1>4. QED
    BY <1>2, <1>3

\* A search finds the block of the next message if no block was orphaned, or if it
\* lies after a slot and up to f, both final, and the search does not pass over it.
LEMMA SearchCovers ==
    ASSUME TypeOK, ChainOrder, RangeStep \/ RangeMisses,
           NEW lo \in Nat, NEW slot \in FirstSlot .. head, NEW f \in FirstSlot .. head,
           reorgs = 0 \/ (f <= rg.toSlot /\ Reaches(chain, fin, rg, slot, f)),
           Covers(chain, made, lo, slot, f, rg.seq)
    PROVE  Covers(chain, made', lo, slot, f, rg'.seq)
  <1>1. PICK s \in ScannedAt(rg), x \in MsgProof :
           /\ made' = Append(made, x) /\ x.from = rg.seq /\ x.to = LastMsg(s)
           /\ rg'.seq = LastMsg(s) + 1
           /\ \/ /\ x = [slot |-> s, ver |-> chain[s].ver, from |-> rg.seq, to |-> LastMsg(s)]
                 /\ rg'.fSlot = s + 1
              \/ /\ reorgs # 0 /\ s \notin FoundAt(rg)
                 /\ rg'.fSlot = 1
    BY SearchMoves, Zenon
  <1>2. /\ s \in FirstSlot + 1 .. head /\ s \in Nat /\ rg.seq \in Nat /\ LastMsg(s) \in Nat
        /\ Exact(chain, s, [slot |-> s, ver |-> chain[s].ver,
                            from |-> rg.seq, to |-> LastMsg(s)])
        /\ \A t \in FirstSlot .. head : \A q \in Nat :
              /\ chain[t].tx \in Nat
              /\ rg.seq <= q /\ q <= chain[t].tx => s <= t
              /\ chain[t].tx < q /\ q <= LastMsg(s) => t < s
    BY ScannedSpan
  <1>3. made \in Seq(MsgProof) /\ rg \in Search
    BY DEF TypeOK, HandlerOK
  <1>4. ASSUME NEW q \in lo + 1 .. chain[f].tx, chain[slot].tx < q, rg.seq <= q, q <= x.to
        PROVE  Exact(chain, f, x) /\ x.ver = chain[x.slot].ver
    <2>1. q \in Nat /\ slot < s /\ s <= f
      BY <1>1, <1>2, <1>4
    <2>2. CASE x = [slot |-> s, ver |-> chain[s].ver, from |-> rg.seq, to |-> LastMsg(s)]
      <3>1. Exact(chain, s, x) /\ x.slot = s /\ x.ver = chain[s].ver
        BY <1>2, <2>2
      <3>2. Exact(chain, f, x)
        BY <1>2, <2>1, <3>1, FinalNumbers DEF Exact
      <3>3. QED
        BY <3>1, <3>2
    <2>3. CASE reorgs # 0 /\ s \notin FoundAt(rg)
      <3>1. s <= rg.toSlot
        BY <1>2, <1>3, <2>1, <2>3, FinalNumbers DEF Search
      <3>2. rg.fSlot \in Nat /\ ~(s < rg.fSlot)
        <4>1. rg.fSlot \in Nat /\ chain[f].tx \in Nat /\ slot \in Nat
          BY <1>2, <1>3, <2>1, FinalNumbers DEF Search
        <4>2. ~(chain[f].tx < rg.seq)
          BY <1>2, <1>4, <2>1, <4>1
        <4>3. CASE rg.fSlot <= slot + 1
          BY <1>2, <2>1, <4>1, <4>3
        <4>4. CASE rg.fSlot - 1 \in FirstSlot .. fin /\ chain[rg.fSlot - 1].tx < rg.seq
          <5>1. rg.fSlot - 1 \in FirstSlot .. head
            BY <4>1, <4>4, FinalNumbers
          <5>2. rg.seq <= LastMsg(s)
            BY DEF ScannedAt
          <5>3. rg.fSlot - 1 < s
            BY <1>2, <4>4, <5>1, <5>2
          <5>4. QED
            BY <1>2, <4>1, <5>3
        <4>5. QED
          BY <2>3, <4>1, <4>2, <4>3, <4>4 DEF Reaches
      <3>3. \A t \in s + 1 .. rg.fSlot : t > head \/ ~IsBlock(t)
        BY <1>2, <3>2
      <3>4. s \in FoundAt(rg)
        BY <3>1, <3>3 DEF FoundAt
      <3>5. QED
        BY <2>3, <3>4
    <2>4. QED
      BY <1>1, <2>2, <2>3
  <1>5. chain[f].tx \in Nat
    BY <1>2
  <1>6. Covers(chain, Append(made, x), lo, slot, f, x.to + 1)
    BY <1>1, <1>2, <1>3, <1>4, <1>5, CoversMore
  <1>7. QED
    BY <1>1, <1>6

LEMMA SearchReaches ==
    ASSUME TypeOK, ChainOrder, RangeStep \/ RangeMisses,
           NEW slot \in FirstSlot .. head, NEW f \in FirstSlot .. fin
    PROVE  Reaches(chain, fin, rg', slot, f)
  <1>1. PICK s \in ScannedAt(rg) :
           rg'.seq = LastMsg(s) + 1 /\ (rg'.fSlot = s + 1 \/ rg'.fSlot = 1)
    BY SearchMoves, Zenon
  <1>2. /\ s \in FirstSlot + 1 .. head /\ s \in Nat /\ LastMsg(s) \in Nat
        /\ LastMsg(s) = chain[s].tx
    BY ScannedSpan
  <1>3. CASE rg'.fSlot = 1
    BY <1>3, FinalNumbers DEF Reaches
  <1>4. CASE rg'.fSlot = s + 1 /\ s <= fin
    <2>1. s + 1 - 1 = s /\ s \in FirstSlot .. fin
      BY <1>2, <1>4, FinalNumbers
    <2>2. chain[s].tx < LastMsg(s) + 1
      BY <1>2
    <2>3. QED
      BY <1>1, <1>4, <2>1, <2>2 DEF Reaches
  <1>5. CASE rg'.fSlot = s + 1 /\ fin < s
    <2>1. f \in FirstSlot .. head /\ f <= s /\ s \in FirstSlot .. head
      BY <1>2, <1>5, FinalNumbers
    <2>2. chain[f].tx <= chain[s].tx /\ chain[f].tx \in Nat
      BY <2>1, FinalNumbers, SlotMessages DEF LastMsg
    <2>3. chain[f].tx < rg'.seq
      BY <1>1, <1>2, <2>2
    <2>4. QED
      BY <2>3 DEF Reaches
  <1>6. QED
    BY <1>1, <1>2, <1>3, <1>4, <1>5, FinalNumbers

\* The chain's slots up to the finalized one stay, and so does what a search reaches.
LEMMA ReachesStays ==
    ASSUME NEW c, NEW d, NEW g \in Nat, NEW k \in Nat, g <= k,
           \A s \in FirstSlot .. g : d[s] = c[s],
           NEW r, NEW slot \in Nat, NEW low \in Nat, slot <= low, r.fSlot \in Nat,
           NEW f \in FirstSlot .. g, Reaches(c, g, r, slot, f)
    PROVE  Reaches(d, k, r, low, f)
  <1>1. r.fSlot - 1 \in FirstSlot .. g => r.fSlot - 1 \in FirstSlot .. k
    BY ChainAssumption
  <1>2. QED
    BY <1>1 DEF Reaches

\* A message with such a proof can be relayed.
LEMMA HeldIsProvable ==
    ASSUME TypeOK, ChainOrder, NEW f \in FirstSlot .. head, NEW p \in Seq(MsgProof),
           NEW q, FinalHeld(chain, f, p, q)
    PROVE  ProvableBy(p, q)
  <1>1. PICK i \in DOMAIN p :
           Holds(p[i], q) /\ Exact(chain, f, p[i]) /\ p[i].ver = chain[p[i].slot].ver
    BY DEF FinalHeld
  <1> DEFINE mp == p[i]
  <1>2. mp \in MsgProof
    BY MsgProofFields
  <1>3. mp.slot \in FirstSlot + 1 .. f /\ chain[mp.slot - 1].tx < mp.from
        /\ mp.to = chain[mp.slot].tx
    BY <1>1 DEF Exact
  <1>4. /\ mp.slot \in FirstSlot .. head /\ mp.slot # FirstSlot
        /\ mp.slot - 1 \in FirstSlot .. head
    <2>1. FirstSlot \in Nat /\ head \in Nat /\ f \in FirstSlot .. head
      BY FinalNumbers
    <2>2. \A s \in FirstSlot + 1 .. f :
             s \in FirstSlot .. head /\ s # FirstSlot /\ s - 1 \in FirstSlot .. head
      BY <2>1
    <2>3. QED
      BY <1>3, <2>2
  <1>5. /\ FirstMsg(mp.slot) = chain[mp.slot - 1].tx + 1 /\ chain[mp.slot - 1].tx \in Nat
        /\ LastMsg(mp.slot) = chain[mp.slot].tx /\ chain[mp.slot].tx \in Nat
    BY <1>4, SlotMessages
  <1>6. mp.from \in Nat
    BY <1>2, ChainAssumption DEF MsgProof
  <1>7. Provable(mp)
    BY <1>1, <1>3, <1>4, <1>5, <1>6 DEF Provable
  <1>8. QED
    BY <1>1, <1>7 DEF ProvableBy

\* Proofs appended to others can be relayed as they can alone.
LEMMA ProvableAppended ==
    ASSUME NEW p \in Seq(MsgProof), NEW r \in Seq(MsgProof), NEW q, ProvableBy(r, q)
    PROVE  ProvableBy(p \o r, q)
  <1>1. PICK i \in DOMAIN r : Holds(r[i], q) /\ Provable(r[i])
    BY DEF ProvableBy
  <1>2. Len(p) + i \in DOMAIN (p \o r) /\ (p \o r)[Len(p) + i] = r[i]
    <2>1. /\ i \in 1 .. Len(r) /\ Len(p) \in Nat /\ Len(r) \in Nat
          /\ DOMAIN (p \o r) = 1 .. Len(p) + Len(r)
          /\ (p \o r)[Len(p) + i] = r[i]
      BY <1>1, ConcatElements
    <2>2. QED
      BY <2>1
  <1>3. QED
    BY <1>1, <1>2 DEF ProvableBy

------------------------------------------------------------------------------
(* Rebuilds *)

\* A rebuild looks for every message up to the finalized slot and has found those
\* before the one it is at.  Blocks above the finalized slot may be orphaned while it
\* goes on, and then it does so with those after the slot of the last status.
RebuildInv ==
    /\ pc = "validate" => upd.f <= upd.a
    /\ pc = "rebuild" =>
          /\ upd.f <= rg.toSlot /\ chain[upd.f].tx <= rg.toSeq
          /\ Reaches(chain, fin, rg, prevRS.slot, upd.f)
          /\ Covers(chain, made, prevRS.seq, prevRS.slot, upd.f, rg.seq)
          /\ reorgs = 0 => Covers(chain, made, prevRS.seq, FirstSlot, upd.f, rg.seq)
    /\ pc = "storeRebuilt" =>
          \A q \in prevRS.seq + 1 .. chain[upd.f].tx :
             reorgs = 0 \/ chain[prevRS.slot].tx < q => FinalHeld(chain, upd.f, made, q)

\* The slots a rebuild lies between are final.
LEMMA RebuildSlots ==
    ASSUME TypeOK, AscendInv, ChainOrder, TurnInv
    PROVE  /\ prevRS.slot \in FirstSlot .. fin /\ prevRS.slot \in FirstSlot .. head
           /\ chain[prevRS.slot].tx \in Nat /\ prevRS.seq \in Nat
           /\ FirstSlot \in FirstSlot .. head /\ FirstSlot \in FirstSlot .. fin
           /\ chain[FirstSlot].tx = 0
           /\ Announcing => /\ upd.f \in FirstSlot .. fin /\ upd.f \in FirstSlot .. head
                            /\ chain[upd.f].tx \in Nat
           /\ rg.seq \in Nat /\ rg.toSeq \in Nat /\ rg.fSlot \in Nat
  <1>1. /\ prevRS.slot \in FirstSlot .. fin /\ prevRS.slot \in FirstSlot .. head
        /\ FirstSlot \in FirstSlot .. head /\ FirstSlot \in FirstSlot .. fin
        /\ Announcing => upd.f \in FirstSlot .. fin /\ upd.f \in FirstSlot .. head
    BY StatusNumbers, FinalNumbers DEF AscendInv, TurnInv
  <1>2. rg.seq \in Nat /\ rg.toSeq \in Nat /\ rg.fSlot \in Nat
    BY ChainAssumption DEF TypeOK, HandlerOK, Search, Seqs
  <1>3. QED
    BY <1>1, <1>2, StatusNumbers, SlotMessages DEF ChainOrder

LEMMA RebuildStep ==
    ASSUME TypeOK, AscendInv, ChainOrder, TurnInv, RebuildInv, pc = "rebuild",
           RangeStep \/ RangeMisses
    PROVE  RebuildInv'
  <1>1. UNCHANGED <<chain, fin, pc, prevRS, upd, reorgs>>
    BY DEF RangeStep, RangeMisses, chainVars
  <1>2. rg'.toSeq = rg.toSeq /\ rg'.toSlot = rg.toSlot
    BY SearchMoves, Zenon
  <1>3. /\ upd.f <= rg.toSlot /\ chain[upd.f].tx <= rg.toSeq
        /\ Reaches(chain, fin, rg, prevRS.slot, upd.f)
        /\ Covers(chain, made, prevRS.seq, prevRS.slot, upd.f, rg.seq)
        /\ reorgs = 0 => Covers(chain, made, prevRS.seq, FirstSlot, upd.f, rg.seq)
    BY DEF RebuildInv
  <1>4. Announcing
    BY DEF Announcing
  <1>5. Reaches(chain, fin, rg', prevRS.slot, upd.f)
    BY <1>4, RebuildSlots, SearchReaches
  <1>6. Covers(chain, made', prevRS.seq, prevRS.slot, upd.f, rg'.seq)
    BY <1>3, <1>4, RebuildSlots, SearchCovers
  <1>7. reorgs = 0 => Covers(chain, made', prevRS.seq, FirstSlot, upd.f, rg'.seq)
    BY <1>3, <1>4, RebuildSlots, SearchCovers
  <1>8. QED
    BY <1>1, <1>2, <1>3, <1>5, <1>6, <1>7 DEF RebuildInv

\* A rebuild begins at the message after the last status and the slot after its own,
\* and looks for every message sent so far, up to the slot of the update.
LEMMA RebuildBegins ==
    ASSUME TypeOK, AscendInv, ChainOrder, TurnInv, RebuildInv, Validate
    PROVE  RebuildInv'
  <1>1. /\ pc = "validate" /\ UNCHANGED <<chain, fin, prevRS, upd, made>>
        /\ pc' = "announce" \/ (pc' = "rebuild" /\ rg' = RebuildSearch)
    <2>1. pc = "validate" /\ (pc' = "announce" \/ (pc' = "rebuild" /\ rg' = RebuildSearch))
      BY Zenon DEF Validate
    <2>2. UNCHANGED <<chain, fin, prevRS, upd, made>>
      BY DEF Validate, chainVars
    <2>3. QED
      BY <2>1, <2>2
  <1>2. upd.f \in FirstSlot .. head /\ prevRS.slot \in Nat
    BY <1>1, RebuildSlots, StatusNumbers DEF Announcing
  <1>3. chain[upd.f].tx <= TxSeq
    BY <1>2, FinalNumbers DEF LastMsg, TxSeq
  <1>4. /\ RebuildSearch.seq = prevRS.seq + 1 /\ RebuildSearch.toSeq = TxSeq
        /\ RebuildSearch.fSlot = prevRS.slot + 1 /\ RebuildSearch.toSlot = upd.a
    BY DEF RebuildSearch, RangeSearch
  <1>5. \A slot : Covers(chain, made, prevRS.seq, slot, upd.f, prevRS.seq + 1)
    BY StatusNumbers DEF Covers
  <1>6. Reaches(chain, fin, RebuildSearch, prevRS.slot, upd.f)
    BY <1>2, <1>4 DEF Reaches
  <1>7. upd.f <= upd.a
    BY <1>1 DEF RebuildInv
  <1>8. CASE pc' = "announce"
    BY <1>8 DEF RebuildInv
  <1>9. CASE pc' = "rebuild" /\ rg' = RebuildSearch
    BY <1>1, <1>3, <1>4, <1>5, <1>6, <1>7, <1>9 DEF RebuildInv
  <1>10. QED
    BY <1>1, <1>8, <1>9

\* A search that ends is after every message it looked for.
LEMMA RebuildEnds ==
    ASSUME TypeOK, AscendInv, ChainOrder, TurnInv, RebuildInv, pc = "rebuild", RangeDone
    PROVE  RebuildInv'
  <1>1. /\ pc' = "storeRebuilt" /\ rg.seq > rg.toSeq
        /\ UNCHANGED <<chain, fin, prevRS, upd, made, reorgs>>
    BY DEF RangeDone, SearchDone, chainVars
  <1>2. /\ chain[upd.f].tx <= rg.toSeq
        /\ Covers(chain, made, prevRS.seq, prevRS.slot, upd.f, rg.seq)
        /\ reorgs = 0 => Covers(chain, made, prevRS.seq, FirstSlot, upd.f, rg.seq)
    BY DEF RebuildInv
  <1>3. /\ chain[upd.f].tx \in Nat /\ rg.seq \in Nat /\ rg.toSeq \in Nat /\ prevRS.seq \in Nat
        /\ chain[FirstSlot].tx = 0
    BY RebuildSlots DEF Announcing
  <1>4. \A q \in prevRS.seq + 1 .. chain[upd.f].tx : q < rg.seq /\ 0 < q
    BY <1>1, <1>2, <1>3
  <1>5. \A q \in prevRS.seq + 1 .. chain[upd.f].tx :
           reorgs = 0 \/ chain[prevRS.slot].tx < q => FinalHeld(chain, upd.f, made, q)
    BY <1>2, <1>3, <1>4 DEF Covers
  <1>6. QED
    BY <1>1, <1>5 DEF RebuildInv

\* A reorganisation leaves the blocks of a rebuild alone.
LEMMA RebuildOnChain ==
    ASSUME TypeOK, AscendInv, ChainOrder, TurnInv, RebuildInv, Chain
    PROVE  RebuildInv'
  <1>1. UNCHANGED <<pc, prevRS, upd, rg, made>>
    BY DEF Chain, handlerVars
  <1>2. /\ fin <= fin' /\ \A s \in FirstSlot .. fin : chain'[s] = chain[s]
        /\ reorgs' = 0 => reorgs = 0
    BY ChainNextOrder, CountsRise DEF Chain, TypeOK, Next
  <1>3. fin \in Nat /\ fin' \in Nat
    BY ChainNextType, SlotsAreNat DEF Chain, TypeOK, ChainTypeOK
  <1>4. CASE pc \notin {"rebuild", "storeRebuilt"}
    BY <1>1, <1>4 DEF RebuildInv
  <1>5. CASE pc \in {"rebuild", "storeRebuilt"}
    <2>1. /\ upd.f \in FirstSlot .. fin /\ prevRS.slot \in FirstSlot .. fin
          /\ chain[upd.f].tx \in Nat /\ chain[prevRS.slot].tx \in Nat /\ chain[FirstSlot].tx = 0
          /\ FirstSlot \in FirstSlot .. fin /\ prevRS.seq \in Nat
          /\ rg.fSlot \in Nat /\ upd.f \in Nat /\ prevRS.slot \in Nat
      BY <1>5, RebuildSlots, StatusNumbers DEF Announcing
    <2>2. /\ chain'[upd.f] = chain[upd.f] /\ chain'[prevRS.slot] = chain[prevRS.slot]
          /\ chain'[FirstSlot] = chain[FirstSlot] /\ FirstSlot <= upd.f
          /\ \A s \in FirstSlot .. upd.f : chain'[s] = chain[s]
      BY <1>2, <1>3, <2>1
    <2>3. \A p, q : FinalHeld(chain, upd.f, p, q) => FinalHeld(chain', upd.f, p, q)
      BY <2>1, <2>2, FinalHeldStays
    <2>4. \A p, n : \A slot \in {prevRS.slot, FirstSlot} :
             Covers(chain, p, prevRS.seq, slot, upd.f, n)
               => Covers(chain', p, prevRS.seq, slot, upd.f, n)
      BY <2>2, <2>3 DEF Covers
    <2>5. Reaches(chain, fin, rg, prevRS.slot, upd.f)
            => Reaches(chain', fin', rg, prevRS.slot, upd.f)
      <3>1. prevRS.slot <= prevRS.slot
        BY <2>1
      <3>2. QED
        BY <1>2, <1>3, <2>1, <3>1, ReachesStays, Zenon
    <2>6. CASE pc = "rebuild"
      BY <1>1, <1>2, <2>2, <2>4, <2>5, <2>6 DEF RebuildInv
    <2>7. CASE pc = "storeRebuilt"
      BY <1>1, <1>2, <2>2, <2>3, <2>7 DEF RebuildInv
    <2>8. QED
      BY <1>5, <2>6, <2>7
  <1>6. QED
    BY <1>4, <1>5

LEMMA NextRebuild ==
    ASSUME TypeOK, AscendInv, ChainOrder, TurnInv, RebuildInv, [Next]_vars
    PROVE  RebuildInv'
  <1>1. ASSUME pc' # "rebuild", pc' # "storeRebuilt", pc' # "validate" PROVE RebuildInv'
    BY <1>1 DEF RebuildInv
  <1>2. ASSUME UNCHANGED <<chain, fin, reorgs, pc, prevRS, upd, rg, made>> PROVE RebuildInv'
    BY <1>2 DEF RebuildInv
  <1>3. CASE Chain
    BY <1>3, RebuildOnChain
  <1>4. CASE Link
    <2>1. CASE Consume
      BY <1>1, <2>1 DEF Consume, Return
    <2>2. CASE RelayBlockUpdate \/ RefuseBlockUpdate \/ RelayMessageProof \/ Execute
      BY <1>2, <2>2 DEF RelayBlockUpdate, RefuseBlockUpdate, RelayMessageProof, Execute,
                        chainVars, handlerVars
    <2>3. QED
      BY <1>4, <2>1, <2>2 DEF Link
  <1>5. CASE Clear \/ LoadRss \/ StoreRss \/ ScanMps \/ LoadMps \/ StoreMps
    BY <1>2, <1>5 DEF Clear, LoadRss, StoreRss, ScanMps, LoadMps, StoreMps, chainVars, handlerVars
  <1>6. CASE RpcFails \/ ClearPanics \/ FaultPanics \/ Restart \/ RangePanics \/ RangeFails
    BY <1>1, <1>6 DEF RpcFails, ClearPanics, FaultPanics, Restart, RangePanics, RangeFails,
                      Panic, StartState, Return
  <1>7. CASE UNCHANGED vars
    BY <1>2, <1>7 DEF vars, chainVars, handlerVars
  <1>8. CASE \E h \in OptimisticUpdates : FirstUpdate(h) \/ LaterUpdate(h)
    <2>1. pc' \in {"undelivered", "header"}
      BY <1>8 DEF FirstUpdate, LaterUpdate
    <2>2. QED
      BY <1>1, <2>1
  <1>9. CASE StoreUndelivered \/ GatherFromHeader \/ StoreGathered
    <2>1. pc' \in {"header", "append", "idle"}
      BY <1>9 DEF StoreUndelivered, GatherFromHeader, StoreGathered, Return
    <2>2. QED
      BY <1>1, <2>1
  <1>10. CASE RangeStep \/ RangeMisses
    <2>1. pc' = pc /\ pc \in {"undelivered", "rebuild"}
      BY <1>10 DEF RangeStep, RangeMisses, Searching
    <2>2. QED
      BY <1>1, <1>10, <2>1, RebuildStep
  <1>11. CASE RangeDone
    <2>1. \/ pc = "undelivered" /\ pc' = "storeUndelivered"
          \/ pc = "rebuild"
      BY <1>11 DEF RangeDone, Searching
    <2>2. QED
      BY <1>1, <1>11, <2>1, RebuildEnds
  <1>12. ASSUME NEW a \in Attesting, FinalityUpdate(a) PROVE RebuildInv'
    <2>1. pc' = "validate" /\ upd' = [f |-> fin, a |-> a]
      BY <1>12 DEF FinalityUpdate
    <2>2. fin <= a
      BY ChainAssumption, FinalNumbers DEF Attesting
    <2>3. QED
      BY <2>1, <2>2 DEF RebuildInv
  <1>13. CASE Validate
    BY <1>13, RebuildBegins
  <1>14. CASE StoreRebuilt \/ MakeStatus \/ StoreStatus
    BY <1>1, <1>14 DEF StoreRebuilt, MakeStatus, StoreStatus
  <1>15. QED
    BY <1>3, <1>4, <1>5, <1>6, <1>7, <1>8, <1>9, <1>10, <1>11, <1>12, <1>13, <1>14
       DEF Next, Handler, ClearData

LEMMA RebuildAlways == Spec => [](StatusInv /\ RebuildInv)
  <1>1. Init => RebuildInv
    BY DEF Init, RebuildInv
  <1>2. StatusInv /\ RebuildInv /\ [Next]_vars => RebuildInv'
    BY NextRebuild DEF StatusInv
  <1>3. QED
    BY <1>1, <1>2, InitStatus, NextStatus, PTL DEF Spec

\* A rebuild that ends leaves a proof with the chain's own header for every message
\* after the last status up to the finalized slot, and when blocks above that slot
\* were reorganised during the search, with others in slots that were empty, for every
\* one after the last status's slot, also when clearData stored a slice of its own
\* (validateMessageProofDatas, messageProofDatasByRange), for every number of them.
THEOREM RebuildsCover == Spec => RebuildCovers
  <1>1. ASSUME StatusInv, RebuildInv, StoreRebuilt,
               NEW q \in prevRS.seq + 1 .. LastMsg(upd.f), Settled(q, prevRS.slot)
        PROVE  ProvableBy(mps', q)
    <2>1. /\ pc = "storeRebuilt" /\ mps' = IF made = <<>> THEN mps ELSE msnap \o made
          /\ UNCHANGED <<chain, head>>
      BY <1>1 DEF StoreRebuilt, chainVars
    <2>2. FinalHeld(chain, upd.f, made, q)
      BY <1>1, <2>1 DEF RebuildInv, LastMsg, Settled
    <2>3. made \in Seq(MsgProof) /\ msnap \in Seq(MsgProof) /\ TypeOK /\ ChainOrder
      BY <1>1 DEF StatusInv, TypeOK, HandlerOK
    <2>4. made # <<>>
      BY <2>2 DEF FinalHeld
    <2>5. upd.f \in FirstSlot .. head
      BY <1>1, <2>1, RebuildSlots DEF StatusInv, Announcing
    <2>6. QED
      BY <2>1, <2>2, <2>3, <2>4, <2>5, HeldIsProvable, ProvableAppended
  <1>2. StatusInv /\ RebuildInv =>
          [StoreRebuilt =>
             \A q \in prevRS.seq + 1 .. LastMsg(upd.f) :
                Settled(q, prevRS.slot) => ProvableBy(mps', q)]_vars
    BY <1>1
  <1>3. QED
    BY <1>2, RebuildAlways, PTL DEF RebuildCovers

------------------------------------------------------------------------------
(* The search of the first update *)

\* As long as clearData has not run the link is never above the last status it can
\* relay, so no block update is refused and the link does not fall back.
FallInv ==
    /\ gpc = "idle"
    /\ rss # <<>> => bls.height <= rss[Len(rss)].slot
    /\ pc = "storeStatus" => rsnap = rss
    /\ Announcing => bls.height <= lastFU

\* A step that leaves rss alone and does not begin to announce keeps the link at or
\* below the statuses.
LEMMA FallMoves ==
    ASSUME FallInv, rss' = rss, gpc' = "idle", bls'.height = bls.height,
           pc' = "storeStatus" => pc = "storeStatus" /\ rsnap' = rsnap,
           Announcing' => Announcing /\ lastFU' = lastFU
    PROVE  FallInv'
  BY DEF FallInv

LEMMA StartFall == \A st : StartState(st) => FallInv'
  BY DEF StartState, FallInv, Announcing

LEMMA HandlerFall ==
    ASSUME TypeOK, AscendInv, LinkInv, FallInv, Handler
    PROVE  FallInv'
  <1>0. gpc = "idle"
    BY DEF FallInv
  <1>1. ASSUME NEW h \in OptimisticUpdates, FirstUpdate(h) \/ LaterUpdate(h) PROVE FallInv'
    <2>1. UNCHANGED <<rss, gpc, bls>> /\ pc' \in {"undelivered", "header"}
      BY <1>1 DEF FirstUpdate, LaterUpdate, clearVars, linkVars
    <2>2. QED
      BY <1>0, <2>1, FallMoves DEF Announcing
  <1>2. CASE StoreUndelivered \/ GatherFromHeader \/ StoreGathered \/ RangeFails
    <2>1. UNCHANGED <<rss, gpc, bls>> /\ pc' \in {"header", "append", "idle"}
      BY <1>2 DEF StoreUndelivered, GatherFromHeader, StoreGathered, RangeFails, Return,
                  clearVars, linkVars
    <2>2. QED
      BY <1>0, <2>1, FallMoves DEF Announcing
  <1>3. CASE RangeStep \/ RangeMisses \/ RangeDone
    <2>1. UNCHANGED <<rss, gpc, bls, lastFU>>
      BY <1>3 DEF RangeStep, RangeMisses, RangeDone, clearVars, linkVars
    <2>2. pc' # "storeStatus" /\ (Announcing' => Announcing)
      BY <1>3 DEF RangeStep, RangeMisses, RangeDone, Searching, Announcing
    <2>3. QED
      BY <1>0, <2>1, <2>2, FallMoves
  <1>4. CASE RangePanics
    BY <1>4, StartFall DEF RangePanics, Panic
  <1>5. CASE \E a \in Attesting : FinalityUpdate(a)
    <2>1. lastFU' = fin /\ pc' = "validate" /\ UNCHANGED <<rss, gpc, bls>>
      BY <1>5 DEF FinalityUpdate, clearVars, linkVars
    <2>2. QED
      BY <1>0, <2>1 DEF FallInv, LinkInv
  <1>6. CASE Validate \/ StoreRebuilt
    <2>1. UNCHANGED <<rss, gpc, bls, lastFU>>
      BY <1>6 DEF Validate, StoreRebuilt, clearVars, linkVars
    <2>2. pc' \in {"announce", "rebuild"} /\ pc \in {"validate", "storeRebuilt"}
      BY <1>6 DEF Validate, StoreRebuilt
    <2>3. QED
      BY <1>0, <2>1, <2>2, FallMoves DEF Announcing
  <1>7. CASE MakeStatus
    <2>1. /\ pc = "announce" /\ pc' = "storeStatus" /\ rsnap' = rss
          /\ UNCHANGED <<rss, gpc, bls, lastFU>>
      BY <1>7 DEF MakeStatus, clearVars, linkVars
    <2>2. QED
      BY <2>1 DEF FallInv, Announcing
  <1>8. CASE StoreStatus
    <2>1. /\ pc = "storeStatus" /\ pc' = "send" /\ rss' = Append(rsnap, rs)
          /\ UNCHANGED <<gpc, bls>>
      BY <1>8 DEF StoreStatus, clearVars, linkVars
    <2>2. rss'[Len(rss')] = rs
      BY <2>1, AppendElements DEF TypeOK, HandlerOK
    <2>3. rs.slot = lastFU /\ bls.height <= lastFU
      BY <2>1 DEF AscendInv, FallInv, Announcing
    <2>4. QED
      BY <1>0, <2>1, <2>2, <2>3 DEF FallInv, Announcing
  <1>9. QED
    BY <1>1, <1>2, <1>3, <1>4, <1>5, <1>6, <1>7, <1>8 DEF Handler

\* Without clearData the link stays at or below the statuses, and unless the relay
\* starts again it does not fall back.
LEMMA NextFall ==
    ASSUME TypeOK, AscendInv, ChainOrder, LinkInv, clears' = 0, FallInv, [Next]_vars
    PROVE  /\ FallInv'
           /\ pc' # "idle" => bls.rx <= bls'.rx /\ bls.height <= bls'.height /\ extra' = extra
  <1>0. gpc = "idle" /\ bls.rx \in Nat /\ bls.height \in Nat
    BY FinalNumbers DEF FallInv
  <1>1. CASE Handler
    <2>1. FallInv'
      BY <1>1, HandlerFall
    <2>2. pc' = "idle" \/ UNCHANGED <<bls, extra>>
      BY <1>1 DEF Handler, FirstUpdate, LaterUpdate, StoreUndelivered, GatherFromHeader,
                  StoreGathered, RangeStep, RangeMisses, RangeFails, RangePanics, RangeDone,
                  FinalityUpdate, Validate, StoreRebuilt, MakeStatus, StoreStatus, Panic,
                  StartState, linkVars
    <2>3. QED
      BY <1>0, <2>1, <2>2
  <1>2. CASE Chain
    <2>1. UNCHANGED <<rss, gpc, bls, pc, rsnap, lastFU, extra>>
      BY <1>2 DEF Chain, linkVars, handlerVars, clearVars
    <2>2. QED
      BY <1>0, <2>1, FallMoves DEF Announcing
  <1>3. CASE Consume \/ RpcFails
    <2>1. UNCHANGED <<rss, gpc, bls>> /\ pc' = "idle"
      BY <1>3 DEF Consume, RpcFails, Return, linkVars, clearVars
    <2>2. QED
      BY <1>0, <2>1, FallMoves DEF Announcing
  <1>4. CASE RelayBlockUpdate
    <2>1. /\ rss # <<>> /\ bls' = [bls EXCEPT !.height = rss[Len(rss)].slot]
          /\ UNCHANGED <<rss, gpc, pc, rsnap, lastFU, extra>>
          /\ bls.height < rss[Len(rss)].slot
      BY <1>4 DEF RelayBlockUpdate, handlerVars, clearVars
    <2>2. bls'.height = rss[Len(rss)].slot /\ bls'.rx = bls.rx
      BY <2>1 DEF TypeOK, LinkStatus
    <2>3. Len(rss) \in DOMAIN rss
      BY <2>1, EmptySeq, LenProperties DEF TypeOK, GatheredOK
    <2>4. rss[Len(rss)].slot <= lastFU /\ rss[Len(rss)].slot \in Nat
      BY <2>3, SlotNumbers DEF AscendInv, Ascends, Bound
    <2>5. bls.rx <= bls'.rx /\ bls.height <= bls'.height
      BY <1>0, <2>1, <2>2, <2>4
    <2>6. QED
      BY <1>0, <2>1, <2>2, <2>4, <2>5, SlotNumbers DEF FallInv, Announcing
  <1>5. CASE RefuseBlockUpdate
    <2>1. rss # <<>> /\ bls.height > rss[Len(rss)].slot
      BY <1>5 DEF RefuseBlockUpdate
    <2>2. rss[Len(rss)].slot \in Nat /\ bls.height \in Nat
      <3>1. Len(rss) \in DOMAIN rss
        BY <2>1, EmptySeq, LenProperties DEF TypeOK, GatheredOK
      <3>2. QED
        BY <3>1, SlotNumbers, FinalNumbers
    <2>3. FALSE
      BY <2>1, <2>2 DEF FallInv
    <2>4. QED
      BY <2>3
  <1>6. CASE RelayMessageProof
    <2>1. PICK i \in ProofsFor(bls.rx + 1) :
             bls' = [bls EXCEPT !.rx = mps[i].to, !.last = mps[i].slot]
      BY <1>6 DEF RelayMessageProof
    <2>2. bls'.rx = mps[i].to /\ bls'.height = bls.height
      BY <2>1 DEF TypeOK, LinkStatus
    <2>3. i \in DOMAIN mps /\ Holds(mps[i], bls.rx + 1)
      BY <2>1 DEF ProofsFor
    <2>4. mps[i].to \in Nat
      BY <2>3, MsgProofFields, ChainAssumption DEF TypeOK, GatheredOK, Seqs
    <2>5. bls.rx <= bls'.rx /\ bls.height <= bls'.height
      BY <1>0, <2>2, <2>3, <2>4 DEF Holds
    <2>6. UNCHANGED <<rss, gpc, pc, rsnap, lastFU, extra>>
      BY <1>6 DEF RelayMessageProof, handlerVars, clearVars
    <2>7. QED
      BY <1>0, <2>2, <2>5, <2>6, FallMoves DEF Announcing
  <1>7. CASE Execute \/ UNCHANGED vars
    <2>1. UNCHANGED <<rss, gpc, bls, pc, rsnap, lastFU, extra>>
      BY <1>7 DEF Execute, vars, linkVars, handlerVars, clearVars
    <2>2. QED
      BY <1>0, <2>1, FallMoves DEF Announcing
  <1>8. CASE FaultPanics \/ Restart
    BY <1>8, StartFall DEF FaultPanics, Restart, StartState
  <1>9. CASE ClearData
    <2>1. Clear
      BY <1>0, <1>9 DEF ClearData, LoadRss, StoreRss, ScanMps, LoadMps, StoreMps, ClearPanics
    <2>2. clears' = clears + 1 /\ clears \in Nat
      BY <2>1, ReceiverAssumption DEF Clear, TypeOK, BudgetsOK
    <2>3. QED
      BY <2>2
  <1>10. QED
    BY <1>1, <1>2, <1>3, <1>4, <1>5, <1>6, <1>7, <1>8, <1>9 DEF Next, Link

\* The slot up to which the search of the first update finds final messages.
LastSettled == IF upd.f < hdr.slot THEN upd.f ELSE hdr.slot - 1

\* The last message was received with a block update verified before, and a header
\* being handled is not above the newest slot, orphaned or not.
LastInv ==
    /\ extra <= fin /\ bls.last <= bls.height /\ dst.last <= dst.height
    /\ \A h \in orphans : h.slot <= head

\* The search goes up to the slot before the header.  It looks for every message up to
\* there, and, when blocks are orphaned meanwhile, for those that were final.
FirstSearch ==
    /\ pc \in {"undelivered", "storeUndelivered"} =>
          hdr.slot - 1 \in FirstSlot .. head - 1 /\ upd.f \in FirstSlot .. fin
    /\ pc = "undelivered" =>
          /\ rg.toSlot = hdr.slot - 1
          /\ chain[LastSettled].tx <= rg.toSeq
          /\ reorgs = 0 => chain[hdr.slot - 1].tx <= rg.toSeq

\* It has found those the link lacks up to where it is.
FirstFinds ==
    /\ pc = "undelivered" =>
          /\ Reaches(chain, fin, rg, SearchedAfter, LastSettled)
          /\ Covers(chain, made, bls.rx, SearchedAfter, LastSettled, rg.seq)
          /\ reorgs = 0 => Covers(chain, made, bls.rx, FirstSlot, hdr.slot - 1, rg.seq)
    /\ pc = "storeUndelivered" =>
          /\ \A q \in bls.rx + 1 .. chain[LastSettled].tx :
                chain[SearchedAfter].tx < q => FinalHeld(chain, LastSettled, made, q)
          /\ reorgs = 0 =>
                \A q \in bls.rx + 1 .. chain[hdr.slot - 1].tx :
                   FinalHeld(chain, hdr.slot - 1, made, q)

FirstInv == LastInv /\ FirstSearch /\ (clears = 0 => FallInv /\ FirstFinds)

\* Slots of the search as slots of the chain.
LEMMA FirstSlots ==
    ASSUME TypeOK, ChainOrder, LinkInv, LastInv
    PROVE  /\ SearchedAfter \in FirstSlot .. fin /\ SearchedAfter \in FirstSlot .. head
           /\ SearchedAfter \in Nat /\ chain[SearchedAfter].tx \in Nat
           /\ FirstSlot \in FirstSlot .. head /\ FirstSlot \in FirstSlot .. fin
           /\ FirstSlot \in Nat /\ chain[FirstSlot].tx = 0
           /\ bls.rx \in Nat /\ bls.height \in Nat /\ fin \in Nat /\ head \in Nat
           /\ rg.seq \in Nat /\ rg.toSeq \in Nat /\ rg.fSlot \in Nat
           /\ pc \in {"undelivered", "storeUndelivered"} /\ FirstSearch =>
                 /\ LastSettled \in FirstSlot .. fin /\ LastSettled \in FirstSlot .. head
                 /\ LastSettled <= hdr.slot - 1 /\ LastSettled \in Nat
                 /\ hdr.slot - 1 \in FirstSlot .. head /\ hdr.slot - 1 \in Nat
                 /\ chain[LastSettled].tx \in Nat /\ chain[hdr.slot - 1].tx \in Nat
  <1>1. extra \in Slots \cup {0} /\ bls.height \in FirstSlot .. fin
    BY FinalNumbers DEF TypeOK, GatheredOK, LinkInv
  <1>2. extra # 0 => extra \in FirstSlot .. fin
    BY <1>1, FinalNumbers DEF LastInv, Slots
  <1>3. SearchedAfter \in FirstSlot .. fin
    BY <1>1, <1>2 DEF SearchedAfter
  <1>4. SearchedAfter \in FirstSlot .. head /\ SearchedAfter \in Nat
    BY <1>3, FinalNumbers
  <1>5. rg.seq \in Nat /\ rg.toSeq \in Nat /\ rg.fSlot \in Nat
    BY ChainAssumption DEF TypeOK, HandlerOK, Search, Seqs
  <1>6. FirstSlot \in FirstSlot .. head /\ FirstSlot \in FirstSlot .. fin
    BY FinalNumbers
  <1>7. ASSUME pc \in {"undelivered", "storeUndelivered"}, FirstSearch
        PROVE  /\ LastSettled \in FirstSlot .. fin /\ LastSettled \in FirstSlot .. head
               /\ LastSettled <= hdr.slot - 1 /\ LastSettled \in Nat
               /\ hdr.slot - 1 \in FirstSlot .. head /\ hdr.slot - 1 \in Nat
    <2>1. /\ hdr.slot - 1 \in FirstSlot .. head - 1 /\ upd.f \in FirstSlot .. fin
          /\ upd.f \in Nat
      BY <1>7, StatusNumbers DEF FirstSearch
    <2>2. hdr.slot \in Nat
      BY ChainAssumption DEF TypeOK, HandlerOK, Header, Slots
    <2>3. QED
      BY <2>1, <2>2, FinalNumbers DEF LastSettled
  <1>8. QED
    BY <1>1, <1>3, <1>4, <1>5, <1>6, <1>7, FinalNumbers, SlotMessages DEF ChainOrder

\* Orphaned headers are not above the newest slot.
LEMMA OrphansBelow ==
    ASSUME ChainTypeOK, ChainOrder, ChainNext, \A h \in orphans : h.slot <= head
    PROVE  \A h \in orphans' : h.slot <= head'
  <1>1. head <= head' /\ head' \in Nat /\ head \in Nat /\ \A h \in Header : h.slot \in Nat
    BY ChainNextOrder, ChainNextType, ChainAssumption DEF ChainTypeOK, Slots, Header
  <1>2. CASE UNCHANGED orphans
    BY <1>1, <1>2 DEF ChainTypeOK
  <1>3. ASSUME NEW from \in Slots, Reorg(from) PROVE \A h \in orphans' : h.slot <= head'
    <2>1. head' = head /\ orphans' = orphans \cup HeadersIn(from .. head) /\ from \in Nat
      BY <1>3, ReorgIs
    <2>2. \A h \in HeadersIn(from .. head) : h.slot <= head
      BY <1>1, <2>1 DEF HeadersIn, HeaderAt
    <2>3. QED
      BY <2>1, <2>2
  <1>4. QED
    BY <1>2, <1>3 DEF ChainNext, NewBlock, MissSlot, Finalize

\* A step keeps it so.
LEMMA NextLast ==
    ASSUME TypeOK, ChainOrder, LinkInv, LastInv, TypeOK', [Next]_vars
    PROVE  LastInv'
  <1>0. /\ extra \in Nat /\ bls.last \in Nat /\ bls.height \in Nat
        /\ dst.last \in Nat /\ dst.height \in Nat /\ fin \in Nat /\ head \in Nat
        /\ dst.height <= fin
    <2>1. extra \in Slots \/ extra = 0
      BY DEF TypeOK, GatheredOK
    <2>2. bls.last \in Slots /\ dst.last \in Slots
      BY DEF TypeOK, LinkStatus
    <2>3. dst.height <= fin
      BY FinalNumbers DEF LinkInv
    <2>4. QED
      BY <2>1, <2>2, <2>3, ChainAssumption, FinalNumbers DEF Slots
  <1>1. ASSUME UNCHANGED <<fin, head, orphans, dst>>, bls' \in {bls, dst},
               extra' \in {extra, 0, dst.last}
        PROVE  LastInv'
    BY <1>0, <1>1 DEF LastInv
  <1>2. ASSUME StartState(dst) PROVE extra' \in {extra, 0, dst.last}
    BY <1>2 DEF StartState
  <1>3. CASE Handler
    <2>1. extra' = extra \/ StartState(dst)
      BY <1>3 DEF Handler, FirstUpdate, LaterUpdate, StoreUndelivered, GatherFromHeader,
                  StoreGathered, RangeStep, RangeMisses, RangeFails, RangePanics, RangeDone,
                  FinalityUpdate, Validate, StoreRebuilt, MakeStatus, StoreStatus, Panic
    <2>2. QED
      BY <1>1, <1>2, <1>3, <2>1, OtherSteps
  <1>4. CASE ClearData \/ Consume \/ RpcFails \/ FaultPanics \/ Restart
    <2>1. extra' = extra \/ StartState(dst)
      BY <1>4 DEF ClearData, Clear, LoadRss, StoreRss, ScanMps, LoadMps, StoreMps, ClearPanics,
                  Panic, Consume, RpcFails, FaultPanics, Restart
    <2>2. QED
      BY <1>1, <1>2, <1>4, <2>1, OtherSteps
  <1>5. CASE Chain
    <2>1. UNCHANGED <<extra, bls, dst>>
      BY <1>5 DEF Chain, linkVars
    <2>2. fin <= fin' /\ fin' \in Nat
      BY <1>5, ChainNextType, SlotsAreNat DEF Chain, TypeOK, ChainTypeOK
    <2>3. \A h \in orphans' : h.slot <= head'
      BY <1>5, OrphansBelow DEF Chain, TypeOK, LastInv
    <2>4. QED
      BY <1>0, <2>1, <2>2, <2>3 DEF LastInv
  <1>6. CASE RelayBlockUpdate
    <2>1. /\ bls' = [bls EXCEPT !.height = rss[Len(rss)].slot]
          /\ bls.height < rss[Len(rss)].slot
          /\ UNCHANGED <<extra, dst, fin, head, orphans>>
      BY <1>6 DEF RelayBlockUpdate, chainVars
    <2>2. bls'.height = rss[Len(rss)].slot /\ bls'.last = bls.last /\ bls'.height \in Nat
      BY <2>1, ChainAssumption DEF TypeOK, LinkStatus, Slots
    <2>3. bls.last <= bls'.height
      BY <1>0, <2>1, <2>2 DEF LastInv
    <2>4. QED
      BY <2>1, <2>2, <2>3 DEF LastInv
  <1>7. CASE RelayMessageProof
    <2>1. PICK i \in ProofsFor(bls.rx + 1) :
             /\ mps[i].slot <= bls.height
             /\ bls' = [bls EXCEPT !.rx = mps[i].to, !.last = mps[i].slot]
      BY <1>7 DEF RelayMessageProof
    <2>2. bls'.height = bls.height /\ bls'.last = mps[i].slot
      BY <2>1 DEF TypeOK, LinkStatus
    <2>3. UNCHANGED <<extra, dst, fin, head, orphans>>
      BY <1>7 DEF RelayMessageProof, chainVars
    <2>4. QED
      BY <2>1, <2>2, <2>3 DEF LastInv
  <1>8. CASE RefuseBlockUpdate \/ Execute \/ UNCHANGED vars
    <2>1. /\ UNCHANGED <<extra, fin, head, orphans>>
          /\ bls' \in {bls, dst} /\ dst' \in {bls, dst}
      BY <1>8 DEF RefuseBlockUpdate, Execute, vars, chainVars, linkVars
    <2>2. QED
      BY <2>1 DEF LastInv
  <1>9. QED
    BY <1>3, <1>4, <1>5, <1>6, <1>7, <1>8 DEF Next, Link

\* A step that goes on with the search where it is, or is not searching any more.
LEMMA FirstMoves ==
    ASSUME TypeOK, TypeOK', ChainOrder, LinkInv, LinkInv', FirstInv, LastInv',
           UNCHANGED <<chain, head, fin, reorgs>>,
           clears' = 0 => /\ clears = 0 /\ FallInv'
                          /\ pc' # "idle" => /\ bls.rx <= bls'.rx /\ bls.height <= bls'.height
                                             /\ extra' = extra,
           pc' \in {"undelivered", "storeUndelivered"} =>
              pc' = pc /\ UNCHANGED <<hdr, upd, rg, made>>
    PROVE  FirstInv'
  <1>1. FirstSearch'
    BY DEF FirstInv, FirstSearch, LastSettled
  <1>2. ASSUME clears' = 0, pc' \in {"undelivered", "storeUndelivered"}
        PROVE  FirstFinds'
    <2>1. /\ pc' = pc /\ UNCHANGED <<hdr, upd, rg, made>> /\ pc' # "idle"
          /\ bls.rx <= bls'.rx /\ bls.height <= bls'.height /\ extra' = extra
          /\ FirstFinds /\ FirstSearch /\ LastInv
      BY <1>2 DEF FirstInv
    <2>2. LastSettled' = LastSettled
      BY <2>1 DEF LastSettled
    <2> DEFINE low == SearchedAfter'
    <2>3. low \in FirstSlot .. head /\ low \in Nat /\ SearchedAfter <= low /\ bls'.rx \in Nat
      <3>1. bls'.height \in FirstSlot .. fin /\ bls'.rx \in Nat
        BY ChainAssumption DEF TypeOK, LinkInv, LinkStatus, Slots, Seqs
      <3>2. bls'.height \in FirstSlot .. head /\ bls'.height \in Nat
        BY <3>1, FinalNumbers
      <3>3. low = SearchedAfter \/ (low = bls'.height /\ SearchedAfter = bls.height)
        BY <2>1 DEF SearchedAfter
      <3>4. SearchedAfter \in FirstSlot .. head /\ SearchedAfter \in Nat
        BY <2>1, FirstSlots
      <3>5. QED
        BY <2>1, <3>1, <3>2, <3>3, <3>4
    <2> HIDE DEF low
    <2>4. /\ SearchedAfter \in FirstSlot .. head /\ SearchedAfter \in Nat
          /\ chain[SearchedAfter].tx \in Nat /\ chain[FirstSlot].tx = 0 /\ bls.rx \in Nat
          /\ LastSettled \in Nat /\ FirstSlot <= LastSettled /\ chain[LastSettled].tx \in Nat
          /\ hdr.slot - 1 \in Nat /\ FirstSlot <= hdr.slot - 1 /\ chain[hdr.slot - 1].tx \in Nat
      BY <1>2, <2>1, FirstSlots
    <2>5. chain[SearchedAfter].tx <= chain[low].tx /\ chain[low].tx \in Nat
      BY <2>3, <2>4, FinalNumbers, SlotMessages DEF LastMsg
    <2>6. CASE pc = "undelivered"
      <3>1. /\ Reaches(chain, fin, rg, SearchedAfter, LastSettled)
            /\ Covers(chain, made, bls.rx, SearchedAfter, LastSettled, rg.seq)
            /\ reorgs = 0 => Covers(chain, made, bls.rx, FirstSlot, hdr.slot - 1, rg.seq)
        BY <2>1, <2>6 DEF FirstFinds
      <3>2. Reaches(chain, fin, rg, low, LastSettled)
        <4>1. rg.fSlot \in Nat
          BY DEF TypeOK, HandlerOK, Search
        <4>2. QED
          BY <2>3, <2>4, <3>1, <4>1 DEF Reaches
      <3>3. Covers(chain, made, bls'.rx, low, LastSettled, rg.seq)
        BY <2>1, <2>3, <2>4, <2>5, <3>1 DEF Covers
      <3>4. reorgs = 0 => Covers(chain, made, bls'.rx, FirstSlot, hdr.slot - 1, rg.seq)
        BY <2>1, <2>3, <2>4, <3>1 DEF Covers
      <3>5. pc' = "undelivered"
        BY <2>1, <2>6
      <3>6. QED
        BY <2>1, <2>2, <3>2, <3>3, <3>4, <3>5 DEF FirstFinds, low
    <2>7. CASE pc = "storeUndelivered"
      <3>1. /\ \A q \in bls.rx + 1 .. chain[LastSettled].tx :
                  chain[SearchedAfter].tx < q => FinalHeld(chain, LastSettled, made, q)
            /\ reorgs = 0 =>
                  \A q \in bls.rx + 1 .. chain[hdr.slot - 1].tx :
                     FinalHeld(chain, hdr.slot - 1, made, q)
        BY <2>1, <2>7 DEF FirstFinds
      <3>2. \A q \in bls'.rx + 1 .. chain[LastSettled].tx :
               chain[low].tx < q => FinalHeld(chain, LastSettled, made, q)
        BY <2>1, <2>3, <2>4, <2>5, <3>1
      <3>3. reorgs = 0 =>
               \A q \in bls'.rx + 1 .. chain[hdr.slot - 1].tx :
                  FinalHeld(chain, hdr.slot - 1, made, q)
        BY <2>1, <2>3, <2>4, <3>1
      <3>4. pc' = "storeUndelivered"
        BY <2>1, <2>7
      <3>5. QED
        BY <2>1, <2>2, <3>2, <3>3, <3>4 DEF FirstFinds, low
    <2>8. QED
      BY <1>2, <2>1, <2>6, <2>7
  <1>3. ASSUME clears' = 0 PROVE FallInv' /\ FirstFinds'
    <2>1. pc' \notin {"undelivered", "storeUndelivered"} => FirstFinds'
      BY DEF FirstFinds
    <2>2. QED
      BY <1>2, <1>3, <2>1
  <1>4. QED
    BY <1>1, <1>3 DEF FirstInv

\* The search begins after the last message received and looks for every one sent.
LEMMA FirstBegins ==
    ASSUME TypeOK, ChainOrder, LinkInv, FirstInv, LastInv', clears' = 0 => FallInv',
           NEW h \in OptimisticUpdates, FirstUpdate(h)
    PROVE  FirstInv'
  <1>1. /\ UNCHANGED <<chain, head, fin, reorgs, bls, extra, made>> /\ hdr' = h
        /\ \/ pc' = "header"
           \/ pc' = "undelivered" /\ rg' = RangeSearch(SearchedAfter + 1, bls.rx + 1,
                                                       h.slot - 1, TxSeq)
    BY DEF FirstUpdate, chainVars, linkVars
  <1>2. upd'.f = fin
    BY DEF FirstUpdate, TypeOK, HandlerOK, Update
  <1>3. h.slot > att /\ (h \in HeadersIn(FirstSlot .. head) \/ h \in orphans)
    BY DEF OptimisticUpdates
  <1>4. h.slot \in Nat /\ att \in Nat /\ FirstSlot <= att
    <2>1. h \in Header
      BY <1>3, HeadersInType DEF TypeOK, ChainTypeOK
    <2>2. h.slot \in Slots /\ att \in Slots
      BY <2>1 DEF Header, TypeOK, GatheredOK
    <2>3. QED
      BY <2>2, ChainAssumption DEF Slots
  <1>5. h.slot <= head
    BY <1>3 DEF FirstInv, LastInv, HeadersIn, HeaderAt
  <1>6. /\ h.slot - 1 \in FirstSlot .. head - 1 /\ h.slot - 1 \in FirstSlot .. head
        /\ h.slot - 1 \in Nat
    BY <1>3, <1>4, <1>5, FinalNumbers
  <1> DEFINE last == LastSettled'
  <1>7. last \in FirstSlot .. head
    <2>1. last = fin \/ last = h.slot - 1
      BY <1>1, <1>2 DEF LastSettled
    <2>2. QED
      BY <1>6, <2>1, FinalNumbers
  <1> HIDE DEF last
  <1>8. chain[h.slot - 1].tx <= TxSeq /\ chain[last].tx <= TxSeq
    BY <1>6, <1>7, FinalNumbers DEF LastMsg, TxSeq
  <1>9. CASE pc' = "header"
    BY <1>9 DEF FirstInv, FirstSearch, FirstFinds
  <1>10. CASE pc' = "undelivered" /\ rg' = RangeSearch(SearchedAfter + 1, bls.rx + 1,
                                                       h.slot - 1, TxSeq)
    <2>1. /\ rg'.seq = bls.rx + 1 /\ rg'.fSlot = SearchedAfter + 1
          /\ rg'.toSlot = h.slot - 1 /\ rg'.toSeq = TxSeq
      BY <1>10 DEF RangeSearch
    <2>2. FirstSearch'
      <3>1. hdr'.slot - 1 \in FirstSlot .. head' - 1 /\ upd'.f \in FirstSlot .. fin'
        BY <1>1, <1>2, <1>6, FinalNumbers
      <3>2. /\ rg'.toSlot = hdr'.slot - 1 /\ chain'[last].tx <= rg'.toSeq
            /\ chain'[hdr'.slot - 1].tx <= rg'.toSeq
        BY <1>1, <1>8, <2>1
      <3>3. QED
        BY <3>1, <3>2 DEF FirstSearch, last
    <2>3. \A slot, f : Covers(chain, made, bls.rx, slot, f, bls.rx + 1)
      BY FinalNumbers DEF Covers
    <2>4. SearchedAfter' = SearchedAfter /\ SearchedAfter \in Nat
      BY <1>1, FirstSlots DEF SearchedAfter, FirstInv
    <2>5. \A f : Reaches(chain, fin, rg', SearchedAfter, f)
      BY <2>1, <2>4 DEF Reaches
    <2>6. pc' = "undelivered"
      BY <1>10
    <2>7. FirstFinds'
      BY <1>1, <2>1, <2>3, <2>4, <2>5, <2>6 DEF FirstFinds
    <2>8. QED
      BY <2>2, <2>7 DEF FirstInv
  <1>11. QED
    BY <1>1, <1>9, <1>10

LEMMA FirstStep ==
    ASSUME TypeOK, ChainOrder, LinkInv, FirstInv, LastInv', clears' = 0 => clears = 0 /\ FallInv',
           pc = "undelivered", RangeStep \/ RangeMisses
    PROVE  FirstInv'
  <1>1. UNCHANGED <<chain, head, fin, reorgs, bls, extra, hdr, upd, pc>>
    BY DEF RangeStep, RangeMisses, chainVars, linkVars
  <1>2. rg'.toSeq = rg.toSeq /\ rg'.toSlot = rg.toSlot
    BY SearchMoves, Zenon
  <1>3. LastSettled' = LastSettled /\ SearchedAfter' = SearchedAfter
    BY <1>1 DEF LastSettled, SearchedAfter
  <1>4. FirstSearch'
    BY <1>1, <1>2, <1>3 DEF FirstInv, FirstSearch
  <1>5. /\ SearchedAfter \in FirstSlot .. head /\ FirstSlot \in FirstSlot .. head
        /\ LastSettled \in FirstSlot .. fin /\ LastSettled \in FirstSlot .. head
        /\ LastSettled <= rg.toSlot /\ hdr.slot - 1 \in FirstSlot .. head /\ bls.rx \in Nat
    BY FirstSlots DEF FirstInv, FirstSearch
  <1>6. Reaches(chain, fin, rg', SearchedAfter, LastSettled)
    BY <1>5, SearchReaches
  <1>7. ASSUME clears = 0
        PROVE  /\ Covers(chain, made', bls.rx, SearchedAfter, LastSettled, rg'.seq)
               /\ reorgs = 0 => Covers(chain, made', bls.rx, FirstSlot, hdr.slot - 1, rg'.seq)
    <2>1. /\ Reaches(chain, fin, rg, SearchedAfter, LastSettled)
          /\ Covers(chain, made, bls.rx, SearchedAfter, LastSettled, rg.seq)
          /\ reorgs = 0 => Covers(chain, made, bls.rx, FirstSlot, hdr.slot - 1, rg.seq)
      BY <1>7 DEF FirstInv, FirstFinds
    <2>2. Covers(chain, made', bls.rx, SearchedAfter, LastSettled, rg'.seq)
      BY <1>5, <2>1, SearchCovers
    <2>3. reorgs = 0 => Covers(chain, made', bls.rx, FirstSlot, hdr.slot - 1, rg'.seq)
      BY <1>5, <2>1, SearchCovers
    <2>4. QED
      BY <2>2, <2>3
  <1>8. clears' = 0 => FirstFinds'
    BY <1>1, <1>3, <1>6, <1>7 DEF FirstFinds
  <1>9. QED
    BY <1>4, <1>8 DEF FirstInv

\* The search ends after every message it looked for.
LEMMA FirstEnds ==
    ASSUME TypeOK, ChainOrder, LinkInv, FirstInv, LastInv', clears' = 0 => clears = 0 /\ FallInv',
           pc = "undelivered", RangeDone
    PROVE  FirstInv'
  <1>1. /\ pc' = "storeUndelivered" /\ rg.seq > rg.toSeq
        /\ UNCHANGED <<chain, head, fin, reorgs, bls, extra, hdr, upd, made>>
    BY DEF RangeDone, SearchDone, chainVars, linkVars
  <1>2. LastSettled' = LastSettled /\ SearchedAfter' = SearchedAfter
    BY <1>1 DEF LastSettled, SearchedAfter
  <1>3. FirstSearch'
    BY <1>1, <1>2 DEF FirstInv, FirstSearch
  <1>4. /\ chain[LastSettled].tx \in Nat /\ chain[hdr.slot - 1].tx \in Nat
        /\ rg.seq \in Nat /\ rg.toSeq \in Nat /\ bls.rx \in Nat /\ chain[FirstSlot].tx = 0
    BY FirstSlots DEF FirstInv
  <1>5. /\ chain[LastSettled].tx <= rg.toSeq
        /\ reorgs = 0 => chain[hdr.slot - 1].tx <= rg.toSeq
    BY DEF FirstInv, FirstSearch
  <1>6. /\ \A q \in bls.rx + 1 .. chain[LastSettled].tx : q < rg.seq
        /\ reorgs = 0 => \A q \in bls.rx + 1 .. chain[hdr.slot - 1].tx : q < rg.seq /\ 0 < q
    BY <1>1, <1>4, <1>5
  <1>7. ASSUME clears = 0
        PROVE  /\ \A q \in bls.rx + 1 .. chain[LastSettled].tx :
                     chain[SearchedAfter].tx < q => FinalHeld(chain, LastSettled, made, q)
               /\ reorgs = 0 =>
                     \A q \in bls.rx + 1 .. chain[hdr.slot - 1].tx :
                        FinalHeld(chain, hdr.slot - 1, made, q)
    <2>1. /\ Covers(chain, made, bls.rx, SearchedAfter, LastSettled, rg.seq)
          /\ reorgs = 0 => Covers(chain, made, bls.rx, FirstSlot, hdr.slot - 1, rg.seq)
      BY <1>7 DEF FirstInv, FirstFinds
    <2>2. QED
      BY <1>4, <1>6, <2>1 DEF Covers
  <1>8. clears' = 0 => FirstFinds'
    BY <1>1, <1>2, <1>7 DEF FirstFinds
  <1>9. QED
    BY <1>3, <1>8 DEF FirstInv

\* Blocks up to the finalized slot stay, and all of them as long as none is orphaned.
LEMMA FirstOnChain ==
    ASSUME TypeOK, TypeOK', ChainOrder, LinkInv, FirstInv, LastInv',
           clears' = 0 => clears = 0 /\ FallInv', Chain
    PROVE  FirstInv'
  <1>1. UNCHANGED <<pc, bls, extra, hdr, upd, rg, made>>
    BY DEF Chain, linkVars, handlerVars
  <1>2. /\ fin <= fin' /\ head <= head'
        /\ \A s \in FirstSlot .. fin : chain'[s] = chain[s]
        /\ reorgs' = 0 => reorgs = 0 /\ \A s \in FirstSlot .. head : chain'[s] = chain[s]
    <2>1. reorgs' = 0 => reorgs = 0
      BY CountsRise DEF Next
    <2>2. QED
      BY <2>1, ChainNextOrder DEF Chain, TypeOK
  <1>3. fin \in Nat /\ fin' \in Nat /\ head \in Nat /\ head' \in Nat
    BY SlotsAreNat DEF TypeOK, ChainTypeOK
  <1>4. LastSettled' = LastSettled /\ SearchedAfter' = SearchedAfter
    BY <1>1 DEF LastSettled, SearchedAfter
  <1>5. CASE pc \notin {"undelivered", "storeUndelivered"}
    BY <1>1, <1>5 DEF FirstInv, FirstSearch, FirstFinds
  <1>6. CASE pc \in {"undelivered", "storeUndelivered"}
    <2>1. /\ LastSettled \in FirstSlot .. fin /\ LastSettled \in Nat
          /\ SearchedAfter \in FirstSlot .. fin /\ SearchedAfter \in Nat
          /\ FirstSlot \in FirstSlot .. fin /\ FirstSlot \in FirstSlot .. head
          /\ hdr.slot - 1 \in FirstSlot .. head /\ hdr.slot - 1 \in Nat
          /\ chain[LastSettled].tx \in Nat /\ chain[hdr.slot - 1].tx \in Nat
          /\ chain[SearchedAfter].tx \in Nat /\ chain[FirstSlot].tx = 0
          /\ bls.rx \in Nat /\ rg.fSlot \in Nat /\ FirstSlot \in Nat
      BY <1>6, FirstSlots DEF FirstInv
    <2>2. /\ chain'[LastSettled] = chain[LastSettled]
          /\ chain'[SearchedAfter] = chain[SearchedAfter]
          /\ chain'[FirstSlot] = chain[FirstSlot]
          /\ \A s \in FirstSlot .. LastSettled : chain'[s] = chain[s]
          /\ reorgs' = 0 => /\ chain'[hdr.slot - 1] = chain[hdr.slot - 1]
                            /\ \A s \in FirstSlot .. hdr.slot - 1 : chain'[s] = chain[s]
      BY <1>2, <1>3, <2>1
    <2>3. FirstSearch'
      <3>1. /\ hdr.slot - 1 \in FirstSlot .. head - 1 /\ upd.f \in FirstSlot .. fin
            /\ pc = "undelivered" =>
                  /\ rg.toSlot = hdr.slot - 1 /\ chain[LastSettled].tx <= rg.toSeq
                  /\ reorgs = 0 => chain[hdr.slot - 1].tx <= rg.toSeq
        BY <1>6 DEF FirstInv, FirstSearch
      <3>2. hdr.slot - 1 \in FirstSlot .. head' - 1 /\ upd.f \in FirstSlot .. fin'
        BY <1>2, <1>3, <3>1, <2>1
      <3>3. QED
        BY <1>1, <1>2, <1>4, <2>2, <3>1, <3>2 DEF FirstSearch
    <2>4. \A q : FinalHeld(chain, LastSettled, made, q) => FinalHeld(chain', LastSettled, made, q)
      BY <2>1, <2>2, FinalHeldStays
    <2>5. reorgs' = 0 =>
             \A q : FinalHeld(chain, hdr.slot - 1, made, q)
                      => FinalHeld(chain', hdr.slot - 1, made, q)
      BY <2>1, <2>2, FinalHeldStays
    <2>6. ASSUME clears' = 0, pc = "undelivered" PROVE FirstFinds'
      <3>1. /\ Reaches(chain, fin, rg, SearchedAfter, LastSettled)
            /\ Covers(chain, made, bls.rx, SearchedAfter, LastSettled, rg.seq)
            /\ reorgs = 0 => Covers(chain, made, bls.rx, FirstSlot, hdr.slot - 1, rg.seq)
        BY <2>6 DEF FirstInv, FirstFinds
      <3>2. Reaches(chain', fin', rg, SearchedAfter, LastSettled)
        <4>1. SearchedAfter <= SearchedAfter
          BY <2>1
        <4>2. QED
          BY <1>2, <1>3, <2>1, <3>1, <4>1, ReachesStays, Zenon
      <3>3. Covers(chain', made, bls.rx, SearchedAfter, LastSettled, rg.seq)
        BY <2>2, <2>4, <3>1 DEF Covers
      <3>4. reorgs' = 0 => Covers(chain', made, bls.rx, FirstSlot, hdr.slot - 1, rg.seq)
        BY <1>2, <2>2, <2>5, <3>1 DEF Covers
      <3>5. pc' = "undelivered"
        BY <1>1, <2>6
      <3>6. QED
        BY <1>1, <1>4, <3>2, <3>3, <3>4, <3>5 DEF FirstFinds
    <2>7. ASSUME clears' = 0, pc = "storeUndelivered" PROVE FirstFinds'
      <3>1. /\ \A q \in bls.rx + 1 .. chain[LastSettled].tx :
                  chain[SearchedAfter].tx < q => FinalHeld(chain, LastSettled, made, q)
            /\ reorgs = 0 =>
                  \A q \in bls.rx + 1 .. chain[hdr.slot - 1].tx :
                     FinalHeld(chain, hdr.slot - 1, made, q)
        BY <2>7 DEF FirstInv, FirstFinds
      <3>2. pc' = "storeUndelivered"
        BY <1>1, <2>7
      <3>3. \A q \in bls.rx + 1 .. chain'[LastSettled].tx :
               chain'[SearchedAfter].tx < q => FinalHeld(chain', LastSettled, made, q)
        BY <2>2, <2>4, <3>1
      <3>4. reorgs' = 0 =>
               \A q \in bls.rx + 1 .. chain'[hdr.slot - 1].tx :
                  FinalHeld(chain', hdr.slot - 1, made, q)
        BY <1>2, <2>2, <2>5, <3>1
      <3>5. QED
        BY <1>1, <1>4, <3>2, <3>3, <3>4 DEF FirstFinds
    <2>8. QED
      BY <1>6, <2>3, <2>6, <2>7 DEF FirstInv
  <1>7. QED
    BY <1>5, <1>6

LEMMA NextFirst ==
    ASSUME TypeOK, AscendInv, ChainOrder, LinkInv, FirstInv, [Next]_vars
    PROVE  FirstInv'
  <1>0. /\ TypeOK' /\ LinkInv' /\ LastInv'
        /\ clears' = 0 => /\ clears = 0 /\ FallInv'
                          /\ pc' # "idle" => /\ bls.rx <= bls'.rx /\ bls.height <= bls'.height
                                             /\ extra' = extra
    BY NextTyped, NextLink, NextLast, CountsRise, NextFall DEF FirstInv
  <1>1. CASE Chain
    BY <1>0, <1>1, FirstOnChain
  <1>2. CASE Handler
    <2>0. UNCHANGED <<chain, head, fin, reorgs>>
      BY <1>2, OtherSteps
    <2>1. ASSUME NEW h \in OptimisticUpdates, FirstUpdate(h) \/ LaterUpdate(h) PROVE FirstInv'
      <3>1. CASE FirstUpdate(h)
        BY <1>0, <3>1, FirstBegins
      <3>2. CASE LaterUpdate(h)
        BY <1>0, <2>0, <3>2, FirstMoves DEF LaterUpdate
      <3>3. QED
        BY <2>1, <3>1, <3>2
    <2>2. CASE RangeStep \/ RangeMisses \/ RangeDone
      <3>1. CASE pc = "undelivered"
        BY <1>0, <2>2, <3>1, FirstStep, FirstEnds
      <3>2. CASE pc # "undelivered"
        <4>1. pc' \in {"rebuild", "storeRebuilt"}
          BY <2>2, <3>2 DEF RangeStep, RangeMisses, RangeDone, Searching
        <4>2. QED
          BY <1>0, <2>0, <4>1, FirstMoves
      <3>3. QED
        BY <3>1, <3>2
    <2>3. CASE StoreUndelivered \/ GatherFromHeader \/ StoreGathered \/ RangeFails \/ RangePanics
      <3>1. pc' \in {"header", "append", "idle"}
        BY <2>3 DEF StoreUndelivered, GatherFromHeader, StoreGathered, RangeFails, RangePanics,
                    Panic, StartState, Return
      <3>2. QED
        BY <1>0, <2>0, <3>1, FirstMoves
    <2>4. CASE (\E a \in Attesting : FinalityUpdate(a)) \/ MakeStatus \/ StoreStatus
      <3>1. pc' \in {"validate", "storeStatus", "send"}
        BY <2>4 DEF FinalityUpdate, MakeStatus, StoreStatus
      <3>2. QED
        BY <1>0, <2>0, <3>1, FirstMoves
    <2>5. CASE Validate \/ StoreRebuilt
      <3>1. pc' \in {"announce", "rebuild"}
        BY <2>5, Zenon DEF Validate, StoreRebuilt
      <3>2. QED
        BY <1>0, <2>0, <3>1, FirstMoves
    <2>6. QED
      BY <1>2, <2>1, <2>2, <2>3, <2>4, <2>5 DEF Handler
  <1>3. CASE RelayBlockUpdate \/ RefuseBlockUpdate \/ RelayMessageProof \/ Execute
    <2>1. UNCHANGED <<chain, head, fin, reorgs, pc, hdr, upd, rg, made>>
      BY <1>3 DEF RelayBlockUpdate, RefuseBlockUpdate, RelayMessageProof, Execute, chainVars,
                  handlerVars
    <2>2. QED
      BY <1>0, <2>1, FirstMoves
  <1>4. CASE Consume \/ RpcFails \/ FaultPanics \/ Restart \/ ClearPanics
    <2>1. UNCHANGED <<chain, head, fin, reorgs>>
      BY <1>4, OtherSteps DEF ClearData
    <2>2. pc' = "idle"
      BY <1>4 DEF Consume, RpcFails, FaultPanics, Restart, ClearPanics, Panic, StartState, Return
    <2>3. QED
      BY <1>0, <2>1, <2>2, FirstMoves
  <1>5. CASE Clear \/ LoadRss \/ StoreRss \/ ScanMps \/ LoadMps \/ StoreMps
    <2>1. UNCHANGED <<chain, head, fin, reorgs, pc, hdr, upd, rg, made>>
      BY <1>5 DEF Clear, LoadRss, StoreRss, ScanMps, LoadMps, StoreMps, chainVars, handlerVars
    <2>2. QED
      BY <1>0, <2>1, FirstMoves
  <1>6. CASE UNCHANGED vars
    <2>1. UNCHANGED <<chain, head, fin, reorgs, pc, hdr, upd, rg, made>>
      BY <1>6 DEF vars, chainVars, handlerVars
    <2>2. QED
      BY <1>0, <2>1, FirstMoves
  <1>7. QED
    BY <1>1, <1>2, <1>3, <1>4, <1>5, <1>6 DEF Next, Link, ClearData

LEMMA FirstAlways == Spec => [](StatusInv /\ FirstInv)
  <1>1. Init => FirstInv
    BY ChainAssumption DEF Init, ChainInit, FirstInv, LastInv, FirstSearch, FirstFinds, FallInv,
                           Announcing, NoLinkStatus
  <1>2. StatusInv /\ FirstInv /\ [Next]_vars => FirstInv'
    BY NextFirst DEF StatusInv
  <1>3. QED
    BY <1>1, <1>2, InitStatus, NextStatus, PTL DEF Spec

\* As long as clearData has not run, the search of the first optimistic update leaves
\* a proof with the chain's own header of every message sent up to the slot before that
\* was not delivered; and when blocks were orphaned meanwhile, for a fork with blocks in
\* whichever of their slots, of every such message that was final when the update came
\* and sent after the slot the search begins after (Monitoring, messageProofDatasByRange).
THEOREM UndeliveredAreFound == Spec => UndeliveredFound
  <1>1. ASSUME StatusInv, FirstInv, StoreUndelivered, clears = 0,
               NEW q \in bls.rx + 1 .. LastMsg(hdr.slot - 1), Settled(q, SearchedAfter)
        PROVE  ProvableBy(mps', q)
    <2>1. /\ pc = "storeUndelivered" /\ mps' = msnap \o made /\ FirstFinds
          /\ TypeOK /\ ChainOrder /\ LinkInv /\ FirstSearch /\ LastInv
      BY <1>1 DEF StoreUndelivered, FirstInv, StatusInv
    <2>2. made \in Seq(MsgProof) /\ msnap \in Seq(MsgProof)
      BY <2>1 DEF TypeOK, HandlerOK
    <2>3. /\ LastSettled \in FirstSlot .. head /\ hdr.slot - 1 \in FirstSlot .. head
          /\ LastSettled = upd.f \/ LastSettled = hdr.slot - 1
      BY <2>1, FirstSlots DEF LastSettled
    <2>4. FinalHeld(chain, LastSettled, made, q) \/ FinalHeld(chain, hdr.slot - 1, made, q)
      <3>1. CASE reorgs = 0
        BY <1>1, <2>1, <3>1 DEF FirstFinds, LastMsg
      <3>2. CASE chain[SearchedAfter].tx < q /\ q <= chain[upd.f].tx
        <4>1. q \in bls.rx + 1 .. chain[LastSettled].tx
          BY <1>1, <2>1, <2>3, <3>2, FirstSlots DEF LastMsg
        <4>2. QED
          BY <2>1, <3>2, <4>1 DEF FirstFinds
      <3>3. QED
        BY <1>1, <3>1, <3>2 DEF Settled, LastMsg
    <2>5. ProvableBy(made, q)
      BY <2>1, <2>2, <2>3, <2>4, HeldIsProvable
    <2>6. QED
      BY <2>1, <2>2, <2>5, ProvableAppended
  <1>2. StatusInv /\ FirstInv =>
          [StoreUndelivered /\ clears = 0 =>
             \A q \in bls.rx + 1 .. LastMsg(hdr.slot - 1) :
                Settled(q, SearchedAfter) => ProvableBy(mps', q)]_vars
    BY <1>1
  <1>3. QED
    BY <1>2, FirstAlways, PTL DEF UndeliveredFound
=============================================================================
