----------------------------- MODULE ChainSearch -----------------------------
(***************************************************************************)
(* What a search of chain/eth2/receiver.go for the messages of a range of  *)
(* slots is asked and what it may find, as operators on the chain.         *)
(* Receiver takes a message block a step from them; MessageSearch has the  *)
(* loops that compute them.                                                *)
(***************************************************************************)
EXTENDS BeaconChain, Sequences

CONSTANT MaxFilter    \* maxFilterLogsBlockNumber, 128

ASSUME SearchAssumption == MaxFilter \in Nat \ {0}

\* A messageProofData: the header it was made with and the messages it holds.  A
\* search that does not find the slot of a block takes the header of slot 0.
MsgProof ==
    [slot : Slots \cup {0}, ver : Versions, from : 1 .. MaxTxSeq, to : 1 .. MaxTxSeq]

Holds(mp, q) == mp.from <= q /\ q <= mp.to

\* The header a message proof carries is the chain's: BuildBlockProof compares
\* it with the block root, and the BMV with the verified one.
Provable(mp) ==
    /\ mp.slot \in FirstSlot .. head
    /\ mp.ver = chain[mp.slot].ver
    /\ FirstMsg(mp.slot) <= mp.from /\ mp.to <= LastMsg(mp.slot)

\* getBlockNum: the block number of a slot, of the previous one if it has no block.
BlockNum(s) == chain[IF s > head THEN head ELSE s].bn

\* The blocks that getBTPLogsWithSeq asks for: chunks of MaxFilter + 1 block
\* numbers, as long as a chunk starts before the last block.
ScannedBlocks(from, to) ==
    IF (to - from) % (MaxFilter + 1) = 0 THEN from .. to - 1 ELSE from .. to

\* Slots whose block is scanned and holds the next message.
ScannedAt(r) ==
    {s \in FirstSlot .. head :
        /\ IsBlock(s)
        /\ chain[s].bn \in ScannedBlocks(r.fbn, r.tbn)
        /\ FirstMsg(s) <= r.seq /\ r.seq <= LastMsg(s)}

\* Those that findSlotForBlockNumber looks at too.  For a slot without a block it
\* looks at the block before, which may lie before fSlot.
FoundAt(r) ==
    {s \in ScannedAt(r) : s <= r.toSlot /\ \A t \in s + 1 .. r.fSlot : t > head \/ ~IsBlock(t)}

\* Those it does not look at: a fork has blocks in other slots than the chain had
\* when the range was asked for, and so other block numbers in the range.
LostAt(r) == IF reorgs = 0 \/ FoundAt(r) # {} THEN {} ELSE ScannedAt(r)

\* Slip: one message too many is looked for.
RangeSearchPastEnd(fromSlot, fromSeq, toSlot, toSeq) ==
    [fbn |-> BlockNum(fromSlot), tbn |-> BlockNum(toSlot), fSlot |-> fromSlot,
     toSlot |-> toSlot, seq |-> fromSeq, toSeq |-> toSeq + 1]

RangeSearch(fromSlot, fromSeq, toSlot, toSeq) ==
    [fbn |-> BlockNum(fromSlot), tbn |-> BlockNum(toSlot), fSlot |-> fromSlot,
     toSlot |-> toSlot, seq |-> fromSeq, toSeq |-> toSeq]
=============================================================================
