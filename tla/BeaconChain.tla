----------------------------- MODULE BeaconChain -----------------------------
(***************************************************************************)
(* The source chain as the receiver sees it through the consensus and      *)
(* execution nodes and the BMC contract: slots that hold a block or were   *)
(* missed, the execution block number and the BMC's TxSeq after each slot, *)
(* reorganisations above the finalized slot, and finalization.             *)
(*                                                                         *)
(* The chain is external to the repository.  A header's identity is its    *)
(* slot and its version: two headers of one slot are blocks of different   *)
(* forks.                                                                  *)
(***************************************************************************)
EXTENDS BeaconTime, FiniteSets

CONSTANTS
    FirstSlot,      \* the finalized slot the BMV was initialised with
    MaxSlot,        \* bound: the horizon
    MaxTxSeq,       \* bound: BTP messages sent on the chain
    MaxMissed,      \* bound: missed slots
    MaxReorgs,      \* bound: reorganisations
    ReorgDepth,     \* bound: slots that one reorganisation replaces
    FinalityDelay   \* slots from a finalized block to a block that attests it

ASSUME ChainAssumption ==
    /\ FirstSlot \in Nat \ {0} /\ IsCheckPoint(FirstSlot)
    /\ MaxSlot \in Nat /\ FirstSlot <= MaxSlot
    /\ MaxTxSeq \in Nat /\ MaxMissed \in Nat
    /\ MaxReorgs \in Nat /\ ReorgDepth \in Nat
    /\ FinalityDelay \in Nat \ {0}

VARIABLES
    chain,    \* the canonical chain: ver 0 is a slot without a block
    head,     \* the newest slot
    fin,      \* the finalized slot
    missed,   \* slots missed so far
    reorgs,   \* reorganisations so far
    orphans   \* headers of orphaned blocks

chainVars == <<chain, head, fin, missed, reorgs, orphans>>

Slots == FirstSlot .. MaxSlot

Versions == 0 .. MaxReorgs + 1

Seqs == 0 .. MaxTxSeq

Slot == [ver : Versions, bn : Nat, tx : Seqs]

Header == [slot : Slots, ver : Versions, bn : Nat]

NoSlot == [ver |-> 0, bn |-> 0, tx |-> 0]

\* A block has the version of the newest fork.
NewVersion == reorgs + 1

IsBlock(s) == chain[s].ver # 0

HeaderAt(s) == [slot |-> s, ver |-> chain[s].ver, bn |-> chain[s].bn]

\* Headers of the blocks of a set of slots.
HeadersIn(S) == {HeaderAt(s) : s \in {t \in S : IsBlock(t)}}

\* TxSeq of the BMC at the newest block.
TxSeq == chain[head].tx

\* The block the chain has with execution block number n: its slot, if any.
SlotsOfBlock(n) == {s \in FirstSlot .. head : IsBlock(s) /\ chain[s].bn = n}

\* Messages of the block at slot s, which may be none.
FirstMsg(s) == (IF s = FirstSlot THEN 0 ELSE chain[s - 1].tx) + 1
LastMsg(s) == chain[s].tx

ChainInit ==
    /\ chain = [s \in Slots |->
                  IF s = FirstSlot THEN [ver |-> 1, bn |-> 1, tx |-> 0] ELSE NoSlot]
    /\ head = FirstSlot
    /\ fin = FirstSlot
    /\ missed = 0
    /\ reorgs = 0
    /\ orphans = {}

\* The next slot has a block, in which the BMC sends msgs messages.
NewBlock(msgs) ==
    /\ head < MaxSlot
    /\ TxSeq + msgs <= MaxTxSeq
    /\ head' = head + 1
    /\ chain' = [chain EXCEPT ![head + 1] =
                   [ver |-> NewVersion, bn |-> chain[head].bn + 1, tx |-> TxSeq + msgs]]
    /\ UNCHANGED <<fin, missed, reorgs, orphans>>

\* The next slot has no block.
MissSlot ==
    /\ head < MaxSlot
    /\ missed < MaxMissed
    /\ missed' = missed + 1
    /\ head' = head + 1
    /\ chain' = [chain EXCEPT ![head + 1] = [chain[head] EXCEPT !.ver = 0]]
    /\ UNCHANGED <<fin, reorgs, orphans>>

\* The blocks of slots from .. head are orphaned for a fork that has blocks in some
\* of those slots, which may have been missed before, and sends messages of its own
\* in them: tx is the BMC's TxSeq after each slot.
Reorg(from) ==
    /\ reorgs < MaxReorgs
    /\ reorgs' = reorgs + 1
    /\ fin < from /\ from <= head /\ head - from < ReorgDepth
    /\ HeadersIn(from .. head) # {}
    /\ orphans' = orphans \cup HeadersIn(from .. head)
    /\ \E blocks \in SUBSET (from .. head) \ {{}}, tx \in [from - 1 .. head -> Seqs] :
          /\ tx[from - 1] = chain[from - 1].tx
          /\ \A s, t \in from - 1 .. head : s <= t =>
                /\ tx[s] <= tx[t]
                /\ blocks \cap (s + 1 .. t) = {} => tx[s] = tx[t]
          /\ chain' = [s \in Slots |->
                         IF s < from \/ s > head THEN chain[s]
                         ELSE [ver |-> IF s \in blocks THEN NewVersion + 1 ELSE 0,
                               bn |-> chain[from - 1].bn
                                        + Cardinality(blocks \cap (from .. s)),
                               tx |-> tx[s]]]
    /\ UNCHANGED <<head, fin, missed>>

\* The checkpoint block of an epoch boundary is the last block at or before it.
CheckpointBlocks ==
    {s \in FirstSlot .. head :
        /\ IsBlock(s)
        /\ \E b \in s .. head : IsCheckPoint(b) /\ \A t \in s + 1 .. b : ~IsBlock(t)}

\* A later checkpoint block becomes final.
Finalize ==
    \E f \in CheckpointBlocks :
        /\ f > fin /\ f + FinalityDelay <= head
        /\ fin' = f
        /\ UNCHANGED <<chain, head, missed, reorgs, orphans>>

\* Slots whose block can carry the finality update for fin.
Attesting == {a \in fin + FinalityDelay .. head : IsBlock(a)}

ChainNext ==
    \/ \E msgs \in 0 .. MaxTxSeq : NewBlock(msgs)
    \/ MissSlot
    \/ \E from \in Slots : Reorg(from)
    \/ Finalize

ChainTypeOK ==
    /\ chain \in [Slots -> Slot]
    /\ head \in Slots
    /\ fin \in Slots
    /\ missed \in 0 .. MaxMissed
    /\ reorgs \in 0 .. MaxReorgs
    /\ orphans \subseteq Header
=============================================================================
