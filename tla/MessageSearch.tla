---------------------------- MODULE MessageSearch ----------------------------
(***************************************************************************)
(* messageProofDatasByRange of chain/eth2/receiver.go, call by call: the   *)
(* block numbers of the ends of the range, the logs in chunks of block     *)
(* numbers, the binary search for the slot of a block, its header.  Each   *)
(* step is one RPC call, between which the chain may grow, finalize or be  *)
(* reorganised.                                                            *)
(*                                                                         *)
(* Receiver takes the search of one message block as a step (RangeStep):   *)
(* the properties here say that the calls find what that step promises.    *)
(***************************************************************************)
EXTENDS ChainSearch

CONSTANTS
    MaxRun,       \* bound: slots in a row without a block
    MaxFaults     \* bound: RPC calls that fail

ASSUME MessageSearchAssumption == MaxRun \in Nat /\ MaxFaults \in Nat

VARIABLES
    pc,           \* the next call
    rg,           \* the range, as in Receiver
    ask,          \* slot getBlockNum asks for
    bn,           \* first block number of the next chunk of getBTPLogsWithSeq
    hit,          \* logs found: block number, and last message of the block
    low, high,    \* findSlotForBlockNumber
    mid,          \* the slot it asked for
    slot,         \* the slot it returned
    made,         \* messageProofDatas made
    begun,        \* history: first slot, first message and the finalized slot then
    faults

searchVars == <<rg, ask, bn, hit, low, high, mid, slot, made>>

vars == <<chainVars, pc, searchVars, begun, faults>>

NoRange == [fbn |-> 0, tbn |-> 0, fSlot |-> 0, toSlot |-> 0, seq |-> 0, toSeq |-> 0]

Init ==
    /\ ChainInit
    /\ pc = "idle" /\ rg = NoRange
    /\ ask = 0 /\ bn = 0 /\ hit = [bn |-> 0, to |-> 0]
    /\ low = 0 /\ high = 0 /\ mid = 0 /\ slot = 0
    /\ made = <<>>
    /\ begun = [from |-> FirstSlot + 1, seq |-> 0, fin |-> FirstSlot] /\ faults = 0

\* The first update and a rebuild search from the slot after a finalized block,
\* at the latest from the message after that block, up to a slot of the chain,
\* for everything the BMC has sent.
Begin(from, seq, to) ==
    /\ pc = "idle"
    /\ FirstSlot < from /\ from - 1 <= fin /\ IsBlock(from - 1) /\ seq <= LastMsg(from - 1) + 1
    /\ from <= to /\ to <= head
    /\ rg' = [NoRange EXCEPT !.fSlot = from, !.toSlot = to, !.seq = seq, !.toSeq = TxSeq]
    /\ ask' = from
    /\ pc' = "from"
    /\ begun' = [from |-> from, seq |-> seq, fin |-> fin]
    /\ UNCHANGED <<chainVars, bn, hit, low, high, mid, slot, made, faults>>

------------------------------------------------------------------------------
(* getBlockNum *)

Asking == pc \in {"from", "to", "probe"}

\* The slots before the first one have blocks too: a search that took a proof for
\* slot 0 may come there.
Answered == ask < FirstSlot \/ (ask <= head /\ IsBlock(ask))

AnsweredNum == IF ask < FirstSlot THEN 0 ELSE chain[ask].bn

\* The node answers 404, or with a block that has no execution block number.
AskBefore ==
    /\ Asking /\ ~Answered
    /\ ask' = ask - 1
    /\ UNCHANGED <<chainVars, pc, rg, bn, hit, low, high, mid, slot, made, begun, faults>>

AskFrom ==
    /\ pc = "from" /\ Answered
    /\ rg' = [rg EXCEPT !.fbn = AnsweredNum]
    /\ ask' = rg.toSlot
    /\ pc' = "to"
    /\ UNCHANGED <<chainVars, bn, hit, low, high, mid, slot, made, begun, faults>>

AskTo ==
    /\ pc = "to" /\ Answered
    /\ rg' = [rg EXCEPT !.tbn = AnsweredNum]
    /\ bn' = rg.fbn
    /\ pc' = "scan"
    /\ UNCHANGED <<chainVars, ask, hit, low, high, mid, slot, made, begun, faults>>

------------------------------------------------------------------------------
(* getBTPLogsWithSeq *)

\* Slip: the last message is left out.
DoneEarly == rg.seq >= rg.toSeq

Done == rg.seq > rg.toSeq

ChunkEnd == IF bn + MaxFilter > rg.tbn THEN rg.tbn ELSE bn + MaxFilter

\* Slip: the loop's increment comes twice.
NextChunkPast == ChunkEnd + 2

NextChunk == ChunkEnd + 1

\* Blocks of the chunk that hold the next message.
Matches ==
    {s \in FirstSlot .. head :
        /\ IsBlock(s) /\ bn <= chain[s].bn /\ chain[s].bn <= ChunkEnd
        /\ FirstMsg(s) <= rg.seq /\ rg.seq <= LastMsg(s)}

\* Slip: the sum is not halved.
ProbeSum(l, h) ==
    /\ low' = l /\ high' = h
    /\ IF l <= h
       THEN mid' = l + h /\ ask' = mid' /\ pc' = "probe" /\ slot' = slot
       ELSE slot' = 0 /\ pc' = "header" /\ UNCHANGED <<mid, ask>>

\* findSlotForBlockNumber looks at the middle, and returns 0 if nothing is left.
Probe(l, h) ==
    /\ low' = l /\ high' = h
    /\ IF l <= h
       THEN mid' = (l + h) \div 2 /\ ask' = mid' /\ pc' = "probe" /\ slot' = slot
       ELSE slot' = 0 /\ pc' = "header" /\ UNCHANGED <<mid, ask>>

Scan ==
    /\ pc = "scan" /\ ~Done /\ bn < rg.tbn
    /\ \/ /\ Matches = {}
          /\ bn' = NextChunk
          /\ UNCHANGED <<pc, ask, hit, low, high, mid, slot>>
       \/ \E s \in Matches :
             /\ hit' = [bn |-> chain[s].bn, to |-> LastMsg(s)]
             /\ Probe(rg.fSlot, rg.toSlot)
             /\ UNCHANGED bn
    /\ UNCHANGED <<chainVars, rg, made, begun, faults>>

\* No chunk is left: the message is not found.
ScanFails ==
    /\ pc = "scan" /\ ~Done /\ bn >= rg.tbn
    /\ pc' = "notFound"
    /\ UNCHANGED <<chainVars, searchVars, begun, faults>>

SearchEnd ==
    /\ pc = "scan" /\ Done
    /\ pc' = "done"
    /\ UNCHANGED <<chainVars, searchVars, begun, faults>>

------------------------------------------------------------------------------
(* findSlotForBlockNumber *)

\* Slip: a later block is taken too.
WantedOrLater(n) == n >= hit.bn

Wanted(n) == n = hit.bn

ProbeFound ==
    /\ pc = "probe" /\ Answered
    /\ Wanted(AnsweredNum)
    /\ slot' = ask
    /\ pc' = "header"
    /\ UNCHANGED <<chainVars, rg, ask, bn, hit, low, high, mid, made, begun, faults>>

ProbeAbove ==
    /\ pc = "probe" /\ Answered
    /\ AnsweredNum > hit.bn
    /\ Probe(low, ask - 1)
    /\ UNCHANGED <<chainVars, rg, bn, hit, made, begun, faults>>

\* Slip: low is not moved past a slot without a block.
NextLowStays == ask + 1

NextLow == IF ask = low - 1 THEN low + 1 ELSE ask + 1

ProbeBelow ==
    /\ pc = "probe" /\ Answered
    /\ AnsweredNum < hit.bn
    /\ Probe(NextLow, high)
    /\ UNCHANGED <<chainVars, rg, bn, hit, made, begun, faults>>

\* The header of the slot, of genesis for slot 0, and the proof of its logs.
MakeProof ==
    /\ pc = "header"
    /\ slot # 0 => IsBlock(slot)
    /\ made' = Append(made, [slot |-> slot, ver |-> IF slot = 0 THEN 0 ELSE chain[slot].ver,
                             from |-> rg.seq, to |-> hit.to])
    /\ rg' = [rg EXCEPT !.seq = hit.to + 1, !.fbn = hit.bn + 1, !.fSlot = slot + 1]
    /\ bn' = hit.bn + 1
    /\ pc' = "scan"
    /\ UNCHANGED <<chainVars, ask, hit, low, high, mid, slot, begun, faults>>

\* The slot has lost its block: there is no header.
NoHeaderThere ==
    /\ pc = "header"
    /\ slot # 0 /\ ~IsBlock(slot)
    /\ pc' = "failed"
    /\ UNCHANGED <<chainVars, searchVars, begun, faults>>

Calling == Asking \/ pc \in {"scan", "header"}

\* An error of any call ends the search.
CallFails ==
    /\ Calling /\ faults < MaxFaults
    /\ faults' = faults + 1
    /\ pc' = "failed"
    /\ UNCHANGED <<chainVars, searchVars, begun>>

------------------------------------------------------------------------------
ShortRuns ==
    \A s \in FirstSlot .. head : \E t \in s - MaxRun .. s : t >= FirstSlot /\ IsBlock(t)

\* Slots above the range are not looked at: during the search the chain is only
\* reorganised.
Chain ==
    /\ ChainNext /\ ShortRuns'
    /\ pc = "idle" \/ (Calling /\ reorgs' # reorgs)
    /\ UNCHANGED <<pc, searchVars, begun, faults>>

Step ==
    \/ AskBefore \/ AskFrom \/ AskTo
    \/ Scan \/ ScanFails \/ SearchEnd
    \/ ProbeFound \/ ProbeAbove \/ ProbeBelow
    \/ MakeProof \/ NoHeaderThere

Next ==
    \/ \E from, to \in Slots, seq \in 1 .. MaxTxSeq : Begin(from, seq, to)
    \/ Step \/ CallFails \/ Chain

Spec == Init /\ [][Next]_vars

\* Every call ends.
FairSpec == Spec /\ WF_vars(Step)

------------------------------------------------------------------------------
TypeOK ==
    /\ ChainTypeOK
    /\ pc \in {"idle", "from", "to", "scan", "probe", "header", "done", "notFound", "failed"}
    /\ rg \in [fbn : Nat, tbn : Nat, fSlot : Nat, toSlot : Nat, seq : Nat, toSeq : Nat]
    /\ ask \in 0 .. MaxSlot /\ bn \in Nat /\ hit \in [bn : Nat, to : Nat]
    /\ low \in Nat /\ high \in Nat /\ mid \in Nat /\ slot \in Nat
    /\ made \in Seq([slot : Nat, ver : Versions, from : Nat, to : Nat])

\* A message of the slots asked for whose block was final when the search began, or
\* any message if nothing is reorganised.
Stable(q) ==
    reorgs = 0 \/ (LastMsg(begun.from - 1) < q /\ q <= LastMsg(begun.fin))

\* The slot of a proof is the slot of the block that holds its messages, whatever
\* happens to the chain above the finalized block while the calls are made
\* (findSlotForBlockNumber with slots that have no block): never 0, never a neighbour.
MadeProvable ==
    \A i \in DOMAIN made :
        Stable(made[i].from) => made[i].slot \in Slots /\ Provable(made[i])

\* When the search has ended every message asked for is in exactly one of the proofs
\* made, over all chunks and blocks (messageProofDatasByRange), even of a search the
\* chain was reorganised under.
MadeComplete ==
    pc = "done" =>
        \A q \in begun.seq .. rg.toSeq :
            \E i \in DOMAIN made :
                /\ Holds(made[i], q)
                /\ \A j \in DOMAIN made : Holds(made[j], q) => j = i

\* The step that Receiver takes for a message block finds the block that the calls
\* found, and finds none when the calls found none.
AgreesWithStep ==
    [][/\ MakeProof /\ reorgs = 0 => slot \in FoundAt(rg) /\ hit.to = LastMsg(slot)
       /\ ScanFails /\ reorgs = 0 => FoundAt(rg) = {}]_vars

\* A search ends: chunks and probes always make way.
SearchEnds == Calling ~> ~Calling

(* What a comment of the code says, and the code does not do *)

\* receiver.go:185, "there is no block at slot (low+high)/2": such a slot below the
\* block wanted is left behind.
MissedLeftBehind ==
    [][ProbeBelow /\ ~IsBlock(mid) => low' > low]_vars
=============================================================================
