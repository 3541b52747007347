# TLA+ development for btp2-eth2

The repository is the Ethereum side of a BTP2 relay. A *link* (external, library
btp2) takes blocks and BTP messages from a *receiver* on the source chain and hands
relay messages to a *sender* on the destination chain. `src/chain/eth2` provides both:
the receiver reads an Ethereum chain through a consensus (beacon) node and an
execution node and proves to a verifier contract (BMV) that messages were sent; the
sender submits relay messages to the BMC contract of an Ethereum chain and reports
what became of them.

## 1. Inventory

| Component | Source | State | Operations |
|---|---|---|---|
| receiver, event handler | receiver.go `Monitoring` and what it calls | `seq`, `prevRS`, `rss`, `mps`, `cp`, `once`, `lastFinalityUpdate` | optimistic update, finality update, validation, rebuild, announcement |
| receiver, link interface | receiver.go `Build*`, `FinalizedStatus`, `GetStatus` | the same fields, read; `rss`, `mps` cut by `clearData` | block update, block proof, message proof, clear |
| receiver, slot search | receiver.go 155-192 | none | `getBlockNum`, `findSlotForBlockNumber` |
| receiver, log scan | receiver.go 719-775, 857-895 | none | `messageProofDatasByRange`, `getBTPLogsWithSeq` |
| receiver, block updates | receiver.go 564-610, 661-717 | `lastFinalityUpdate` | retries of a finality update, `makeBlockUpdateDatas` over sync committee periods |
| receiver, historical summaries | receiver.go 341-413 | `ht` | trie of the block roots of a window of 8192 slots |
| sender | sender.go | `reqs` under `mtx`, the database | `Relay`, `GetStatus`, `checkRelayResult` |
| slot arithmetic | time.go | none | epochs, periods, indices |
| relay message items | message.go | none | RLP types, update of the BMC link status |
| proofs | proof/*.go | none | generalized indices, branches, tree offset proofs, roots |
| clients | client/*.go | none | RPC wrappers |
| commands, scripts, sample dapp | cmd, e2edemo, docker | none | configuration, demonstration |

How they interact. The receiver's event handler runs on the goroutine of the event
stream, one event at a time. It hands every receive status to the link through a
channel without buffer (`rsc`), and the link, on another goroutine, reads `rss` and
`mps` to build relay messages, updating the BMC link status `bls` that the handler
reads too. A third goroutine receives finalized statuses and cuts `rss` and `mps`
(`clearData`). None of the three takes a lock. In the sender, the link's goroutine
calls `Relay` and `GetStatus`; the event handler looks at `reqs` under a read lock that
it keeps while it hands results to the link through a channel without buffer.

What is hard. (a) `r.mps = append(r.mps, ...)` and `r.mps = r.mps[i+1:]` each load and
store the slice, in goroutines that do not exclude each other. (b) What was gathered
from optimistic headers may be orphaned before it is final. (c) A search for messages
has several steps, each of which may fail, and moves `r.seq` before it has succeeded.
(d) After a crash only the destination's status is known: what was gathered and
announced is searched again. (e) `TxSeq` is read at the head, which is ahead of the
attested and of the finalized slot. (f) The sender's read lock is kept while a channel
send waits; requests are removed by id after the lock is given up; the database write
comes after the transaction was sent. (g) A search is a series of RPC calls about a chain
that moves meanwhile. (h) After an outage of several sync committee periods the verifier
has to be led on committee by committee. (i) What the node answers is decoded with hardly
a check, so that a short answer or an error's message reaches the decoders.

What makes each correct:

* receiver: statuses go up; a status promises the messages sent by its slot and no
  other; every message not delivered has a proof whose header is the chain's; the
  handler comes back for the next event;
* sender: a final result is true and stays true, is given once and in order, and
  is given; `Relay` is not locked out; `GetStatus` does not read a status that a
  transaction in flight may change;
* slot search, log scan: they end, and find the block that holds the message;
* block updates: consecutive updates lead the verifier from its height to the
  finalized slot, with every sync committee on the way;
* historical summaries: the trie is the one whose root the summary commits to;
* proofs: an index computed is the index of that node, a decoded proof is the one
  encoded.

The list of hazards, each at its line, is in PROJECT.json.

## 2. Plan

The modules, in the order they were written; all exist.

1. `BeaconTime`: the slot arithmetic of time.go, as parameters and operators.
2. `BeaconChain`: the chain the receiver looks at (external): slots with and without
   blocks, messages, reorganisations above the finalized slot, finality.
   EXTENDS `BeaconTime`.
3. `ChainSearch`: what a search for messages is asked and may find. EXTENDS `BeaconChain`.
4. `Receiver`: the three goroutines on the receiver's fields, with the link and
   the destination as external actions. EXTENDS `ChainSearch`.
5. `Sender`, with `MCSender` for the symmetry of message ids.
6. `SenderProofs`, `ChainProofs` (lemmas about the chain), `ReceiverProofs`: theorems about 4
   and 5.
7. `MessageSearch`: the loops behind `ChainSearch`, one RPC call a step.
   EXTENDS `ChainSearch`.
8. `BlockUpdates`: finality updates over several sync committee periods, and the
   verifier they lead on. EXTENDS `BeaconTime`.
9. `StateProofs`, `BlockProofs`: generalized indices and decoders as operators; how a
   block and a receipt are proved.
10. `Delivery` and `ResultStream`: the abstract specifications of what receiver and sender
    promise, which `Receiver` and `Sender` implement.

11. `SenderQueueProofs`, `ReceiverStatusProofs`: what the requests, the statuses and the
    searches hold. `MessageSearchProofs`, `BlockUpdateProofs` and `BlockProofTheorems`: every safety
    property of 7, 8 and 9.

What is left is liveness, which stays with TLC (section 6), and what section 7 names.

## 3. What the modules model

### BeaconTime

One operator per function of time.go. The numbers of the code (32 slots, 256 epochs,
8192 roots, fork epoch) are constants, so that instances can have epochs of two slots.

### BeaconChain (external)

`chain[s]` is a slot: the version of its block's header (0: no block), its execution
block number and the BMC's TxSeq after it. Two headers of one slot with different
versions belong to different forks. `NewBlock` and `MissSlot` add a slot. `Reorg` replaces
the slots from some one above the finalized slot up to the head by those of a fork, which has
blocks in any of them, also where slots were missed, with any messages in them: `TxSeq`
after a slot may be higher or lower than it was, and so may block numbers. `Finalize`
makes a checkpoint block final, `FinalityDelay` slots or more after it. The contract appends messages with consecutive numbers, so a block is
described by its first and last message.

### Receiver

| TLA+ | Code |
|---|---|
| `seq`, `prevRS`, `rss`, `mps`, `cp` | fields of `receiver` (a status without its updates, a proof by its header and its range of messages) |
| `once`, `lastFU` | locals of `Monitoring` |
| `bls`, `dst` | the link's BMC link status, shared with `Monitoring`; the one on the destination |
| `pc`, `hdr`, `upd`, `rg`, `made` | where the handler is, and its locals |
| `msnap`, `rsnap`, `gsnap` | a slice that was loaded and not yet stored |
| `FirstUpdate`, `LaterUpdate`, `GatherFromHeader`, `StoreGathered` | optimistic update |
| `RangeStep`, `RangeMisses`, `RangeFails`, `RangePanics`, `RangeDone` | `messageProofDatasByRange`, one block of messages a step; found, found without its slot, not found |
| `FinalityUpdate`, `Validate`, `StoreRebuilt`, `MakeStatus`, `StoreStatus`, `Consume` | finality update |
| `Clear`, `LoadRss`, `StoreRss`, `ScanMps`, `LoadMps`, `StoreMps`, `ClearPanics` | `clearData` |
| `RelayBlockUpdate`, `RefuseBlockUpdate`, `RelayMessageProof`, `Execute` | the link, using `BuildBlockUpdate`, `BuildBlockProof`, `BuildMessageProof`; the destination |
| `RpcFails`, `FaultPanics` | a call whose failure ends the handler's work, or the process |
| `Restart`, `Panic` | the process dies and starts from the status of the destination |

Choices. Steps that only read are joined with the step that uses what was read, except
where another goroutine or the chain can make a difference that the properties see (the
load and the store of a slice, each iteration of a search). The RPC calls of
one step see one chain. The search of a block of messages is one step, to the slot that
`FoundAt` names; `MessageSearch` has its calls. When a fork has moved the block out of the
slots looked at (`LostAt`), `findSlotForBlockNumber` returns slot 0 and no error
(receiver.go:191), and the proof is made with the header of the genesis block: `RangeMisses`. Updates that `validateFinalityUpdate`
refuses, and the retry that waits for a better one, are in `BlockUpdates`. A checkpoint
header that cannot be read by `addCheckPointsByRange` is not told from one that is not
there: both lead to a rebuild. The horizon is within one sync committee period and within
8192 slots, so that a status has one block update and proofs go through block roots.

### ChainSearch and MessageSearch

`MessageSearch` takes every RPC call of `messageProofDatasByRange` as a step: `AskFrom`,
`AskTo` (the block numbers of the ends; `AskBefore` is the recursion of `getBlockNum`), `Scan`
(a chunk of logs), `ProbeFound`, `ProbeAbove`, `ProbeBelow` (the binary search), `MakeProof` or
`NoHeaderThere` (the header, of slot 0 if the binary search has found none). `Begin` chooses the ranges the two callers can ask for. The chain
may be reorganised between any two calls. `CallFails` is the error of any of them. `getBlockNum`
goes down past the first slot of the model when nothing up to there has a block
(`AnsweredNum`): those slots are all before every message.
`AgreesWithStep` ties it to `Receiver`: what the calls find is in `FoundAt`, and they find
nothing only when `FoundAt` is empty. `ScannedAt` is what the scan of the logs can find, of
which the binary search finds `FoundAt`.

### BlockUpdates

An update is known by its signature slot; what it attests and finalizes follows from the
chain. Events may come late and be skipped (`TakeEvent` takes any update signed after the
last one taken), and the slot announced is the one kept of the event (`slot`), whatever update
the retries put in its place (`upd`). `ReadAgain`, `GiveUp`, `ReadUpdate` are the retry loop,
`FetchPeriods` and `LastBud` the two parts of `makeBlockUpdateDatas`, `Announce` the status. The
node's list of light client updates ends before a period it has none of, and the code goes on
with what it got. `Relay`, `Accept`, `Refuse` and
`Clear` are the link, the destination and `clearData` at one go; the interleavings of the
latter are in `Receiver`. The verifier (external) follows the sync committee protocol of a
light client: it takes an update signed by the committee of its period, or by the next one
if it knows it, and learns the next committee from an update that carries it with a
branch that fits its attested header. `InitData` is what bmvinit deploys it with. The node
(external) keeps, for every period, its best update: one with enough signatures if there
is one, then one that finalizes a block of the period. `fork` is the first slot of a fork
that `checkVersion` does not know. Messages and `validateMessageProofData` are left to
`Receiver`, reorganisations too: finality updates attest what may be orphaned, but
finalize what may not.

### StateProofs and BlockProofs

`StateProofs` holds gindex.go, single.go and treeoffset.go as operators. A body of an answer
is its kind, the index it proves and the bytes missing at its end; the outcome of
decoding is a value, an error, a panic, or a proof that is not the node's: both decoders slice
up to the capacity of the buffer the answer was read into, so that an answer a few bytes short
may give a tree offset proof with a wrong leaf, or a single proof with a wrong last hash
(`Short`), and no error. The reference for the
indices is the consensus specification's: a path from the state's root (`BlockRootIndex`,
`SummaryIndex`). `BlockProofs` has `BuildBlockProof` in its three ways, the trie root by root,
and `makeMessageProofData`. The leaf of a state's proof is looked at, its hashes are not:
`whole` says whether they are the node's. `StateProofSpoiled` and `ReceiptsRootSpoiled` are
answers that are not all there or no proof. A trie that cannot be made refuses a block proof,
but ends the process when the first update asks for it (`WarmUp`, receiver.go:543). A root is the slot of its block, so that `StateAt` can say what a
state has at an index. The chain is any one with up to `MaxMissed` slots missed. The
numbers of transactions and receipts are kept (`Keys`), the Merkle Patricia tries are not.

### Sender

| TLA+ | Code |
|---|---|
| `reqs`, `db` | `reqs`; the last transaction in the database |
| `lpc`, `cur` | the link's goroutine in `Relay` or `GetStatus`, and its transaction |
| `hpc`, `to`, `hi`, `res`, `finished` | `_checkRelayResult` and its locals, the result being sent |
| `ReadLocked` | the read lock of `mtx`; actions with the write lock wait for it |
| `Relay`, `AddRequest`, `PutLastTransaction`, `PutFails`, `UndoRequest` | `Relay` |
| `ReadLastTransaction`, `Wake`, `CallStatus` | `GetStatus` |
| `FinalityUpdate`, `CheckLost`, `CheckFails`, `CheckMined`, `EndCheck`, `Deliver`, `RevertPanics` | `_checkRelayResult` |
| `RemoveFinished`, `EndRemove` | `_removeRequests` |
| `txs`, `blockNum`, `fin`; `Propagate`, `Mine`, `Finalize`, `Reorg`, `Drop`, `Expire` | the execution node (external) and time |
| `accepted`, `told`, `final` | history: what `Relay` returned and the link was told |

Transactions are numbered in sending order; their nonces make them mined in that order.
With an endpoint of its own for transactions (`TxEndpoint`, client/bmc.go) one that was sent
is *away* until it reaches the node it is looked up at. A transaction expires in order too,
since all wait the same time. `Restart` loses all but the database. The code of a failed
transaction is either the contract's or `BMVUnknown` (`CodesOf`), because it comes from the
call repeated at the newest block; if that call succeeds the process ends (`RevertPanics`).

### Delivery and ResultStream

`Delivery` has three numbers of messages: final on the source chain, verified and received at
the destination. They only grow, in this order. `Receiver` implements it under
`finalized <- LastMsg(fin)`, `verified <- LastMsg(dst.height)`, `received <- dst.rx`: neither a
race between `clearData` and the handler nor a crash, a rebuild or an orphaned block makes
the destination take a message that was not verified, or go back.

`ResultStream` is a queue of messages that wait, and their outcomes: transactions are numbered
in the order they were sent, so the queue is the set `waiting` with its least number in front.
A message enters when `Relay` returns (`Take`, behind all that wait), and leaves from the front
with its one final result (`Answer`); the end of the process (`End`) empties the queue; a result
may be given for a call that has not returned, when nothing waits (`AnswerEarly`). Nothing is
taken or answered before the link has asked for a status (`up`). `Sender` implements it under `waiting <-` the accepted requests of `reqs` without a final
result, `outcome <- final`. This says more than `FinalOnce` and `ResultsInOrder` together: a
removal by id never takes a message that still waits.

Each module holds, right before a definition, slips of it: operators named as such that
no specification uses. They are the plausible errors against which PROJECT.json says
each property was tried.

## 4. Runs

| Run | Checks | Bounds |
|---|---|---|
| receiver_race | `TypeOK`, `RssAscend`, `StatusNeverAhead`, `StatusesRise`, `RebuildCovers`, `NoDoubleGather`, `ImplementsDelivery` | 5 slots after the first, epochs of 2, 2 messages, one clear |
| receiver_restart | `StatusNeverAhead`, `RebuildCovers`, `UndeliveredFound`, `ImplementsDelivery`, `HandlerReturns` under fairness | 4 slots after the first, one message, one missed slot, one orphaned block, one crash, one failing call |
| receiver_forks | `RebuildCovers`, `UndeliveredFound`, `ImplementsDelivery` | 4 slots after the first, 2 messages, one missed slot, one reorganisation of up to 2 slots, one crash |
| search | `TypeOK`, `MadeProvable`, `MadeComplete`, `AgreesWithStep`, `SearchEnds` under fairness | 5 slots after the first, 2 messages, one missed slot, one reorganisation of up to 2 slots, which may leave another without a block but not two in a row, chunks of 2, one failing call |
| updates | `TypeOK`, `StatusesAscend`, `StatusLeadsOn`, `PredictionRight` | 10 slots after the first, periods of 4 slots, one retry, one missed slot, weak block or failed call, one restart, an unknown fork at slot 13 or none |
| proofs | `TypeOK`, `TriesRight`, `BlockProofVerifies`, `MessageProofRight`, `NoneRefused` | all chains of 13 slots with up to 3 missed, windows of 4 slots from slot 4 on, 2 requests, one failed call or spoiled answer |
| sender_results | `TypeOK`, `FinalIsTrue`, `FinalOnce`, `NoneForgotten`, `ResultsInOrder`, `StatusSettled` | 3 messages with fresh ids, 2 blocks, a reorganisation, a crash, a failing database write, a transaction endpoint |
| sender_live | `ImplementsResultStream`, `EveryResultComes`, `RelayReturns` under fairness | 2 messages with the same id, 2 blocks, a reorganisation, a forgotten transaction, a failing call, a transaction endpoint |
| receiver_incomplete, receiver_undelivered, search_missed, decode | one finding each, below | |

Why the bounds are enough to be of interest. With epochs of two slots, five slots after
the first hold two further checkpoints, so that a status is announced while the link
relays the one before and `clearData` cuts what an earlier one left. Two messages are
the least for which one is held while another is gathered, found by a search, or left
out. `FinalityDelay = 1` lets a checkpoint become final as soon as one block attests it,
which is the tightest race between optimistic and finality updates. One missed slot is
enough for block numbers and slots to differ. A reorganisation of two slots reaches the slot
below the header an update brings, the last one searched; with a missed slot and two messages
the fork can fill it, and send a message in it or leave it out, at every point of a search. In `Receiver` `MaxFilter` is the code's 128: all
the instances' blocks fit in one chunk, so that only the end of the scan matters;
`MessageSearch` takes chunks of two blocks, so that a range has several. In `BlockUpdates`
the horizon holds three periods, the least for which two committees lie between the
verifier and an update; one retry tells the first reading from a later one. In
`BlockProofs` a window of four slots has a first, a last and inner ones, three missed slots
reach over a whole beginning of one, and with 13 slots there are two windows in the
summaries and one before the fork. In the sender, three requests give a first, a middle and
a last one, which is what the loop and the removal by id tell apart. Panics use no budget,
since each starts again from `dst`, a state already reached, or ends the relay.

Deadlock is not checked: at the bounds every one of these systems stops.

Restrictions that are not accidents.

* `StatusNeverAhead`, what `StatusesRise` says of messages, and `NoDoubleGather` are stated without
  reorganisations: with them the code does not keep them, because only checkpoint headers are
  compared (receiver.go:1028), so a message gathered from a block between two checkpoints that
  was orphaned stays in `mps`. A status may then promise a message the chain no longer has, and
  the next one fewer. `ImplementsDelivery` has no such condition: no such message is received.
* The last two are stated without `clearData` too (`clears = 0`), and so is `UndeliveredFound`; TLC
  finds them violated otherwise. A stale `mps` stored back between `Validate` and `MakeStatus` makes
  the status made promise less than the one before; stored back over what a rebuild emptied, it
  is gathered again when the rebuild fails. A stale `rss` stored back lets the link build a block
  update the verifier refuses, and during the search of the first update the link is then behind
  what the search began from.
* `UndeliveredFound` and `RebuildCovers` speak, once a block was orphaned, of the messages of
  the slots searched that were final when the update came (`Settled`); without reorganisations,
  of all up to the slot before the header, or the finalized one. `TxSeq` is read before the
  slots are searched (receiver.go:510), so a fork that sends a new message in a slot below the
  header meanwhile puts it beyond what was asked for, and what is stored at :548 lacks it; TLC
  finds this when the condition is left out. Such a message is not final, and the next
  finality update, which finds another number of messages than were gathered, rebuilds. The
  block right before the slots searched is excepted too: the binary search comes upon it when
  the first slot searched has no block, and a fork may have one there by then.
* `RebuildCovers` promises the messages after the last status. A rebuild empties `mps` and
  searches from there (receiver.go:1050-1055): what was announced before and not relayed yet
  has no proof until the relay starts again. No property says otherwise.
* `MadeProvable` speaks, after a reorganisation, of messages of the slots asked for that were
  final when the search began: of others a proof with the header of another fork, or of slot 0,
  may be made. `MadeComplete` has no such condition: the ranges of the proofs fit whatever happens to
  the chain, though some of the blocks may be gone. The run allows
  no two slots in a row without a block (`MaxRun = 1`), as with two a search may not end
  (finding search_missed); the theorems allow any number.
* `StatusLeadsOn` speaks of a status made for the verifier as it is, and excepts two cases the
  code does not handle: at the edge of a period the next committee is sent with the branch of
  another update (receiver.go:699), and an update signed in a later period needs a committee
  that no block update brings, unless the verifier is in the update's period, knows the next
  committee, and the period is the next one. It also asks that the node has for each period an
  update that most of the committee signed (`Served`): the code checks that of the finality
  update only, and does not look at how many updates it got.
* `TriesRight` is stated without failed calls: an RPC error counts as a slot without a block
  and the trie is kept (receiver.go:389). `BlockProofVerifies` excepts proofs by such a trie,
  and old headers of orphaned blocks, whose root is not compared with the trie's. It excepts
  answers of the node a few bytes short (single.go:57), whose last hash is wrong: of their proofs
  it says that all but this hash is right.
* `NoneRefused` excepts windows that begin after a window's length of missed slots, for which
  no root before is looked for far enough back.
* `MessageProofRight` excepts answers cut short by up to three bytes (treeoffset.go:60).
* `StatusSettled` is stated without reorganisations: `GetStatus` looks at one transaction once,
  and one that was mined may become pending again.
* `NoneForgotten` is checked with failing writes when ids are fresh, `ImplementsResultStream`
  with reused ids when writes do not fail: with both, `removeRequest` removes the older
  request of that id. The theorems about them have this condition as `Distinct`.
* `EveryResultComes` excepts runs in which the node forgets a transaction: its request is logged
  as dropped (sender.go:299, :305, :312) but not put into `finished`, so it stays first in `reqs`
  for good, and no later one is looked at.

### Disagreements between code and comments

* `receiver_incomplete`. makeMessageProofData sets `r.seq` for every block a rebuild finds,
  before the rebuild has succeeded. If it then fails, because `TxSeq` is read at the head
  and the search ends at the attested slot, the next validation sees the last sequence
  number it expects and passes, and a later status lacks a message sent by its slot.
* `receiver_undelivered`. When nothing was delivered before, the search of the first
  update starts after the verifier's height. If a block update was executed and the
  relay died before the message proof, the message is below, and the handler panics at
  every start.
* `search_missed`. The binary search recognises a slot without a block only if the block
  before is right below its range. With two missed slots in a row it moves its lower end
  back instead, and may ask for the same slots for ever.
* `decode`. The decoder of tree offset proofs refuses an answer of another kind with an
  error, which its caller does not look at before it dereferences the missing proof.

## 5. Fairness

Receiver, `FairSpec`: weak fairness of the steps of a handler that has begun, and of
`Consume`. The handler is a goroutine that only waits for RPC calls, which end by
answer or timeout, and for the link to take a status, which the link's loop does. No
fairness is assumed of the chain, of events, of the link's building or of `clearData`.

MessageSearch, `FairSpec`: weak fairness of `Step`, every call ending.

Sender, `FairSpec`: the handler runs and finality updates keep coming; the link's call in
progress goes on, and its first call is `GetStatus`. `AddRequest` and `UndoRequest` have
strong fairness, because they wait for the write lock while the handler takes and gives
up the read lock again and again: Go's RWMutex does not let new readers in while a
writer waits. Transactions reach the node, are mined and blocks finalized, and time passes.
`Deliver` is part of the handler: the link takes results, as its loop does.

BlockUpdates and BlockProofs state safety only.

## 6. Proofs

| Module | Theorem | States `Spec =>` |
|---|---|---|
| SenderProofs | `SenderTyped` | `[]TypeOK` |
| | `FinalResultsAreTrue` | `[]FinalIsTrue` |
| | `StatusIsSettled` | `[]StatusSettled` |
| SenderQueueProofs | `FinalResultsOnce` | `[]FinalOnce` |
| | `RequestsAreKept` | `[]NoneForgotten`, under `Distinct` |
| | `ResultsAreOrdered` | `[]ResultsInOrder`, under `Distinct` |
| | `SenderImplements` | `ImplementsResultStream`, under `Distinct` |
| ReceiverProofs | `ReceiverTyped` | `[]TypeOK` |
| | `StatusesAscend` | `[]RssAscend` |
| | `ReceiverImplements` | `ImplementsDelivery` |
| ReceiverStatusProofs | `StatusesSent` | `[]StatusNeverAhead` |
| | `StatusesGoUp` | `StatusesRise` |
| | `NothingGatheredTwice` | `NoDoubleGather` |
| | `RebuildsCover` | `RebuildCovers` |
| | `UndeliveredAreFound` | `UndeliveredFound` |
| MessageSearchProofs | `MessageSearchTyped` | `[]TypeOK` |
| | `MadeOnce` | `[]MadeComplete` |
| | `MadeAreProvable` | `[]MadeProvable` |
| | `CallsAgreeWithStep` | `AgreesWithStep` |
| BlockUpdateProofs | `BlockUpdatesTyped` | `[]TypeOK` |
| | `StatusesInOrder` | `[]StatusesAscend` |
| | `HeightIsPredicted` | `PredictionRight` |
| | `StatusLeadsVerifier` | `StatusLeadsOn` |
| BlockProofTheorems | `BlockProofsTyped` | `[]TypeOK` |
| | `TriesAreRight` | `[]TriesRight` |
| | `BlockProofsVerify` | `[]BlockProofVerifies` |
| | `HeadersAreProved` | `NoneRefused` |
| | `MessageProofsAreRight` | `[]MessageProofRight` |
| | `RootGIndex`, `SummaryGIndex`, `GIndexOfOffsets` | what gindex.go and `GetGIndex` compute (operators, no `Spec`) |

They hold for all values of the constants that satisfy `TimeAssumption`, `ChainAssumption`,
`SearchAssumption`, `MessageSearchAssumption`, `ReceiverAssumption`, `UpdateAssumption` and
`SenderAssumption` (numbers are natural, lengths are not 0, the first slot is a checkpoint), and
those of the proofs. `StateAssumption`: the length of a window and the limit of the summaries are
powers of two (2^13 and 2^24 in the code), without which an element has no generalized index
of its own. `ProofAssumption`: the fork slot is a multiple of the window's length, the horizon
stays within the summaries a state has room for, and the receipts root is a right child, as the
field 3 of the payload is; `GetGIndex` takes an offset of 1 for a step to the right, so the index
of a left child would not come back from its offsets.
`Distinct == ~ReuseIds \/ MaxDbFaults = 0`, a message is never relayed under an
old id or the database never fails, is a condition on the code: without it the statements are
false, see section 4. Every invariant and action property of the passing runs, and both
refinements, are thereby proved for every instance.

**Sender.** `FinalIsTrue` is not inductive: a result is written by `Deliver` from `res`, which was
made earlier from `txs` and `to`. The invariant `FinalInv` adds that `to` is at most the finalized
block, that a number not sent yet is free (`NothingUnsent`), and that a final result on its way
is true of a transaction in a block up to `to`. Each is kept since `Reorg` leaves blocks up to
`fin` alone and `Drop` only takes pending transactions. `StatusSettled` uses that transactions
settle in the order they were sent.

The queue: `QueueInv` says that requests ascend, that the handler's position splits `reqs` into
those answered in this round and those not answered at all, and (`Matched`) that what is
`finished` can be found in `reqs` in order. The last is what makes the removal by id, with
other removals and additions in between, leave no unanswered request behind an answered one.
`KeepInv` adds that `finished` is the very beginning of `reqs` and that a removal by id takes the
request meant: here ids must be distinct. `SenderImplements` follows step by step: `Take` is the
return of `Relay`, `Answer` or `AnswerEarly` is `Deliver`, `End` is `Restart`, all others stutter.

**Receiver.** `RssAscend` is not inductive: the handler appends to a slice it loaded before, and
`clearData` stores one it loaded before. `AscendInv` says of each of the slices `rss`, `rsnap` and
`gsnap` that it ascends strictly up to a bound: all slots are final, and while the handler is
announcing the slot of its update they are below that slot, which is then `lastFU`; `lastFU`
bounds them in between. `clearData` keeps this since a rest of an ascending sequence ascends
under the same bound (`AscendsRest`), and the handler's append since the new slot is above it
(`AscendsAppend`). The proof does not depend on the order in which the three goroutines load
and store.

`ReceiverImplements` needs `LinkInv`: destination, link and finalized slot are in this order, with
their messages (`rx` at most the last message of the verified height).

`StatusNeverAhead` rests on `CalmInv`: without reorganisations the header handled is a block of
the chain, every proof of every copy of `mps` (`mps`, `msnap`, `gsnap`) ends with the last message of
its block, and every status of every copy of `rss` is sent. `StatusesRise` and `NoDoubleGather` rest
on `QuietInv`: without `clearData` besides, what is held ends at `seq` unless the handler is about
to append to it, what it appends follows or, in the search of the first update, overlaps and
ends after it, and what was promised is at most `seq`. `TurnInv` is the part about slots.

`RebuildCovers` rests on `RebuildInv`. A rebuild has found (`Covers`) every message between the
last status and where it is whose block lies after the slot of that status and up to the
finalized one, which no reorganisation touches; and it has not passed over the block of its
next message (`Reaches`): where it goes on is not after that block, even if it took a proof for
slot 0 or one of a fork before, as it then goes back. As long as nothing was reorganised this is
so of all messages up to the finalized slot. `UndeliveredFound` rests on `FirstInv`, the same for
the first search, with the slot after which it begins (`SearchedAfter`) and the last slot that was
final (`LastSettled`), and on `FallInv`: without `clearData` the link is never above the last
status it can relay, so it does not fall back. Nothing in these proofs depends on what a fork
puts into the slots above the finalized one.

**MessageSearch.** `CallInv` keeps the calls inside the range and on the chain. `CoverInv` says that
the proofs made are consecutive and end right before the next message wanted. `SearchInv`
(for messages of the slots asked for that were final when the search began) says that the block
wanted is at or after the start of the range and the chunk, that the binary search keeps its slot
between `low` and `high`, and that the proofs made are the chain's; a reorganisation keeps it, as
the blocks it speaks of (`Stands`) are final. `EarlyInv` says that a message of a block before those
slots is found at no slot among them, or the search would go on after the block wanted. The proof holds for any number of slots in a row without a
block: a search that moves its lower end back may not end, but does not lose the block. `ScanInv` and `HitInv` say for a chain that stands still that no message
wanted lies in the chunks passed; whether the end of the scan leaves out a block is arithmetic
modulo the chunk (`ModBetween`, `ModNext`), on both sides: in the calls and in `FoundAt`.

**BlockUpdates.** `IInv` has five parts besides types. `UpdatesInv`: updates are of blocks, and one
signed later does not finalize less (`CheckpointAscends`, `LastBlockIs`). `HandlerInv`: the handler's
last checkpoint, the verifier's height and the relay's idea of it are `Old`: no update still to
come, nor the one being handled, finalizes less. This is why a retry, which may read a later
update, still finalizes the checkpoint of the event, which is announced (`slot = upd.f`, `ReadIs`). `RssInv`: what a status brings ends
with its own checkpoint, which nothing before it exceeds. `SentInv`: the relay takes the verifier
to be where what was relayed ends; with `CourseRises` this is `PredictionRight`. `BudsInv`: the block
updates made are the best of consecutive periods, which the chain has left, so they stay the
best (`BestStays`), and that they end early only at a period the node has none of. `CourseOfPeriods` goes along them: after each the verifier is in its period and
knows the next committee; this is `StatusLeadsOn`, for any number of periods.

**BlockProofs.** `BlockInv` is `TypeOK` with `BuildInv` (while a window is filled, there are as many
roots as slots asked for) and `ReqInv`: a request is of a header of the chain or of an orphaned
block, it is proved by block roots only if its slot is less than a window's length below the
height and by a summary only if not, and the summary taken is the one of its window. For
the last the state must have that summary (`OldIsSummedUp`). `RootsInv` says of the roots read so far that
each is the last up to its slot, or nil if there has been no block since where the search for
the root before the window ended. A slot without a block repeats the root before, so `Fill`
keeps it (`RootAppended`, `LastBlockBefore`), and a window filled without a nil root is the summary
(`KeptTrieIsSummary`): this is `TriesRight`. A nil root in it means that there was no block from a
window's length before it to its first slot: this is `NoneRefused`, together with what the state has at the
index computed for a slot in reach (`StateAtRoot`), the root of that very slot.
`BlockProofVerifies` follows from `ReqInv` and where the index of a leaf leads; as an answer a few
bytes short has its index and its leaf, the proof made of it differs in `whole` alone.

That the indices are the specification's (`RootGIndex`, `SummaryGIndex`) and apart from each other
(`IndicesApart`) is arithmetic of powers of two. `^` is known to the backends only as a function of two
numbers; all that the library says of it is how many subsets a set has, from which `TwoPowers` and
`PowersRise` get what is needed. `GIndexOfOffsets` goes along the
path to an index: its first steps are the number's leading bits (`PathSteps`). `Keys` is a fold,
which is a recursive function on sets; `GatheringExists` says that there is one, and `KeysRight`
by induction that it has each transaction once. With `GIndexOfOffsets` this is `MessageProofRight`.

Recursive functions. `FlattenSeq` and `Course` are defined by recursion over a sequence, `Keys` and
`GetGIndex` too. The library's induction takes a predicate, which the backends cannot instantiate;
`Induction` of `BlockUpdateProofs` and `BlockProofTheorems` takes a set instead and follows from the
well-foundedness of the naturals, and `Recursion` gives the function that a step function
defines. With them `FlattenSteps`, `CourseIs`, `KeysRight` and `GIndexOfOffsets` are proved from the
definitions for sequences of any length.

Only model-checked: liveness (`HandlerReturns`, `SearchEnds`, `EveryResultComes`, `RelayReturns`), since
liveness under fairness and ENABLED are out of reach of the installed backends, and the
disagreements of section 4, which are counterexamples. None of the modules proved about
declares a RECURSIVE operator.

Each invariant was model-checked on the instance of its run, some on larger ones, before it
was proved.

## 7. Not modelled

* The RLP codec, Merkle Patricia tries and SSZ containers: data without control. What the
  decoders do with a right, a short or another answer is in `StateProofs`; `TreeOffsetProofToNode`
  is there by its result for the proof of one leaf.
* `GetStatus`, `Stop` of the receiver, `Stop` of the sender: when the link calls them is outside
  the repository. `GetHeightForSeq` and `BuildRelayMessage` read, and change no state.
* The verification of signatures and branches, at the relay (whose result is not looked
  at, receiver.go:648) and at the verifier: the node is taken to answer truthfully, or not
  at all, or with a body cut short or an error's message.
* Reorganisations between the calls of one gathered header (logs, receipts): the verifier
  proves both again.
* Fees and other transaction options, `getRevertMessage`'s text and `receiptToRevertError`'s
  parsing beyond the codes they lead to.
* Factory, network table, relay command, scripts, generated bindings, sample contracts.
