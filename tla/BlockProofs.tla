---------------------------- MODULE BlockProofs ----------------------------
(***************************************************************************)
(* How the receiver proves a block to the verifier and a message's receipt *)
(* to the block: blockProofForMessageProof, getHistoricalSummariesTrie and *)
(* makeMessageProofData of chain/eth2/receiver.go, call by call.           *)
(*                                                                         *)
(* A block is proved from the state of the verifier's height: the block    *)
(* itself, one of its block roots, or a historical summary and a trie of   *)
(* the roots it sums up, which the receiver builds from the node's roots   *)
(* and keeps.  The chain is one of those with few slots missed; what is    *)
(* proved is final, so it does not change.                                 *)
(***************************************************************************)
EXTENDS StateProofs, FiniteSets, SequencesExt

CONSTANTS
    MaxSlot,          \* bound: the newest finalized slot
    MaxMissed,        \* bound: slots without a block
    MaxTx,            \* bound: transactions of a block
    MaxLogs,          \* bound: messages of a block
    ReceiptsGIndices, \* generalized indices of the receipts root in a block's state
    MaxRequests,      \* bound: proofs made
    MaxFaults         \* bound: calls that fail, and answers spoiled

ASSUME ProofAssumption ==
    /\ MaxSlot \in Nat /\ MaxMissed \in Nat /\ MaxTx \in Nat /\ MaxLogs \in Nat
    \* A right child, the field 3 of the payload; an offset of 1 is taken for one.
    /\ ReceiptsGIndices \subseteq Nat
    /\ \A g \in ReceiptsGIndices : g % 2 = 1 /\ g < 2^30
    /\ MaxRequests \in Nat /\ MaxFaults \in Nat
    \* A history window begins at a multiple of its length also after the fork.
    /\ (ForkEpochCapella * SlotPerEpoch) % SlotPerHistoricalRoot = 0
    \* The state has room for the summaries.
    /\ MaxSlot < ForkEpochCapella * SlotPerEpoch + SummariesLimit * SlotPerHistoricalRoot

VARIABLES
    blocks,    \* slots with a block
    height,    \* bls.Verifier.Height
    ht,        \* r.ht: for the first slot of a window, the trie's roots, or none
    pc,
    req,       \* the header a proof is made of
    logs,      \* transaction indices of the messages a proof is made of
    pi, whole, \* the state's proof: its leaf, and whether its hashes are the node's
    ti,        \* the slot asked for
    prev, roots,
    result,
    requests, faults

vars == <<blocks, height, ht, pc, req, logs, pi, whole, ti, prev, roots, result, requests, faults>>

ForkSlot == ForkEpochCapella * SlotPerEpoch
Window == SlotPerHistoricalRoot

------------------------------------------------------------------------------
(* The chain and its states, external *)

\* The root of the last block up to s is its slot; an orphaned block of a slot
\* has another root.
LastBlock(s) == Max({b \in blocks : b <= s})
Orphaned(s) == -s

\* State.block_roots[i] and historical_summaries[k] at height h.
BlockRoot(h, i) == LastBlock(CHOOSE s \in h - Window .. h - 1 : s % Window = i)
Summary(k) == [i \in 1 .. Window |-> LastBlock(ForkSlot + k * Window + i - 1)]
Summaries(h) == {k \in 0 .. MaxSlot : ForkSlot + (k + 1) * Window <= h}

\* No root: nil.
NilRoot == -MaxSlot - 1

\* What the state has at a generalized index: a root, or the roots summed up.
NotThere == <<>>
StateAt(h, g) ==
    IF \E i \in 0 .. Window - 1 : g = BlockRootIndex(i)
    THEN <<BlockRoot(h, CHOOSE i \in 0 .. Window - 1 : g = BlockRootIndex(i))>>
    ELSE IF \E k \in Summaries(h) : g = SummaryIndex(k)
    THEN Summary(CHOOSE k \in Summaries(h) : g = SummaryIndex(k))
    ELSE NotThere

Heights == {h \in blocks : h >= ForkSlot}

Header == [slot : ForkSlot .. MaxSlot, root : Int]
NoHeader == [slot |-> ForkSlot, root |-> NilRoot]

------------------------------------------------------------------------------
(* Results: none, an error or a panic, a block proof, a message proof *)

Nothing == [is |-> "none"]
Failed == [is |-> "error"]
Crashed(body) == [is |-> "panic", body |-> body]
NoBody == [Answer(OtherKind, 0) EXCEPT !.empty = TRUE]   \* the panic is of no answer

\* Leaf: what the state has at gindex; hashed: the proof has the node's hashes;
\* trie: the roots the trie of a historical proof was built from, and index its leaf.
BlockProof(leaf, hashed, trie, index) ==
    [is |-> "block", header |-> req, height |-> height, leaf |-> leaf, whole |-> hashed,
     trie |-> trie, index |-> index]

MessageProof(asked, g, keys) ==
    [is |-> "message", asked |-> asked, gindex |-> g, txs |-> ToSet(logs), keys |-> keys]

NoTries == [s \in 0 .. MaxSlot |-> NotThere]

Chains == {bs \in SUBSET (0 .. MaxSlot) :
             0 \in bs /\ Cardinality(0 .. MaxSlot \ bs) <= MaxMissed}

Init ==
    /\ blocks \in Chains
    /\ height \in Heights
    /\ ht = NoTries
    /\ pc = "idle" /\ req = NoHeader /\ logs = <<>> /\ pi = NotThere /\ whole = TRUE /\ ti = 0
    /\ prev = NilRoot /\ roots = <<>>
    /\ result = Nothing
    /\ requests = 0 /\ faults = 0

Fault == faults < MaxFaults /\ faults' = faults + 1

\* A finished request leaves nothing but its result and the tries.
Finish(r) ==
    /\ result' = r
    /\ pc' = "idle" /\ req' = NoHeader /\ logs' = <<>> /\ pi' = NotThere /\ whole' = TRUE
    /\ ti' = 0 /\ prev' = NilRoot /\ roots' = <<>>

\* A panic: the relay starts again, without tries.
Die(body) == Finish(Crashed(body)) /\ ht' = NoTries

------------------------------------------------------------------------------
(* blockProofForMessageProof *)

Old(slot) == height - slot >= Window

\* A proof of header is asked for; BuildBlockProof refuses one above the height.
AskBlock(header) ==
    /\ pc = "idle" /\ requests < MaxRequests
    /\ header.slot <= height
    /\ requests' = requests + 1
    /\ IF header.slot = height
       THEN /\ result' = [BlockProof(NotThere, TRUE, NotThere, 0) EXCEPT !.header = header]
            /\ UNCHANGED <<pc, req>>
       ELSE /\ req' = header
            /\ pc' = IF Old(header.slot) THEN "summary" ELSE "root"
            /\ result' = Nothing
    /\ UNCHANGED <<blocks, height, ht, logs, pi, whole, ti, prev, roots, faults>>

\* What the node is asked for in the state.
GIndexAsked ==
    IF pc = "root" THEN BlockRootsIdxToGIndex(SlotToBlockRootsIndex(req.slot))
    ELSE HistoricalSummariesIdxToGIndex(SlotToHistoricalSummariesIndex(req.slot))

\* Slip: whatever the state has is taken.
TakeAnyRoot(o) ==
    Finish(BlockProof(StateAt(height, o.gindex), o.is = "ok", NotThere, 0))

\* The proof's leaf must be the header's root; its hashes are not looked at.
TakeRoot(o) ==
    LET leaf == StateAt(height, o.gindex)
    IN  Finish(IF leaf = <<req.root>> THEN BlockProof(leaf, o.is = "ok", NotThere, 0)
               ELSE Failed)

TakeSummary(o) ==
    /\ pi' = StateAt(height, o.gindex) /\ whole' = (o.is = "ok")
    /\ pc' = "trie"
    /\ UNCHANGED <<req, logs, ti, prev, roots, result>>

ProveByRoot ==
    /\ pc = "root"
    /\ \E o \in NewSingleProof(Answer(SingleKind, GIndexAsked)) : TakeRoot(o)
    /\ UNCHANGED <<blocks, height, ht, requests, faults>>

ProveSummary ==
    /\ pc = "summary"
    /\ \E o \in NewSingleProof(Answer(SingleKind, GIndexAsked)) : TakeSummary(o)
    /\ UNCHANGED <<blocks, height, ht, requests, faults>>

\* The node does not answer.
StateProofFails ==
    /\ pc \in {"root", "summary"}
    /\ Fault
    /\ Finish(Failed)
    /\ UNCHANGED <<blocks, height, ht, requests>>

\* Its answer is no proof, or not all of one.
StateProofSpoiled ==
    /\ pc \in {"root", "summary"}
    /\ Fault
    /\ \E body \in Spoiled(Answer(SingleKind, GIndexAsked)) : \E o \in NewSingleProof(body) :
         CASE o = Dies -> Die(body)
           [] o = Error -> Finish(Failed) /\ UNCHANGED ht
           [] OTHER -> UNCHANGED ht /\ IF pc = "root" THEN TakeRoot(o) ELSE TakeSummary(o)
    /\ UNCHANGED <<blocks, height, requests>>

------------------------------------------------------------------------------
(* getHistoricalSummariesTrie *)

StartSlot == HistoricalSummariesStartSlot(req.slot)

\* At the first optimistic update a trie is made for each message found that is old
\* by the finalized slot, at or above the verifier's height, and no proof.
WarmUp(slot) ==
    /\ pc = "idle" /\ requests < MaxRequests
    /\ \E f \in Heights : f >= height /\ f - slot >= Window
    /\ requests' = requests + 1
    /\ req' = [slot |-> slot, root |-> NilRoot]
    /\ pc' = "trie" /\ result' = Nothing
    /\ UNCHANGED <<blocks, height, ht, logs, pi, whole, ti, prev, roots, faults>>

BuildTrie ==
    /\ pc = "trie" /\ ht[StartSlot] = NotThere
    /\ pc' = "prev" /\ ti' = StartSlot - 1
    /\ UNCHANGED <<blocks, height, ht, req, logs, pi, whole, prev, roots, result, requests, faults>>

\* BeaconBlockRoot: nothing for a slot without a block, and an error is not told
\* from it.
RootOf(s) == s \in blocks /\ UNCHANGED faults
NoRootOf(s) == IF s \in blocks THEN Fault ELSE UNCHANGED faults

\* Slip: only the slot before the window is looked at.
LookingOnce == ti = StartSlot - 1

\* The last root before the window is looked for, less far back than the window
\* is long.
Looking == ti > StartSlot - Window

FindPrev ==
    /\ pc = "prev" /\ Looking
    /\ \/ /\ RootOf(ti) /\ prev' = ti
          /\ pc' = "fill" /\ ti' = StartSlot
       \/ /\ NoRootOf(ti) /\ ti' = ti - 1
          /\ UNCHANGED <<pc, prev>>
    /\ UNCHANGED <<blocks, height, ht, req, logs, pi, whole, roots, result, requests>>

NoPrev ==
    /\ pc = "prev" /\ ~Looking
    /\ pc' = "fill" /\ ti' = StartSlot
    /\ UNCHANGED <<blocks, height, ht, req, logs, pi, whole, prev, roots, result, requests, faults>>

\* Slip: a slot without a block takes the root before the window.
RepeatedPrev == prev

\* A slot without a block repeats the root before.
Repeated == IF roots = <<>> THEN prev ELSE Last(roots)

Fill ==
    /\ pc = "fill" /\ ti < StartSlot + Window
    /\ \/ RootOf(ti) /\ roots' = Append(roots, ti)
       \/ NoRootOf(ti) /\ roots' = Append(roots, Repeated)
    /\ ti' = ti + 1
    /\ UNCHANGED <<blocks, height, ht, pc, req, logs, pi, whole, prev, result, requests>>

\* Slip: nil roots are kept.
KeepAnyTrie ==
    /\ pc = "fill" /\ ti = StartSlot + Window
    /\ ht' = [ht EXCEPT ![StartSlot] = roots]
    /\ pc' = "trie" /\ ti' = 0 /\ prev' = NilRoot /\ roots' = <<>>
    /\ UNCHANGED <<blocks, height, req, logs, pi, whole, result, requests, faults>>

\* GetTree fails when a root is nil, which the first optimistic update does not
\* survive; else the trie is kept.
KeepTrie ==
    /\ pc = "fill" /\ ti = StartSlot + Window
    /\ IF NilRoot \in Range(roots)
       THEN IF req.root = NilRoot THEN Die(NoBody) ELSE Finish(Failed) /\ UNCHANGED ht
       ELSE /\ ht' = [ht EXCEPT ![StartSlot] = roots]
            /\ pc' = "trie" /\ ti' = 0 /\ prev' = NilRoot /\ roots' = <<>>
            /\ UNCHANGED <<req, logs, pi, whole, result>>
    /\ UNCHANGED <<blocks, height, requests, faults>>

\* The header's root is not compared with the trie's.
ProveByTrie ==
    /\ pc = "trie" /\ ht[StartSlot] # NotThere
    /\ Finish(IF req.root = NilRoot THEN Nothing
              ELSE BlockProof(pi, whole, ht[StartSlot],
                              ArrayIdxToGIndex(1, Window, SlotToBlockRootsIndex(req.slot), 1)))
    /\ UNCHANGED <<blocks, height, ht, requests, faults>>

------------------------------------------------------------------------------
(* makeMessageProofData *)

\* The messages of a block, by the index of their transaction.
Logs == {l \in UNION {[1 .. n -> 0 .. MaxTx - 1] : n \in 1 .. MaxLogs} :
           \A i \in 2 .. Len(l) : l[i - 1] <= l[i]}

AskMessage(l) ==
    /\ pc = "idle" /\ requests < MaxRequests
    /\ requests' = requests + 1
    /\ logs' = l
    /\ pc' = "receiptsRoot" /\ result' = Nothing
    /\ UNCHANGED <<blocks, height, ht, req, pi, whole, ti, prev, roots, faults>>

\* getReceiptProofs: the receipts of the messages, each proved once.
Keys(l) ==
    FoldLeft(LAMBDA keys, tx : IF Contains(keys, tx) THEN keys ELSE Append(keys, tx), <<>>, l)

MakeMessageProof ==
    /\ pc = "receiptsRoot"
    /\ \E g \in ReceiptsGIndices :
         \E o \in TreeOffsetProofToSSZProof(Answer(TreeOffsetKind, g)) :
            Finish(MessageProof(g, o.gindex, Keys(logs)))
    /\ UNCHANGED <<blocks, height, ht, requests, faults>>

\* The receipts root, the block or a receipt is not answered.
MessageFails ==
    /\ pc = "receiptsRoot"
    /\ Fault
    /\ Finish(Failed)
    /\ UNCHANGED <<blocks, height, ht, requests>>

\* The answer for the receipts root is spoiled.
ReceiptsRootSpoiled ==
    /\ pc = "receiptsRoot"
    /\ Fault
    /\ \E g \in ReceiptsGIndices : \E body \in Spoiled(Answer(TreeOffsetKind, g)) :
         \E o \in TreeOffsetProofToSSZProof(body) :
            CASE o = Dies -> Die(body)
              [] o = Error -> Finish(Failed) /\ UNCHANGED ht
              [] OTHER -> Finish(MessageProof(g, o.gindex, Keys(logs))) /\ UNCHANGED ht
    /\ UNCHANGED <<blocks, height, requests>>

------------------------------------------------------------------------------
\* The verifier's height rises.
Advance ==
    /\ pc = "idle"
    /\ \E h \in Heights : h > height /\ height' = h
    /\ result' = Nothing
    /\ UNCHANGED <<blocks, ht, pc, req, logs, pi, whole, ti, prev, roots, requests, faults>>

Ask ==
    \/ \E s \in Heights : AskBlock([slot |-> s, root |-> s])
    \/ \E s \in Heights : AskBlock([slot |-> s, root |-> Orphaned(s)])
    \/ \E s \in Heights : WarmUp(s)
    \/ \E l \in Logs : AskMessage(l)

Next ==
    \/ Ask \/ ProveByRoot \/ ProveSummary \/ StateProofFails \/ StateProofSpoiled
    \/ BuildTrie \/ FindPrev \/ NoPrev \/ Fill \/ KeepTrie \/ ProveByTrie
    \/ MakeMessageProof \/ MessageFails \/ ReceiptsRootSpoiled
    \/ Advance

Spec == Init /\ [][Next]_vars

------------------------------------------------------------------------------
\* A proof verifies, as receiver_test.go has it: the hashes lead to the state's root,
\* and what the state has is the header's root, or the roots summed up, the trie's,
\* of which one is the header's.
Verifies(p) ==
    IF p.header.slot = p.height THEN p.header.root = p.height
    ELSE /\ p.whole
         /\ IF p.trie = NotThere THEN p.leaf = <<p.header.root>>
            ELSE p.leaf = p.trie /\ p.trie[p.index - Window + 1] = p.header.root

TypeOK ==
    /\ blocks \in Chains /\ height \in Heights
    /\ ht \in [0 .. MaxSlot -> Seq(0 .. MaxSlot)]
    /\ pc \in {"idle", "root", "summary", "trie", "prev", "fill", "receiptsRoot"}
    /\ req \in Header /\ logs \in Logs \cup {<<>>}
    /\ pi \in Seq(Int) /\ whole \in BOOLEAN /\ ti \in Int /\ prev \in Int /\ roots \in Seq(Int)
    /\ result.is \in {"none", "error", "panic", "block", "message"}
    /\ requests \in 0 .. MaxRequests /\ faults \in 0 .. MaxFaults

\* Without failed calls a trie kept has the roots that the state sums up, also
\* when slots at the beginning of its window have no block.
TriesRight ==
    faults = 0 => \A s \in DOMAIN ht :
        ht[s] # NotThere => ht[s] = Summary(SlotToHistoricalSummariesIndex(s))

\* A block proof of a header of the chain verifies, whichever way its age makes
\* it be proved, unless the state's answer was a few bytes short or its trie is a
\* wrong one kept from a failed call; and a header of an orphaned block is not proved
\* by block roots, however short the answer.
BlockProofVerifies ==
    result.is = "block" =>
        \/ Verifies(result)
        \/ /\ ~result.whole /\ faults > 0
           /\ Verifies([result EXCEPT !.whole = TRUE])
        \/ /\ result.trie # NotThere
           /\ result.trie # Summary(SlotToHistoricalSummariesIndex(result.header.slot))
        \/ /\ result.header.root = Orphaned(result.header.slot)
           /\ result.height - result.header.slot \notin 1 .. Window - 1

\* Without failed calls a header of the chain is refused only when it is proved by
\* a trie whose window begins with a slot without a block and comes after a
\* window's length of them.
NoneRefused ==
    [][result'.is = "error" /\ faults' = 0 =>
         \/ req.root = Orphaned(req.slot)
         \/ (StartSlot - Window + 1 .. StartSlot) \cap blocks = {}]_vars

\* A message proof that is made proves the receipts root and, once each, the
\* receipts of all its messages, unless the answer was cut short by up to three
\* bytes.
MessageProofRight ==
    result.is = "message" /\ result.gindex # 0 =>
        /\ result.gindex = result.asked
        /\ IsInjective(result.keys) /\ ToSet(result.keys) = result.txs

(* What the code says, and does not do *)

\* treeoffset.go:56, "invalid proof type": an answer of another kind is refused
\* with an error.
OtherKindRefused ==
    result.is = "panic" => result.body.empty \/ result.body.kind # OtherKind
=============================================================================
