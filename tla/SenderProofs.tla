---------------------------- MODULE SenderProofs ----------------------------
(* Theorems of Sender, for every number of transactions, blocks and faults. *)
EXTENDS Sender, SequenceTheorems, TLAPS

\* Removing an element of a sequence keeps its type.
LEMMA WithoutType ==
    ASSUME NEW S, NEW rs \in Seq(S), NEW i \in DOMAIN rs
    PROVE  Without(rs, i) \in Seq(S)
  <1>1. i \in 1 .. Len(rs) /\ Len(rs) \in Nat
    BY LenProperties
  <1>2. \A j \in 1 .. i - 1 : rs[j] \in S
    BY <1>1, ElementOfSeq
  <1>3. \A j \in i + 1 .. Len(rs) : rs[j] \in S
    BY <1>1, ElementOfSeq
  <1>4. SubSeq(rs, 1, i - 1) \in Seq(S)
    BY <1>1, <1>2, SubSeqProperties
  <1>5. SubSeq(rs, i + 1, Len(rs)) \in Seq(S)
    BY <1>1, <1>3, SubSeqProperties
  <1>6. QED
    BY <1>4, <1>5, ConcatProperties DEF Without

LEMMA RemoveRequestType ==
    ASSUME reqs \in Seq(Tx), NEW id, RemoveRequest(id)
    PROVE  reqs' \in Seq(Tx)
  BY WithoutType DEF RemoveRequest, First

LEMMA InitTypeOK == Init => TypeOK
  BY SenderAssumption DEF Init, TypeOK, Tx, TxState, NotSent, Result, NoResult, Codes

LEMMA NoResultType == NoResult \in Result
  BY SenderAssumption DEF NoResult, Result, Codes

\* A transaction whose state, block and outcome are typed is typed.
LEMMA TxStateType ==
    ASSUME NEW x \in TxState,
           NEW st \in {"none", "away", "pool", "mined", "gone"}, NEW id \in Ids \cup {"none"},
           NEW blk \in 0 .. MaxBlock, NEW ok \in BOOLEAN
    PROVE  /\ [x EXCEPT !.st = st] \in TxState
           /\ [x EXCEPT !.st = st, !.id = id] \in TxState
           /\ [x EXCEPT !.st = st, !.blk = blk, !.ok = ok] \in TxState
  BY DEF TxState

\* The state after a crash or a panic is typed.
LEMMA ResetType ==
    ASSUME TypeOK, Reset, UNCHANGED <<nodeVars, db, final>>,
           UNCHANGED <<reorgs, drops, faults, dbFaults>>,
           restarts' \in 0 .. MaxRestarts
    PROVE  TypeOK'
  BY NoResultType, EmptySeq, SenderAssumption DEF TypeOK, Reset, nodeVars

\* The node's steps keep the types.
LEMMA NodeType == TypeOK /\ Node => TypeOK'
  <1> SUFFICES ASSUME TypeOK, Node PROVE TypeOK'
    OBVIOUS
  <1> USE SenderAssumption DEF TypeOK
  <1>1. ASSUME NEW t \in Tx, NEW ok \in BOOLEAN, Mine(t, ok) PROVE TypeOK'
    <2> DEFINE x == [txs[t] EXCEPT !.st = "mined", !.blk = blockNum + 1, !.ok = ok]
    <2>0. blockNum < MaxBlock
      BY <1>1, Zenon DEF Mine
    <2>1. blockNum + 1 \in 0 .. MaxBlock
      BY <2>0
    <2>2. x \in TxState
      BY <2>1, TxStateType
    <2>3. txs' = [txs EXCEPT ![t] = x]
      BY <1>1 DEF Mine
    <2>4. txs' \in [Tx -> TxState]
      BY <2>2, <2>3
    <2>5. QED
      BY <1>1, <2>1, <2>4 DEF Mine, linkVars, handlerVars, history, budgets
  <1>2. ASSUME NEW b \in 1 .. MaxBlock, Finalize(b) PROVE TypeOK'
    BY <1>2 DEF Finalize, linkVars, handlerVars, history, budgets
  <1>3. ASSUME NEW b \in 0 .. MaxBlock, Reorg(b) PROVE TypeOK'
    <2>1. txs' \in [Tx -> TxState]
      BY <1>3, TxStateType DEF Reorg
    <2>2. reorgs < MaxReorgs /\ reorgs' = reorgs + 1
      BY <1>3, Zenon DEF Reorg
    <2>3. reorgs' \in 0 .. MaxReorgs
      BY <2>2
    <2>4. blockNum' = b /\ UNCHANGED <<sent, expired, fin, db, reqs, linkVars, handlerVars, history,
                                       drops, restarts, faults, dbFaults>>
      BY <1>3, Zenon DEF Reorg
    <2>5. QED
      BY <2>1, <2>3, <2>4 DEF linkVars, handlerVars, history
  <1>4. ASSUME NEW t \in Tx, Drop(t) PROVE TypeOK'
    <2>1. txs' \in [Tx -> TxState]
      BY <1>4, TxStateType DEF Drop
    <2>2. drops < MaxDrops /\ drops' = drops + 1
      BY <1>4, Zenon DEF Drop
    <2>3. drops' \in 0 .. MaxDrops
      BY <2>2
    <2>4. UNCHANGED <<sent, expired, blockNum, fin, db, reqs, linkVars, handlerVars, history,
                      reorgs, restarts, faults, dbFaults>>
      BY <1>4, Zenon DEF Drop
    <2>5. QED
      BY <2>1, <2>3, <2>4 DEF linkVars, handlerVars, history
  <1>5. ASSUME Expire PROVE TypeOK'
    BY <1>5 DEF Expire, linkVars, handlerVars, history, budgets
  <1>6. ASSUME NEW t \in Tx, Propagate(t) PROVE TypeOK'
    <2>1. txs' \in [Tx -> TxState]
      BY <1>6, TxStateType DEF Propagate
    <2>2. UNCHANGED <<sent, expired, blockNum, fin, db, reqs, linkVars, handlerVars, history,
                      budgets>>
      BY <1>6, Zenon DEF Propagate
    <2>3. QED
      BY <2>1, <2>2 DEF linkVars, handlerVars, history, budgets
  <1>7. QED
    BY <1>1, <1>2, <1>3, <1>4, <1>5, <1>6 DEF Node

\* The calls of the link keep the types.
LEMMA LinkType == TypeOK /\ Link => TypeOK'
  <1> SUFFICES ASSUME TypeOK, Link PROVE TypeOK'
    OBVIOUS
  <1> USE SenderAssumption DEF TypeOK
  <1>1. ASSUME NEW id \in Ids, Relay(id) PROVE TypeOK'
    <2>0. sent < MaxTx /\ sent' = sent + 1 /\ cur' = sent + 1 /\ lpc' = "add"
      BY <1>1, Zenon DEF Relay
    <2>1. sent + 1 \in Tx
      BY <2>0 DEF Tx
    <2> DEFINE x == [txs[sent + 1] EXCEPT !.st = SentTo, !.id = id]
    <2>2. x \in TxState
      BY <2>1, TxStateType DEF SentTo
    <2>3. txs' = [txs EXCEPT ![sent + 1] = x]
      BY <1>1 DEF Relay
    <2>4. txs' \in [Tx -> TxState]
      BY <2>1, <2>2, <2>3
    <2>5. UNCHANGED <<expired, blockNum, fin, db, reqs, handlerVars, history, budgets>>
      BY <1>1, Zenon DEF Relay
    <2>6. QED
      BY <2>0, <2>1, <2>4, <2>5 DEF Tx, handlerVars, history, budgets
  <1>2. ASSUME AddRequest PROVE TypeOK'
    <2>1. cur \in Tx
      BY <1>2 DEF AddRequest, Tx
    <2>2. reqs' \in Seq(Tx)
      BY <1>2, <2>1, AppendProperties DEF AddRequest
    <2>3. QED
      BY <1>2, <2>2 DEF AddRequest, nodeVars, handlerVars, history, budgets
  <1>3. ASSUME PutLastTransaction PROVE TypeOK'
    BY <1>3 DEF PutLastTransaction, Tx, nodeVars, handlerVars, budgets
  <1>4. ASSUME PutFails PROVE TypeOK'
    BY <1>4 DEF PutFails, nodeVars, handlerVars, history
  <1>5. ASSUME UndoRequest PROVE TypeOK'
    <2>1. reqs' \in Seq(Tx)
      BY <1>5, RemoveRequestType DEF UndoRequest
    <2>2. QED
      BY <1>5, <2>1 DEF UndoRequest, nodeVars, handlerVars, history, budgets
  <1>6. ASSUME ReadLastTransaction \/ Wake \/ CallStatus PROVE TypeOK'
    BY <1>6 DEF ReadLastTransaction, Wake, CallStatus, nodeVars, handlerVars, history, budgets
  <1>7. QED
    BY <1>1, <1>2, <1>3, <1>4, <1>5, <1>6 DEF Link

\* The request that the handler looks at exists.
LEMMA CheckedIsTx ==
    ASSUME TypeOK, Checking
    PROVE  reqs[hi] \in Tx
  BY ElementOfSeq, LenProperties DEF TypeOK, Checking

\* A result about a transaction that was sent has its type.
LEMMA ResultType ==
  ASSUME NEW t \in Tx, NEW code \in Codes, NEW f \in BOOLEAN
  PROVE  [tx |-> t, code |-> code, final |-> f] \in Result /\ t # 0
  <1>1. t \in 0 .. MaxTx /\ t # 0
    BY SenderAssumption DEF Tx
  <1>2. QED
    BY <1>1 DEF Result

\* The steps of the handler keep the types.
LEMMA HandlerType == TypeOK /\ Handler => TypeOK'
  <1> SUFFICES ASSUME TypeOK, Handler PROVE TypeOK'
    OBVIOUS
  <1> USE SenderAssumption DEF TypeOK
  <1>1. ASSUME FinalityUpdate PROVE TypeOK'
    BY <1>1 DEF FinalityUpdate, nodeVars, linkVars, history, budgets
  <1>2. ASSUME EndCheck PROVE TypeOK'
    BY <1>2 DEF EndCheck, nodeVars, linkVars, history, budgets
  <1>3. ASSUME Checking, NEW code \in Codes, NEW f \in BOOLEAN, Send(reqs[hi], code, f),
               UNCHANGED <<reorgs, drops, restarts, dbFaults>>, faults' \in 0 .. MaxFaults
        PROVE  TypeOK'
    <2>1. reqs[hi] \in Tx
      BY <1>3, CheckedIsTx
    <2>2. res' \in Result /\ res'.tx # 0
      <3>1. res' = [tx |-> reqs[hi], code |-> code, final |-> f]
        BY <1>3, Zenon DEF Send
      <3>2. res'.tx = reqs[hi]
        BY <3>1, Zenon
      <3>3. QED
        BY <2>1, <3>1, <3>2, ResultType, Zenon
    <2>3. hpc' = "send" /\ UNCHANGED <<nodeVars, db, reqs, linkVars, to, hi, finished, history>>
      BY <1>3, Zenon DEF Send
    <2>4. QED
      BY <1>3, <2>2, <2>3 DEF nodeVars, linkVars, history
  <1>4. ASSUME CheckLost PROVE TypeOK'
    BY <1>3, <1>4 DEF CheckLost, Codes, budgets
  <1>5. ASSUME CheckFails PROVE TypeOK'
    <2>1. faults < MaxFaults /\ faults' = faults + 1
      BY <1>5, Zenon DEF CheckFails
    <2>2. faults' \in 0 .. MaxFaults
      BY <2>1
    <2>3. QED
      BY <1>3, <1>5, <2>2 DEF CheckFails, Codes
  <1>6. ASSUME CheckMined PROVE TypeOK'
    <2>1. PICK code \in CodesOf(reqs[hi]) : Send(reqs[hi], code, TRUE)
      BY <1>6 DEF CheckMined
    <2>2. code \in Codes
      BY DEF CodesOf, Codes
    <2>3. QED
      BY <1>3, <1>6, <2>1, <2>2 DEF CheckMined, budgets
  <1>7. ASSUME RevertPanics PROVE TypeOK'
    BY <1>7, ResetType DEF RevertPanics, budgets
  <1>8. ASSUME Deliver PROVE TypeOK'
    <2>1. res.tx \in Tx /\ res.code \in Codes /\ res.final \in BOOLEAN
      BY <1>8 DEF Deliver, Result, Tx
    <2>2. finished' \in Seq(Tx)
      BY <1>8, <2>1, AppendProperties DEF Deliver, FinishedWith
    <2>3. /\ final' \in [Tx -> Codes \cup {"none"}] /\ told' \subseteq Tx
          /\ hi' \in Nat \ {0} /\ hpc' \in {"check", "remove"}
      BY <1>8, <2>1 DEF Deliver
    <2>4. res' = NoResult /\ UNCHANGED <<nodeVars, db, reqs, linkVars, to, accepted, budgets>>
      BY <1>8, Zenon DEF Deliver
    <2>5. QED
      BY <2>2, <2>3, <2>4, NoResultType DEF nodeVars, linkVars, budgets
  <1>9. ASSUME RemoveFinished PROVE TypeOK'
    <2>1. finished' \in Seq(Tx)
      BY <1>9, HeadTailProperties DEF RemoveFinished
    <2>2. reqs' \in Seq(Tx)
      BY <1>9, RemoveRequestType DEF RemoveFinished
    <2>3. UNCHANGED <<nodeVars, db, linkVars, hpc, to, hi, res, history, budgets>>
      BY <1>9, Zenon DEF RemoveFinished
    <2>4. QED
      BY <2>1, <2>2, <2>3 DEF nodeVars, linkVars, history, budgets
  <1>10. ASSUME EndRemove PROVE TypeOK'
    BY <1>10 DEF EndRemove, nodeVars, linkVars, history, budgets
  <1>11. QED
    BY <1>1, <1>2, <1>4, <1>5, <1>6, <1>7, <1>8, <1>9, <1>10 DEF Handler

LEMMA NextTypeOK == TypeOK /\ [Next]_vars => TypeOK'
  <1> SUFFICES ASSUME TypeOK, [Next]_vars PROVE TypeOK'
    OBVIOUS
  <1>1. CASE Node
    BY <1>1, NodeType
  <1>2. CASE Link
    BY <1>2, LinkType
  <1>3. CASE Handler
    BY <1>3, HandlerType
  <1>4. CASE Restart
    <2>1. restarts' \in 0 .. MaxRestarts
      BY <1>4, SenderAssumption DEF Restart, TypeOK
    <2>2. QED
      BY <1>4, <2>1, ResetType DEF Restart
  <1>5. CASE UNCHANGED vars
    BY <1>5 DEF TypeOK, vars, nodeVars, linkVars, handlerVars, history, budgets
  <1>6. QED
    BY <1>1, <1>2, <1>3, <1>4, <1>5 DEF Next

\* The state of the sender is well formed in every reachable state: an index or
\* a transaction that the handler uses is one that exists (Relay, checkRelayResult).
THEOREM SenderTyped == Spec => []TypeOK
  BY InitTypeOK, NextTypeOK, PTL DEF Spec

------------------------------------------------------------------------------
(* Final results are true *)

\* The transaction is in a finalized block, and ended as the code says.
TrueResult(t, code) ==
    /\ txs[t].st = "mined" /\ txs[t].blk <= fin
    /\ txs[t].ok <=> code = "SUCCESS"

NothingUnsent == \A t \in Tx : t > sent => txs[t].st = "none"

\* FinalIsTrue is not inductive: it needs the block the handler compares with to
\* be final, the result on its way to be true, and a number that is not used yet
\* to be free.
FinalInv ==
    /\ to <= fin
    /\ NothingUnsent
    /\ FinalIsTrue
    /\ hpc = "send" /\ res.final => TrueResult(res.tx, res.code)

\* A transaction in a finalized block stays as it is, and the finalized block
\* only rises: what was true stays true.
Settles ==
    /\ fin <= fin'
    /\ \A t \in Tx : txs[t].st = "mined" /\ txs[t].blk <= fin => txs'[t] = txs[t]

\* What the steps below need of the types.
LEMMA Numbers ==
    ASSUME TypeOK
    PROVE  /\ fin \in Nat /\ to \in Nat /\ sent \in Nat
           /\ \A t \in Tx : t \in Nat /\ txs[t].blk \in Nat
           /\ hpc = "send" => res.tx \in Tx
  <1>1. fin \in Nat /\ to \in Nat /\ sent \in Nat
    BY SenderAssumption DEF TypeOK
  <1>2. ASSUME NEW t \in Tx PROVE t \in Nat /\ txs[t].blk \in Nat
    <2>1. txs[t] \in TxState
      BY DEF TypeOK
    <2>2. QED
      BY <2>1, SenderAssumption DEF TxState, Tx
  <1>3. hpc = "send" => res.tx \in Tx
    <2>1. res \in Result /\ (hpc = "send" => res.tx # 0)
      BY DEF TypeOK
    <2>2. QED
      BY <2>1, SenderAssumption DEF Result, Tx
  <1>4. QED
    BY <1>1, <1>2, <1>3

LEMMA TrueStays ==
    ASSUME TypeOK, Settles, fin' \in Nat, NEW t \in Tx, NEW code, TrueResult(t, code)
    PROVE  TrueResult(t, code)'
  BY Numbers DEF Settles, TrueResult

\* A step that gives no result and sends none keeps the invariant.
LEMMA FinalInvKept ==
    ASSUME TypeOK, FinalInv, TypeOK', Settles, NothingUnsent', to' <= fin', final' = final,
           hpc' # "send" \/ (hpc' = hpc /\ res' = res)
    PROVE  FinalInv'
  <1>1. fin' \in Nat
    BY SenderAssumption DEF TypeOK
  <1>2. FinalIsTrue'
    <2> SUFFICES ASSUME NEW t \in Tx, final[t] # "none" PROVE TrueResult(t, final[t])'
      BY DEF FinalIsTrue, TrueResult
    <2>1. TrueResult(t, final[t])
      BY DEF FinalInv, FinalIsTrue, TrueResult
    <2>2. QED
      BY <1>1, <2>1, TrueStays
  <1>3. hpc' = "send" /\ res'.final => TrueResult(res.tx, res.code)'
    <2> SUFFICES ASSUME hpc' = "send", res'.final PROVE TrueResult(res.tx, res.code)'
      OBVIOUS
    <2>1. hpc = "send" /\ res' = res
      OBVIOUS
    <2>2. TrueResult(res.tx, res.code)
      BY <2>1 DEF FinalInv
    <2>3. res.tx \in Tx
      BY <2>1, Numbers
    <2>4. QED
      BY <1>1, <2>1, <2>2, <2>3, TrueStays
  <1>4. QED
    BY <1>2, <1>3 DEF FinalInv

\* A step that leaves the node alone, gives no result and sends none.
LEMMA QuietKeepsFinal ==
    ASSUME TypeOK, FinalInv, TypeOK', UNCHANGED nodeVars, to' = to \/ to' = 0 \/ to' = fin,
           final' = final, hpc' # "send" \/ (hpc' = hpc /\ res' = res)
    PROVE  FinalInv'
  <1>1. Settles /\ NothingUnsent'
    BY DEF Settles, NothingUnsent, FinalInv, TypeOK, nodeVars
  <1>2. to' <= fin'
    BY SenderAssumption, SMTT(20) DEF FinalInv, TypeOK, nodeVars
  <1>3. QED
    BY <1>1, <1>2, FinalInvKept

LEMMA NodeFinal == TypeOK /\ FinalInv /\ TypeOK' /\ Node => FinalInv'
  <1> SUFFICES ASSUME TypeOK, FinalInv, TypeOK', Node PROVE FinalInv'
    OBVIOUS
  <1>0. fin \in Nat /\ to \in Nat /\ sent \in Nat /\ \A t \in Tx : t \in Nat /\ txs[t].blk \in Nat
    BY Numbers
  <1>1. UNCHANGED <<handlerVars, history>>
    BY DEF Node, Mine, Finalize, Reorg, Propagate, Drop, Expire
  <1>2. \A t \in Tx : t > sent => txs[t].st = "none"
    BY DEF FinalInv, NothingUnsent
  <1>3. Settles /\ NothingUnsent'
    <2>1. ASSUME NEW t \in Tx, NEW ok \in BOOLEAN, Mine(t, ok) PROVE Settles /\ NothingUnsent'
      <3>1. txs[t].st \in {"away", "pool"} /\ UNCHANGED <<sent, fin>>
        BY <2>1, Zenon DEF Mine, Unmined
      <3>2. \A u \in Tx : u # t => txs'[u] = txs[u]
        BY <2>1 DEF Mine, TypeOK
      <3>3. QED
        BY <1>0, <1>2, <3>1, <3>2 DEF Settles, NothingUnsent
    <2>2. ASSUME NEW b \in 1 .. MaxBlock, Finalize(b) PROVE Settles /\ NothingUnsent'
      BY <1>0, <1>2, <2>2 DEF Finalize, Settles, NothingUnsent
    <2>3. ASSUME NEW b \in 0 .. MaxBlock, Reorg(b) PROVE Settles /\ NothingUnsent'
      <3>1. fin <= b /\ UNCHANGED <<sent, fin>>
        BY <2>3, Zenon DEF Reorg
      <3>2. \A u \in Tx : ~(txs[u].st = "mined" /\ txs[u].blk > b) => txs'[u] = txs[u]
        BY <2>3, Zenon DEF Reorg
      <3>3. \A u \in Tx : txs[u].st = "mined" /\ txs[u].blk <= fin => txs'[u] = txs[u]
        BY <1>0, <3>1, <3>2
      <3>4. \A u \in Tx : txs[u].st = "none" => txs'[u] = txs[u]
        BY <3>2
      <3>5. QED
        BY <1>0, <1>2, <3>1, <3>3, <3>4 DEF Settles, NothingUnsent
    <2>4. ASSUME NEW t \in Tx, Drop(t) PROVE Settles /\ NothingUnsent'
      <3>1. txs[t].st \in {"away", "pool"} /\ UNCHANGED <<sent, fin>>
        BY <2>4, Zenon DEF Drop, Unmined
      <3>2. \A u \in Tx : u # t => txs'[u] = txs[u]
        BY <2>4 DEF Drop, TypeOK
      <3>3. QED
        BY <1>0, <1>2, <3>1, <3>2 DEF Settles, NothingUnsent
    <2>5. ASSUME Expire PROVE Settles /\ NothingUnsent'
      BY <1>0, <1>2, <2>5 DEF Expire, Settles, NothingUnsent
    <2>6. ASSUME NEW t \in Tx, Propagate(t) PROVE Settles /\ NothingUnsent'
      <3>1. txs[t].st = "away" /\ UNCHANGED <<sent, fin>>
        BY <2>6, Zenon DEF Propagate
      <3>2. \A u \in Tx : u # t => txs'[u] = txs[u]
        BY <2>6 DEF Propagate, TypeOK
      <3>3. QED
        BY <1>0, <1>2, <3>1, <3>2 DEF Settles, NothingUnsent
    <2>7. QED
      BY <2>1, <2>2, <2>3, <2>4, <2>5, <2>6 DEF Node
  <1>4. to' <= fin'
    <2>1. to' = to /\ to <= fin /\ fin <= fin' /\ fin' \in Nat
      BY <1>1, <1>3, SenderAssumption DEF FinalInv, Settles, TypeOK, handlerVars
    <2>2. QED
      BY <1>0, <2>1
  <1>5. QED
    BY <1>1, <1>3, <1>4, FinalInvKept DEF handlerVars, history

LEMMA LinkFinal == TypeOK /\ FinalInv /\ TypeOK' /\ Link => FinalInv'
  <1> SUFFICES ASSUME TypeOK, FinalInv, TypeOK', Link PROVE FinalInv'
    OBVIOUS
  <1>1. ASSUME NEW id \in Ids, Relay(id) PROVE FinalInv'
    <2>1. sent < MaxTx /\ sent' = sent + 1 /\ UNCHANGED <<fin, handlerVars, history>>
      BY <1>1, Zenon DEF Relay
    <2>2. \A u \in Tx : u # sent + 1 => txs'[u] = txs[u]
      BY <1>1 DEF Relay, TypeOK
    <2>3. \A u \in Tx : u > sent => txs[u].st = "none"
      BY DEF FinalInv, NothingUnsent
    <2>4. Settles
      BY <2>1, <2>2, <2>3, Numbers DEF Settles
    <2>5. NothingUnsent'
      BY <2>1, <2>2, <2>3, Numbers DEF NothingUnsent
    <2>6. QED
      BY <2>1, <2>4, <2>5, FinalInvKept DEF FinalInv, handlerVars, history
  <1>2. ASSUME UNCHANGED <<nodeVars, handlerVars, final>> PROVE FinalInv'
    BY <1>2, QuietKeepsFinal DEF handlerVars
  <1>3. QED
    BY <1>1, <1>2 DEF Link, AddRequest, PutLastTransaction, PutFails, UndoRequest,
                      ReadLastTransaction, Wake, CallStatus, history

LEMMA HandlerFinal == TypeOK /\ FinalInv /\ TypeOK' /\ Handler => FinalInv'
  <1> SUFFICES ASSUME TypeOK, FinalInv, TypeOK', Handler PROVE FinalInv'
    OBVIOUS
  <1>1. ASSUME FinalityUpdate \/ EndCheck \/ RemoveFinished \/ EndRemove PROVE FinalInv'
    BY <1>1, QuietKeepsFinal
       DEF FinalityUpdate, EndCheck, RemoveFinished, EndRemove, history
  <1>2. ASSUME NEW t, NEW code, NEW f, Send(t, code, f), f => TrueResult(t, code)
        PROVE  FinalInv'
    <2>1. res' = [tx |-> t, code |-> code, final |-> f] /\ UNCHANGED <<nodeVars, to, final>>
      BY <1>2, Zenon DEF Send, history
    <2>2. res'.final => TrueResult(res.tx, res.code)'
      BY <1>2, <2>1 DEF TrueResult, nodeVars
    <2>3. (to <= fin /\ NothingUnsent /\ FinalIsTrue)'
      BY <2>1 DEF FinalInv, NothingUnsent, FinalIsTrue, nodeVars
    <2>4. QED
      BY <2>2, <2>3 DEF FinalInv
  <1>3. ASSUME CheckLost \/ CheckFails PROVE FinalInv'
    BY <1>2, <1>3 DEF CheckLost, CheckFails
  <1>4. ASSUME CheckMined PROVE FinalInv'
    <2>1. PICK code \in CodesOf(reqs[hi]) : Send(reqs[hi], code, TRUE)
      BY <1>4 DEF CheckMined
    <2>2. reqs[hi] \in Tx /\ Settled(reqs[hi])
      BY <1>4, CheckedIsTx DEF CheckMined
    <2>3. txs[reqs[hi]].ok <=> code = "SUCCESS"
      BY <2>1 DEF CodesOf
    <2>4. txs[reqs[hi]].blk <= fin
      BY <2>2, Numbers DEF Settled, FinalInv
    <2>5. QED
      BY <1>2, <2>1, <2>2, <2>3, <2>4 DEF TrueResult, Settled
  <1>5. ASSUME RevertPanics PROVE FinalInv'
    BY <1>5, QuietKeepsFinal DEF RevertPanics, Reset
  <1>6. ASSUME Deliver PROVE FinalInv'
    <2>1. hpc = "send" /\ hpc' # "send" /\ UNCHANGED <<nodeVars, to>>
      BY <1>6 DEF Deliver
    <2>2. \A t \in Tx : final'[t] # "none" => TrueResult(t, final'[t])
      <3> SUFFICES ASSUME NEW t \in Tx, final'[t] # "none" PROVE TrueResult(t, final'[t])
        OBVIOUS
      <3>1. CASE final'[t] = final[t]
        BY <3>1 DEF FinalInv, FinalIsTrue, TrueResult
      <3>2. CASE final'[t] # final[t]
        <4>1. res.final /\ t = res.tx /\ final'[t] = res.code
          BY <1>6, <3>2 DEF Deliver, TypeOK
        <4>2. QED
          BY <2>1, <4>1 DEF FinalInv
      <3>3. QED
        BY <3>1, <3>2
    <2>3. (to <= fin /\ NothingUnsent /\ FinalIsTrue)'
      BY <2>1, <2>2 DEF FinalInv, NothingUnsent, FinalIsTrue, TrueResult, nodeVars
    <2>4. QED
      BY <2>1, <2>3 DEF FinalInv
  <1>7. QED
    BY <1>1, <1>3, <1>4, <1>5, <1>6 DEF Handler

LEMMA NextFinal == TypeOK /\ FinalInv /\ TypeOK' /\ [Next]_vars => FinalInv'
  <1> SUFFICES ASSUME TypeOK, FinalInv, TypeOK', [Next]_vars PROVE FinalInv'
    OBVIOUS
  <1>1. CASE Restart
    BY <1>1, QuietKeepsFinal DEF Restart, Reset
  <1>2. CASE UNCHANGED vars
    BY <1>2, QuietKeepsFinal DEF vars, handlerVars, history
  <1>3. QED
    BY <1>1, <1>2, NodeFinal, LinkFinal, HandlerFinal DEF Next

\* A final result the handler gave stays true for ever: its transaction is in a
\* finalized block and succeeded exactly if the result says so, whatever is
\* reorganised, forgotten or restarted (_checkRelayResult).
THEOREM FinalResultsAreTrue == Spec => []FinalIsTrue
  <1>1. Init => FinalInv
    BY SenderAssumption
       DEF Init, FinalInv, NothingUnsent, FinalIsTrue, NotSent, NoResult, Tx
  <1>2. FinalInv => FinalIsTrue
    BY DEF FinalInv
  <1>3. Spec => [](TypeOK /\ FinalInv)
    BY <1>1, InitTypeOK, NextTypeOK, NextFinal, PTL DEF Spec
  <1>4. QED
    BY <1>2, <1>3, PTL

------------------------------------------------------------------------------
(* The status is read when nothing is on its way *)

\* The last transaction in the database and the one that Relay is at were sent.
SentInv ==
    /\ db <= sent
    /\ cur <= sent
    /\ \A t \in Tx : t <= sent => txs[t].st # "none"

\* Transactions are mined in the order of their nonces, as long as no block is orphaned.
MinedInOrder == \A t, u \in Tx : u < t /\ txs[t].st = "mined" => ~Unmined(u)

NothingOnItsWay == \A t \in Tx : t <= db /\ Unmined(t) => Expired(t)

\* StatusSettled is about the last transaction in the database, and follows for
\* the earlier ones from the order of the nonces.
StatusInv ==
    /\ SentInv
    /\ reorgs = 0 => MinedInOrder
    /\ reorgs = 0 /\ lpc = "call" => NothingOnItsWay

LEMMA StatusNumbers ==
    ASSUME TypeOK
    PROVE  /\ sent \in Nat /\ db \in Nat /\ cur \in Nat /\ expired \in Nat /\ reorgs \in Nat
           /\ \A t \in Tx : t \in Nat /\ t >= 1
           /\ \A t \in Tx : txs[t].st \in {"none", "away", "pool", "mined", "gone"}
  <1>1. /\ sent \in Nat /\ db \in Nat /\ cur \in Nat /\ expired \in Nat /\ reorgs \in Nat
        /\ \A t \in Tx : t \in Nat /\ t >= 1
    BY SenderAssumption DEF TypeOK, Tx
  <1>2. ASSUME NEW t \in Tx PROVE txs[t].st \in {"none", "away", "pool", "mined", "gone"}
    <2>1. txs[t] \in TxState
      BY DEF TypeOK
    <2>2. QED
      BY <2>1 DEF TxState
  <1>3. QED
    BY <1>1, <1>2

\* A step that brings no transaction on its way, mines none, and leaves the link alone.
LEMMA SettlesStatus ==
    ASSUME TypeOK, StatusInv, TypeOK', UNCHANGED <<sent, db, linkVars, reorgs>>, expired <= expired',
           \A t \in Tx : /\ Unmined(t)' => Unmined(t)
                         /\ txs'[t].st = "mined" => txs[t].st = "mined"
                         /\ txs'[t].st = "none" => txs[t].st = "none"
    PROVE  StatusInv'
  <1> USE StatusNumbers
  <1>1. SentInv'
    BY DEF StatusInv, SentInv, linkVars
  <1>2. reorgs' = 0 => MinedInOrder'
    BY DEF StatusInv, MinedInOrder
  <1>3. ASSUME reorgs' = 0, lpc' = "call" PROVE NothingOnItsWay'
    <2>1. NothingOnItsWay
      BY <1>3 DEF StatusInv, linkVars
    <2>2. expired' \in Nat
      BY SenderAssumption DEF TypeOK
    <2>3. QED
      BY <2>1, <2>2 DEF NothingOnItsWay, Expired
  <1>4. QED
    BY <1>1, <1>2, <1>3 DEF StatusInv

LEMMA NodeStatus == TypeOK /\ StatusInv /\ TypeOK' /\ Node => StatusInv'
  <1> SUFFICES ASSUME TypeOK, StatusInv, TypeOK', Node PROVE StatusInv'
    OBVIOUS
  <1> USE StatusNumbers
  <1>1. ASSUME NEW t \in Tx, NEW ok \in BOOLEAN, Mine(t, ok) PROVE StatusInv'
    <2>1. /\ Unmined(t) /\ \A u \in 1 .. t - 1 : ~Unmined(u)
          /\ UNCHANGED <<sent, expired, db, linkVars, reorgs>>
      BY <1>1, Zenon DEF Mine, budgets
    <2>2. \A u \in Tx : u # t => txs'[u] = txs[u]
      BY <1>1 DEF Mine, TypeOK
    <2>3. txs'[t].st = "mined"
      <3>1. txs[t] \in TxState /\ txs \in [Tx -> TxState]
        BY DEF TypeOK
      <3>2. txs'[t] = [txs[t] EXCEPT !.st = "mined", !.blk = blockNum + 1, !.ok = ok]
        BY <1>1, <3>1 DEF Mine
      <3>3. QED
        BY <3>1, <3>2 DEF TxState
    <2>4. \A u \in Tx : Unmined(u)' => Unmined(u) /\ u # t
      BY <2>2, <2>3 DEF Unmined
    <2>5. SentInv'
      BY <2>1, <2>2, <2>3 DEF StatusInv, SentInv, linkVars
    <2>6. ASSUME reorgs' = 0 PROVE MinedInOrder'
      <3> SUFFICES ASSUME NEW v \in Tx, NEW u \in Tx, u < v, txs'[v].st = "mined", Unmined(u)'
                   PROVE  FALSE
        BY DEF MinedInOrder
      <3>1. Unmined(u) /\ u # t
        BY <2>4
      <3>2. CASE v = t
        <4>1. u \in 1 .. t - 1
          BY <3>2
        <4>2. QED
          BY <2>1, <3>1, <4>1
      <3>3. CASE v # t
        BY <1>1, <2>1, <2>2, <2>6, <3>1, <3>3 DEF StatusInv, MinedInOrder
      <3>4. QED
        BY <3>2, <3>3
    <2>7. ASSUME reorgs' = 0, lpc' = "call" PROVE NothingOnItsWay'
      BY <2>1, <2>4, <2>7 DEF StatusInv, NothingOnItsWay, Expired, linkVars
    <2>8. QED
      BY <2>5, <2>6, <2>7 DEF StatusInv
  <1>2. ASSUME NEW b \in 1 .. MaxBlock, Finalize(b) PROVE StatusInv'
    BY <1>2, SettlesStatus DEF Finalize, Unmined, budgets
  <1>3. ASSUME NEW b \in 0 .. MaxBlock, Reorg(b) PROVE StatusInv'
    <2>1. reorgs' = reorgs + 1 /\ UNCHANGED <<sent, db, linkVars>>
      BY <1>3, Zenon DEF Reorg
    <2>2. \A t \in Tx : txs'[t].st = "none" => txs[t].st = "none"
      <3> SUFFICES ASSUME NEW t \in Tx PROVE txs'[t].st = "none" => txs[t].st = "none"
        OBVIOUS
      <3>1. txs'[t] = txs[t] \/ txs'[t] = [txs[t] EXCEPT !.st = "pool"]
        BY <1>3, Zenon DEF Reorg
      <3>2. txs[t] \in TxState
        BY DEF TypeOK
      <3>3. [txs[t] EXCEPT !.st = "pool"].st = "pool"
        BY <3>2 DEF TxState
      <3>4. QED
        BY <3>1, <3>3
    <2>3. SentInv'
      BY <2>1, <2>2 DEF StatusInv, SentInv, linkVars
    <2>4. QED
      BY <2>1, <2>3 DEF StatusInv
  <1>4. ASSUME NEW t \in Tx, NEW st \in {"pool", "gone"}, Unmined(t), txs' = [txs EXCEPT ![t].st = st],
               UNCHANGED <<sent, expired, db, linkVars, reorgs>>
        PROVE  StatusInv'
    <2>1. \A u \in Tx : u # t => txs'[u] = txs[u]
      BY <1>4 DEF TypeOK
    <2>2. txs'[t].st = st
      <3>1. txs[t] \in TxState /\ txs \in [Tx -> TxState]
        BY DEF TypeOK
      <3>2. txs'[t] = [txs[t] EXCEPT !.st = st]
        BY <1>4, <3>1
      <3>3. QED
        BY <3>1, <3>2 DEF TxState
    <2>3. \A u \in Tx : /\ Unmined(u)' => Unmined(u)
                        /\ txs'[u].st = "mined" => txs[u].st = "mined"
                        /\ txs'[u].st = "none" => txs[u].st = "none"
      BY <1>4, <2>1, <2>2 DEF Unmined
    <2>4. QED
      BY <1>4, <2>3, SettlesStatus
  <1>5. ASSUME Expire PROVE StatusInv'
    BY <1>5, SettlesStatus DEF Expire, Unmined, budgets
  <1>6. QED
    BY <1>1, <1>2, <1>3, <1>4, <1>5 DEF Node, Propagate, Drop, Unmined, budgets

LEMMA LinkStatus == TypeOK /\ StatusInv /\ NothingUnsent /\ TypeOK' /\ Link => StatusInv'
  <1> SUFFICES ASSUME TypeOK, StatusInv, NothingUnsent, TypeOK', Link PROVE StatusInv'
    OBVIOUS
  <1> USE StatusNumbers
  <1>1. ASSUME NEW id \in Ids, Relay(id) PROVE StatusInv'
    <2>1. /\ sent < MaxTx /\ sent' = sent + 1 /\ cur' = sent + 1 /\ lpc' = "add"
          /\ UNCHANGED <<db, reorgs>>
      BY <1>1, Zenon DEF Relay, budgets
    <2>2. sent + 1 \in Tx
      BY <2>1, SenderAssumption DEF Tx
    <2>3. \A u \in Tx : u # sent + 1 => txs'[u] = txs[u]
      BY <1>1 DEF Relay, TypeOK
    <2>4. txs'[sent + 1].st = SentTo
      <3>1. txs' = [txs EXCEPT ![sent + 1].st = SentTo, ![sent + 1].id = id]
        BY <1>1, Zenon DEF Relay
      <3>2. txs[sent + 1] \in TxState /\ txs \in [Tx -> TxState]
        BY <2>2 DEF TypeOK
      <3>3. txs'[sent + 1] = [txs[sent + 1] EXCEPT !.st = SentTo, !.id = id]
        BY <2>2, <3>1, <3>2
      <3>4. QED
        BY <3>2, <3>3 DEF TxState
    <2>5. SentTo \in {"away", "pool"}
      BY DEF SentTo
    <2>6. SentInv'
      BY <2>1, <2>3, <2>4, <2>5 DEF StatusInv, SentInv
    <2>7. ASSUME reorgs' = 0 PROVE MinedInOrder'
      <3> SUFFICES ASSUME NEW v \in Tx, NEW u \in Tx, u < v, txs'[v].st = "mined", Unmined(u)'
                   PROVE  FALSE
        BY DEF MinedInOrder
      <3>1. v # sent + 1 /\ txs[v].st = "mined"
        BY <2>3, <2>4, <2>5
      <3>2. v <= sent
        BY <3>1 DEF NothingUnsent
      <3>3. u # sent + 1 /\ Unmined(u)
        BY <2>3, <3>2 DEF Unmined
      <3>4. QED
        BY <2>1, <2>7, <3>1, <3>3 DEF StatusInv, MinedInOrder
    <2>8. QED
      BY <2>1, <2>6, <2>7 DEF StatusInv
  <1>2. ASSUME UNCHANGED <<nodeVars, reorgs>>, db' \in {db, cur}, cur' \in {cur, 0},
               lpc' = "call" => lpc = "sleep" /\ Expired(db) /\ db' = db
        PROVE  StatusInv'
    <2>1. SentInv' /\ (reorgs' = 0 => MinedInOrder')
      BY <1>2 DEF StatusInv, SentInv, MinedInOrder, Unmined, nodeVars
    <2>2. lpc' = "call" => NothingOnItsWay'
      BY <1>2 DEF NothingOnItsWay, Expired, Unmined, nodeVars
    <2>3. QED
      BY <2>1, <2>2 DEF StatusInv
  <1>3. ASSUME AddRequest \/ PutLastTransaction \/ PutFails \/ UndoRequest \/ Wake \/ CallStatus
        PROVE  StatusInv'
    BY <1>2, <1>3 DEF AddRequest, PutLastTransaction, PutFails, UndoRequest, Wake, CallStatus, budgets
  <1>4. ASSUME ReadLastTransaction PROVE StatusInv'
    <2>1. /\ db # 0 => Known(db) /\ (InFlight(db) \/ lpc' = "call")
          /\ lpc' = "call" => db = 0 \/ ~InFlight(db)
          /\ UNCHANGED <<nodeVars, db, cur, reorgs>>
      BY <1>4 DEF ReadLastTransaction, budgets
    <2>2. SentInv' /\ (reorgs' = 0 => MinedInOrder')
      BY <2>1 DEF StatusInv, SentInv, MinedInOrder, Unmined, nodeVars
    <2>3. ASSUME reorgs = 0, lpc' = "call", NEW t \in Tx, t <= db, Unmined(t) PROVE Expired(t)
      <3>1. db # 0 /\ db \in Tx
        <4>1. db \in 0 .. MaxTx /\ t \in 1 .. MaxTx
          BY DEF TypeOK, Tx
        <4>2. db # 0
          BY <2>3, <4>1
        <4>3. QED
          BY <4>1, <4>2, SenderAssumption DEF Tx
      <3>2. txs[db].st \in {"pool", "mined"}
        BY <2>1, <3>1 DEF Known, StatusInv, SentInv
      <3>3. CASE txs[db].st = "pool"
        BY <2>1, <2>3, <3>1, <3>3 DEF InFlight, Expired
      <3>4. CASE txs[db].st = "mined"
        BY <2>3, <3>1, <3>4 DEF StatusInv, MinedInOrder, Unmined
      <3>5. QED
        BY <3>2, <3>3, <3>4
    <2>4. reorgs' = 0 /\ lpc' = "call" => NothingOnItsWay'
      BY <2>1, <2>3 DEF NothingOnItsWay, Unmined, Expired, nodeVars
    <2>5. QED
      BY <2>2, <2>4 DEF StatusInv
  <1>5. QED
    BY <1>1, <1>3, <1>4 DEF Link

LEMMA NextStatus == TypeOK /\ StatusInv /\ NothingUnsent /\ TypeOK' /\ [Next]_vars => StatusInv'
  <1> SUFFICES ASSUME TypeOK, StatusInv, NothingUnsent, TypeOK', [Next]_vars PROVE StatusInv'
    OBVIOUS
  <1>1. ASSUME UNCHANGED <<nodeVars, db, reorgs>>, lpc' \in {lpc, "boot"}, cur' \in {cur, 0}
        PROVE  StatusInv'
    BY <1>1, StatusNumbers
       DEF StatusInv, SentInv, MinedInOrder, NothingOnItsWay, Unmined, Expired, nodeVars
  <1>2. CASE Handler
    <2>1. CASE RevertPanics
      <3>1. lpc' = "boot" /\ cur' = 0 /\ UNCHANGED <<nodeVars, db, reorgs>>
        BY <2>1 DEF RevertPanics, Reset, budgets
      <3>2. QED
        BY <1>1, <3>1
    <2>2. CASE ~RevertPanics
      <3>1. UNCHANGED <<nodeVars, db, reorgs>> /\ lpc' = lpc /\ cur' = cur
        BY <1>2, <2>2 DEF Handler, FinalityUpdate, EndCheck, CheckLost, CheckFails, CheckMined,
                          Send, Deliver, RemoveFinished, EndRemove, linkVars, budgets
      <3>2. QED
        BY <1>1, <3>1
    <2>3. QED
      BY <2>1, <2>2
  <1>3. CASE Restart
    <2>1. lpc' = "boot" /\ cur' = 0 /\ UNCHANGED <<nodeVars, db, reorgs>>
      BY <1>3 DEF Restart, Reset
    <2>2. QED
      BY <1>1, <2>1
  <1>4. CASE UNCHANGED vars
    <2>1. UNCHANGED <<nodeVars, db, reorgs>> /\ lpc' = lpc /\ cur' = cur
      BY <1>4 DEF vars, linkVars, budgets
    <2>2. QED
      BY <1>1, <2>1
  <1>5. QED
    BY <1>2, <1>3, <1>4, NodeStatus, LinkStatus DEF Next

\* When GetStatus reads the status, no transaction up to the one in the database is
\* on its way or in flight, as long as no block was orphaned: it looks at that one
\* only, and waits until it expires (GetStatus).
THEOREM StatusIsSettled == Spec => StatusSettled
  <1>1. Init => FinalInv /\ StatusInv
    BY SenderAssumption
       DEF Init, FinalInv, NothingUnsent, FinalIsTrue, NotSent, NoResult, Tx,
           StatusInv, SentInv, MinedInOrder
  <1>2. TypeOK /\ FinalInv /\ StatusInv /\ TypeOK' /\ [Next]_vars => FinalInv' /\ StatusInv'
    BY NextFinal, NextStatus DEF FinalInv
  <1>3. TypeOK /\ StatusInv => (CallStatus /\ reorgs = 0 => \A t \in 1 .. db : Unmined(t) => Expired(t))
    <2> SUFFICES ASSUME TypeOK, StatusInv, CallStatus, reorgs = 0, NEW t \in 1 .. db, Unmined(t)
                 PROVE  Expired(t)
      OBVIOUS
    <2>1. t \in Tx /\ t <= db
      BY SenderAssumption DEF TypeOK, Tx
    <2>2. QED
      BY <2>1 DEF StatusInv, NothingOnItsWay, CallStatus
  <1>4. Spec => [](TypeOK /\ FinalInv /\ StatusInv)
    BY <1>1, <1>2, InitTypeOK, NextTypeOK, PTL DEF Spec
  <1>5. QED
    BY <1>3, <1>4, PTL DEF Spec, StatusSettled
=============================================================================
