------------------------------- MODULE Sender -------------------------------
(***************************************************************************)
(* The sender of chain/eth2/sender.go: it sends relay messages to the BMC  *)
(* of the destination as transactions, remembers them as requests, and on  *)
(* every finality update tells the link the result of the requests that    *)
(* are in a finalized block.  The last transaction is kept in a database,  *)
(* for which GetStatus waits.                                              *)
(*                                                                         *)
(* Two goroutines share reqs under a read-write lock: the link's, which    *)
(* relays and asks for the status, and the event handler's, which keeps    *)
(* the read lock while it hands results to the link through a channel      *)
(* that has no buffer.                                                     *)
(*                                                                         *)
(* Transactions are numbered in the order they were sent.  The execution   *)
(* node, its blocks and their finalization are external.                   *)
(***************************************************************************)
EXTENDS Integers, Sequences

CONSTANTS
    MaxTx,        \* bound: transactions
    MaxBlock,     \* bound: blocks
    Ids,          \* ids of relay messages
    ReuseIds,     \* the link relays a message again under its id
    TxEndpoint,   \* transactions are sent through an endpoint of their own
    MaxReorgs, MaxDrops,  \* bounds: reorganisations, transactions the node forgets
    MaxRestarts,  \* bound: crashes, each followed by a restart
    MaxFaults,    \* bound: RPC calls that fail
    MaxDbFaults   \* bound: writes of the last transaction that fail

ASSUME SenderAssumption ==
    /\ MaxTx \in Nat /\ MaxBlock \in Nat
    /\ ReuseIds \in BOOLEAN /\ TxEndpoint \in BOOLEAN
    /\ MaxReorgs \in Nat /\ MaxDrops \in Nat
    /\ MaxRestarts \in Nat /\ MaxFaults \in Nat /\ MaxDbFaults \in Nat

VARIABLES
    txs,       \* state of each transaction at the node
    sent,      \* transactions sent so far
    expired,   \* transactions 1 .. expired are past their ExpireTS
    blockNum,  \* the newest block
    fin,       \* the newest finalized block
    db,        \* last_tx in the database, 0 if none
    reqs,      \* s.reqs, a sequence of transactions
    lpc, cur,  \* the link's goroutine: position, transaction it relays
    hpc, to, hi, res, finished,  \* _checkRelayResult: position and locals
    accepted,  \* history: transactions Relay returned without error, since the start
    told,      \* history: requests given a result that is not final, since the start
    final,     \* history: the final result given for each transaction
    reorgs, drops, restarts, faults, dbFaults

nodeVars == <<txs, sent, expired, blockNum, fin>>
linkVars == <<lpc, cur>>
handlerVars == <<hpc, to, hi, res, finished>>
history == <<accepted, told, final>>
budgets == <<reorgs, drops, restarts, faults, dbFaults>>

vars == <<nodeVars, db, reqs, linkVars, handlerVars, history, budgets>>

------------------------------------------------------------------------------
Tx == 1 .. MaxTx

Codes == {"SUCCESS", "REVERT", "UNKNOWN"}

\* "away" is a transaction that the node which is read does not know yet.
TxState == [st : {"none", "away", "pool", "mined", "gone"}, id : Ids \cup {"none"},
             blk : 0 .. MaxBlock, ok : BOOLEAN]

\* A RelayResult about a transaction's request.
Result == [tx : 0 .. MaxTx, code : Codes, final : BOOLEAN]

NoResult == [tx |-> 0, code |-> "UNKNOWN", final |-> FALSE]

NotSent == [st |-> "none", id |-> "none", blk |-> 0, ok |-> FALSE]

Expired(t) == t <= expired

\* TransactionByHash finds the transaction.
Known(t) == txs[t].st \notin {"away", "gone"}

Unmined(t) == txs[t].st \in {"away", "pool"}

\* Slip: the lock is not given up when the loop ends after a lost request.
ReadLockKept == hpc \in {"check", "send"} \/ told # {}

\* The read lock is held from the first request looked at to the last.
ReadLocked == hpc \in {"check", "send"}

\* removeRequest: the first request with the id goes.
First(rs, id) == {i \in DOMAIN rs : txs[rs[i]].id = id /\ \A j \in 1 .. i - 1 : txs[rs[j]].id # id}

Without(rs, i) == SubSeq(rs, 1, i - 1) \o SubSeq(rs, i + 1, Len(rs))

\* Slip: the shorter slice is not stored.
RemoveNothing(id) == reqs' = reqs

RemoveRequest(id) ==
    \/ First(reqs, id) = {} /\ reqs' = reqs
    \/ \E i \in First(reqs, id) : reqs' = Without(reqs, i)

Init ==
    /\ txs = [t \in Tx |-> NotSent]
    /\ sent = 0 /\ expired = 0 /\ blockNum = 0 /\ fin = 0
    /\ db = 0
    /\ reqs = <<>>
    /\ lpc = "boot" /\ cur = 0
    /\ hpc = "idle" /\ to = 0 /\ hi = 1 /\ res = NoResult /\ finished = <<>>
    /\ accepted = {} /\ told = {} /\ final = [t \in Tx |-> "none"]
    /\ reorgs = 0 /\ drops = 0 /\ restarts = 0 /\ faults = 0 /\ dbFaults = 0

\* The process ends: what is not in the database is lost.
Reset ==
    /\ reqs' = <<>>
    /\ lpc' = "boot" /\ cur' = 0
    /\ hpc' = "idle" /\ to' = 0 /\ hi' = 1 /\ res' = NoResult /\ finished' = <<>>
    /\ accepted' = {} /\ told' = {}

Restart ==
    /\ restarts < MaxRestarts
    /\ restarts' = restarts + 1
    /\ Reset
    /\ UNCHANGED <<nodeVars, db, final, reorgs, drops, faults, dbFaults>>

------------------------------------------------------------------------------
(* The node, external *)

\* A block with transaction t: transactions are mined in the order of their nonces.
Mine(t, ok) ==
    /\ blockNum < MaxBlock
    /\ Unmined(t) /\ \A u \in 1 .. t - 1 : ~Unmined(u)
    /\ blockNum' = blockNum + 1
    /\ txs' = [txs EXCEPT ![t].st = "mined", ![t].blk = blockNum + 1, ![t].ok = ok]
    /\ UNCHANGED <<sent, expired, fin, db, reqs, linkVars, handlerVars, history, budgets>>

Finalize(b) ==
    /\ fin < b /\ b <= blockNum
    /\ fin' = b
    /\ UNCHANGED <<txs, sent, expired, blockNum, db, reqs, linkVars, handlerVars, history, budgets>>

\* The blocks above b are orphaned and their transactions pending again.
Reorg(b) ==
    /\ reorgs < MaxReorgs
    /\ fin <= b /\ b < blockNum
    /\ reorgs' = reorgs + 1
    /\ blockNum' = b
    /\ txs' = [t \in Tx |-> IF txs[t].st = "mined" /\ txs[t].blk > b
                            THEN [txs[t] EXCEPT !.st = "pool"] ELSE txs[t]]
    /\ UNCHANGED <<sent, expired, fin, db, reqs, linkVars, handlerVars, history,
                   drops, restarts, faults, dbFaults>>

\* A transaction sent through the other endpoint reaches the node.
Propagate(t) ==
    /\ txs[t].st = "away"
    /\ txs' = [txs EXCEPT ![t].st = "pool"]
    /\ UNCHANGED <<sent, expired, blockNum, fin, db, reqs, linkVars, handlerVars, history, budgets>>

\* The network forgets a pending transaction.
Drop(t) ==
    /\ drops < MaxDrops
    /\ Unmined(t)
    /\ drops' = drops + 1
    /\ txs' = [txs EXCEPT ![t].st = "gone"]
    /\ UNCHANGED <<sent, expired, blockNum, fin, db, reqs, linkVars, handlerVars, history,
                   reorgs, restarts, faults, dbFaults>>

\* txExpireDuration passes since the next transaction was sent.
Expire ==
    /\ expired < sent
    /\ expired' = expired + 1
    /\ UNCHANGED <<txs, sent, blockNum, fin, db, reqs, linkVars, handlerVars, history, budgets>>

------------------------------------------------------------------------------
(* Relay *)

\* HandleRelayMessage sends through txBmc, if there is one.
SentTo == IF TxEndpoint THEN "away" ELSE "pool"

\* The transaction is sent; an error of relay changes nothing.
Relay(id) ==
    /\ lpc = "idle"
    /\ sent < MaxTx
    /\ ReuseIds \/ \A t \in 1 .. sent : txs[t].id # id
    /\ sent' = sent + 1
    /\ txs' = [txs EXCEPT ![sent + 1].st = SentTo, ![sent + 1].id = id]
    /\ cur' = sent + 1
    /\ lpc' = "add"
    /\ UNCHANGED <<expired, blockNum, fin, db, reqs, handlerVars, history, budgets>>

\* Slip: the newest request goes first.
AddRequestFirst ==
    /\ lpc = "add" /\ ~ReadLocked
    /\ reqs' = <<cur>> \o reqs
    /\ lpc' = "put"
    /\ UNCHANGED <<nodeVars, db, cur, handlerVars, history, budgets>>

AddRequest ==
    /\ lpc = "add" /\ ~ReadLocked
    /\ reqs' = Append(reqs, cur)
    /\ lpc' = "put"
    /\ UNCHANGED <<nodeVars, db, cur, handlerVars, history, budgets>>

PutLastTransaction ==
    /\ lpc = "put"
    /\ db' = cur
    /\ accepted' = accepted \cup {cur}
    /\ lpc' = "idle" /\ cur' = 0
    /\ UNCHANGED <<nodeVars, reqs, handlerVars, told, final, budgets>>

PutFails ==
    /\ lpc = "put"
    /\ dbFaults < MaxDbFaults
    /\ dbFaults' = dbFaults + 1
    /\ lpc' = "undo"
    /\ UNCHANGED <<nodeVars, db, reqs, cur, handlerVars, history, reorgs, drops, restarts, faults>>

\* Relay removes the request it added, and returns the error.
UndoRequest ==
    /\ lpc = "undo" /\ ~ReadLocked
    /\ RemoveRequest(txs[cur].id)
    /\ lpc' = "idle" /\ cur' = 0
    /\ UNCHANGED <<nodeVars, db, handlerVars, history, budgets>>

------------------------------------------------------------------------------
(* GetStatus; the link asks for it before it relays anything *)

InFlight(t) == txs[t].st = "pool" /\ ~Expired(t)

\* Slip: an unknown last transaction is taken for one that is not pending.
ReadUnknownAsSettled ==
    /\ lpc \in {"boot", "idle"}
    /\ lpc' = IF db # 0 /\ InFlight(db) THEN "sleep" ELSE "call"
    /\ UNCHANGED <<nodeVars, db, reqs, cur, handlerVars, history, budgets>>

\* An unknown last transaction is an error, which changes nothing.
ReadLastTransaction ==
    /\ lpc \in {"boot", "idle"}
    /\ db # 0 => Known(db)
    /\ lpc' = IF db # 0 /\ InFlight(db) THEN "sleep" ELSE "call"
    /\ UNCHANGED <<nodeVars, db, reqs, cur, handlerVars, history, budgets>>

\* Slip: the sleep may end at any time.
WakeEarly ==
    /\ lpc = "sleep"
    /\ lpc' = "call"
    /\ UNCHANGED <<nodeVars, db, reqs, cur, handlerVars, history, budgets>>

\* The sleep ends when the transaction expires, whatever became of it.
Wake ==
    /\ lpc = "sleep" /\ Expired(db)
    /\ lpc' = "call"
    /\ UNCHANGED <<nodeVars, db, reqs, cur, handlerVars, history, budgets>>

CallStatus ==
    /\ lpc = "call"
    /\ lpc' = "idle"
    /\ UNCHANGED <<nodeVars, db, reqs, cur, handlerVars, history, budgets>>

------------------------------------------------------------------------------
(* checkRelayResult *)

\* A finality update with the number of the finalized block.
FinalityUpdate ==
    /\ hpc = "idle"
    /\ hpc' = "check" /\ to' = fin /\ hi' = 1 /\ finished' = <<>>
    /\ UNCHANGED <<nodeVars, db, reqs, linkVars, res, history, budgets>>

Checking == hpc = "check" /\ hi <= Len(reqs)

\* Slip: a transaction in a block is taken for one in a finalized block.
InAnyBlock(t) == txs[t].st = "mined"

\* Slip: off by one.
SettledBelow(t) == txs[t].st = "mined" /\ txs[t].blk < to

Settled(t) == txs[t].st = "mined" /\ txs[t].blk <= to

Send(t, code, isFinal) ==
    /\ res' = [tx |-> t, code |-> code, final |-> isFinal]
    /\ hpc' = "send"
    /\ UNCHANGED <<nodeVars, db, reqs, linkVars, to, hi, finished, history>>

\* The loop ends: no more requests, one that is pending, or one above to.
EndCheck ==
    /\ hpc = "check"
    /\ \/ hi > Len(reqs)
       \/ Checking /\ InFlight(reqs[hi])
       \/ Checking /\ txs[reqs[hi]].st = "mined" /\ ~Settled(reqs[hi])
    /\ hpc' = "remove"
    /\ UNCHANGED <<nodeVars, db, reqs, linkVars, to, hi, res, finished, history, budgets>>

\* The node does not know the transaction, or it is pending for too long.
CheckLost ==
    /\ Checking
    /\ \/ ~Known(reqs[hi])
       \/ txs[reqs[hi]].st = "pool" /\ Expired(reqs[hi])
    /\ Send(reqs[hi], "UNKNOWN", FALSE)
    /\ UNCHANGED budgets

\* TransactionByHash or TransactionReceipt fails.
CheckFails ==
    /\ Checking
    /\ faults < MaxFaults
    /\ faults' = faults + 1
    /\ Send(reqs[hi], "UNKNOWN", FALSE)
    /\ UNCHANGED <<reorgs, drops, restarts, dbFaults>>

\* Codes a receipt can lead to: the code of a failed transaction comes from
\* its call repeated at the newest block.
CodesOf(t) == IF txs[t].ok THEN {"SUCCESS"} ELSE {"REVERT", "UNKNOWN"}

CheckMined ==
    /\ Checking
    /\ Settled(reqs[hi])
    /\ \E code \in CodesOf(reqs[hi]) : Send(reqs[hi], code, TRUE)
    /\ UNCHANGED budgets

\* The call repeated succeeds: GetRevertMessage uses an error that is nil.
RevertPanics ==
    /\ Checking
    /\ Settled(reqs[hi]) /\ ~txs[reqs[hi]].ok
    /\ Reset
    /\ UNCHANGED <<nodeVars, db, final, budgets>>

\* Slip: requests reported as lost are removed too.
FinishedOrLost(r) == Append(finished, r.tx)

FinishedWith(r) == IF r.final THEN Append(finished, r.tx) ELSE finished

\* The link takes the result: after a final one the loop goes on, after any
\* other it ends and the request stays.
Deliver ==
    /\ hpc = "send"
    /\ IF res.final
       THEN /\ final' = [final EXCEPT ![res.tx] = res.code]
            /\ hi' = hi + 1
            /\ hpc' = "check"
            /\ UNCHANGED told
       ELSE /\ told' = told \cup {res.tx}
            /\ hpc' = "remove"
            /\ UNCHANGED <<final, hi>>
    /\ finished' = FinishedWith(res)
    /\ res' = NoResult
    /\ UNCHANGED <<nodeVars, db, reqs, linkVars, to, accepted, budgets>>

\* _removeRequests, one lock and request at a time.
RemoveFinished ==
    /\ hpc = "remove" /\ finished # <<>>
    /\ RemoveRequest(txs[Head(finished)].id)
    /\ finished' = Tail(finished)
    /\ UNCHANGED <<nodeVars, db, linkVars, hpc, to, hi, res, history, budgets>>

\* Slip: the index is reset to 0.
EndRemoveAtZero ==
    /\ hpc = "remove" /\ finished = <<>>
    /\ hpc' = "idle" /\ to' = 0 /\ hi' = 0
    /\ UNCHANGED <<nodeVars, db, reqs, linkVars, res, finished, history, budgets>>

EndRemove ==
    /\ hpc = "remove" /\ finished = <<>>
    /\ hpc' = "idle" /\ to' = 0 /\ hi' = 1
    /\ UNCHANGED <<nodeVars, db, reqs, linkVars, res, finished, history, budgets>>

------------------------------------------------------------------------------
Node ==
    \/ \E t \in Tx, ok \in BOOLEAN : Mine(t, ok)
    \/ \E b \in 1 .. MaxBlock : Finalize(b)
    \/ \E b \in 0 .. MaxBlock : Reorg(b)
    \/ \E t \in Tx : Propagate(t) \/ Drop(t)
    \/ Expire

Link ==
    \/ \E id \in Ids : Relay(id)
    \/ AddRequest \/ PutLastTransaction \/ PutFails \/ UndoRequest
    \/ ReadLastTransaction \/ Wake \/ CallStatus

Handler ==
    \/ FinalityUpdate \/ EndCheck \/ CheckLost \/ CheckFails \/ CheckMined \/ RevertPanics
    \/ Deliver \/ RemoveFinished \/ EndRemove

Next == Node \/ Link \/ Handler \/ Restart

Spec == Init /\ [][Next]_vars

\* Finality updates keep coming and the handler runs; the link takes results
\* and finishes its calls, a writer that waits being let in between two readers;
\* transactions propagate, are mined, finalized, and expire.
Fairness ==
    /\ WF_vars(Handler)
    /\ SF_vars(AddRequest \/ UndoRequest)
    /\ WF_vars(PutLastTransaction \/ PutFails)
    /\ WF_vars(lpc = "boot" /\ ReadLastTransaction)
    /\ WF_vars(Wake \/ CallStatus)
    /\ WF_vars(\E t \in Tx : Propagate(t))
    /\ WF_vars(\E t \in Tx, ok \in BOOLEAN : Mine(t, ok))
    /\ WF_vars(\E b \in 1 .. MaxBlock : Finalize(b))
    /\ WF_vars(Expire)

FairSpec == Spec /\ Fairness

------------------------------------------------------------------------------
TypeOK ==
    /\ txs \in [Tx -> TxState]
    /\ sent \in 0 .. MaxTx /\ expired \in 0 .. MaxTx
    /\ blockNum \in 0 .. MaxBlock /\ fin \in 0 .. MaxBlock
    /\ db \in 0 .. MaxTx
    /\ reqs \in Seq(Tx)
    /\ lpc \in {"boot", "idle", "add", "put", "undo", "sleep", "call"}
    /\ cur \in 0 .. MaxTx /\ (lpc \in {"add", "put", "undo"} => cur # 0)
    /\ hpc \in {"idle", "check", "send", "remove"}
    /\ to \in 0 .. MaxBlock /\ hi \in Nat \ {0}
    /\ res \in Result /\ (hpc = "send" => res.tx # 0)
    /\ finished \in Seq(Tx)
    /\ accepted \subseteq Tx /\ told \subseteq Tx
    /\ final \in [Tx -> Codes \cup {"none"}]
    /\ reorgs \in 0 .. MaxReorgs /\ drops \in 0 .. MaxDrops
    /\ restarts \in 0 .. MaxRestarts /\ faults \in 0 .. MaxFaults
    /\ dbFaults \in 0 .. MaxDbFaults

\* A final result stays true: its transaction is in a finalized block, and the
\* result says success exactly if the transaction succeeded, whatever the node
\* reorganised while the requests were looked at (_checkRelayResult).
FinalIsTrue ==
    \A t \in Tx :
        final[t] # "none" =>
            /\ txs[t].st = "mined" /\ txs[t].blk <= fin
            /\ txs[t].ok <=> final[t] = "SUCCESS"

\* No request is given a final result twice, though it stays in reqs until the
\* read lock was given up (_checkRelayResult, _removeRequests).
FinalOnce == hpc = "send" /\ res.final => final[res.tx] = "none"

\* A message that Relay took stays a request until its final result.
NoneForgotten ==
    \A t \in accepted : final[t] # "none" \/ \E i \in DOMAIN reqs : reqs[i] = t

\* Final results come in the order of the calls of Relay.
ResultsInOrder ==
    \A t, u \in accepted : t < u /\ final[u] # "none" => final[t] # "none"

\* As long as no block was orphaned, no transaction up to the one in the database
\* is on its way or in flight when GetStatus reads the status, though it looked at
\* that one only, and at another endpoint than it was sent to.
StatusSettled ==
    [][CallStatus /\ reorgs = 0 => \A t \in 1 .. db : Unmined(t) => Expired(t)]_vars

\* The sender implements ResultStream: a message waits from the return of Relay
\* until its final result, as a request.
Waits(t) == t \in accepted /\ final[t] = "none" /\ \E i \in DOMAIN reqs : reqs[i] = t

Results ==
    INSTANCE ResultStream WITH up <- lpc # "boot", waiting <- {t \in Tx : Waits(t)}, outcome <- final

\* Messages leave the queue of requests by their final results alone, in the order
\* they were taken, whatever the removal by id after the lock was given up, a
\* failing write or a request reported as lost do to reqs in between.
ImplementsResultStream == Results!Spec

\* If no transaction is forgotten, every message Relay took gets a final
\* result, unless the relay dies.
EveryResultComes ==
    \A t \in Tx : t \in accepted ~> final[t] # "none" \/ t \notin accepted \/ drops # 0

\* Relay comes back, though it waits for the lock the handler has while the
\* link takes results.
RelayReturns == lpc \in {"add", "put", "undo"} ~> lpc \in {"boot", "idle"}
=============================================================================
