------------------------------ MODULE Receiver ------------------------------
(***************************************************************************)
(* The receiver of chain/eth2/receiver.go: it gathers the BTP messages of  *)
(* the source chain from optimistic updates, and on every finalized        *)
(* checkpoint validates what it gathered and announces a receive status to *)
(* the link, from which the link builds relay messages.                    *)
(*                                                                         *)
(* Three goroutines share the receiver's fields with no lock:              *)
(*   - the event handler (Monitoring), one event at a time;                *)
(*   - clearData, on every finalized BMC status of the link;               *)
(*   - the link, which reads rss and mps and updates the BMC link status   *)
(*     bls, the object that Monitoring also reads.                         *)
(* A statement of the form r.f = append(r.f, x) or r.f = r.f[i+1:] loads   *)
(* the slice and stores it in two steps.                                   *)
(*                                                                         *)
(* The horizon lies in one sync committee period and within                *)
(* SlotPerHistoricalRoot slots: a status has one block update and a        *)
(* message is proved with block roots.                                     *)
(***************************************************************************)
EXTENDS ChainSearch

CONSTANTS
    MaxRestarts,  \* bound: crashes and panics, each followed by a restart
    MaxFaults,    \* bound: RPC calls that fail
    MaxClears     \* bound: finalized statuses handed to clearData

ASSUME ReceiverAssumption ==
    MaxRestarts \in Nat /\ MaxFaults \in Nat /\ MaxClears \in Nat

VARIABLES
    dst,       \* BMC link status on the destination: verifier height, RxSeq, and
               \* the slot of the last message (BMVExtra.LastMsgSlot)
    bls,       \* the status shared by link and Monitoring, updated by the link
    extra,     \* LastMsgSlot of the status at Start, 0 if there was no message
    once,      \* undelivered messages were looked for
    seq,       \* r.seq
    prevRS, rss, mps,
    cp,        \* cp[slot]: version of the checkpoint header kept, 0 if none
    lastFU,    \* slot of lastFinalityUpdate, 0 if nil
    att,       \* slot of the last optimistic update handled
    pc,        \* where the event handler is
    hdr,       \* attested header of the optimistic update being handled
    upd,       \* finalized and attested slot of the update being handled
    rg,        \* the range search under way
    made,      \* messageProofDatas to append to mps
    msnap,     \* mps as loaded by the handler's append
    rs, rsnap, \* status being announced; rss as loaded by the handler's append
    gpc, gst, gi, gsnap,  \* clearData: position, status, index, loaded slice
    restarts, faults, clears

handlerVars == <<hdr, upd, rg, made, msnap, rs, rsnap>>
clearVars == <<gpc, gst, gi, gsnap>>
linkVars == <<dst, bls>>
budgets == <<restarts, faults, clears>>

vars == <<chainVars, linkVars, extra, once, seq, prevRS, rss, mps, cp, lastFU, att, pc,
          handlerVars, clearVars, budgets>>

------------------------------------------------------------------------------
(* Data *)

Status == [slot : Slots, seq : Seqs]

LinkStatus == [height : Slots, rx : Seqs, last : Slots]

Update == [f : Slots, a : Slots]

Search == [fbn : Nat, tbn : Nat, fSlot : Nat, toSlot : Nat, seq : Nat, toSeq : Seqs]

NoHeader == [slot |-> FirstSlot, ver |-> 0, bn |-> 0]
NoUpdate == [f |-> FirstSlot, a |-> FirstSlot]
NoSearch == [fbn |-> 0, tbn |-> 0, fSlot |-> 0, toSlot |-> 0, seq |-> 0, toSeq |-> 0]
NoLinkStatus == [height |-> FirstSlot, rx |-> 0, last |-> FirstSlot]
NoStatus == [slot |-> FirstSlot, seq |-> 0]
NoCheckPoints == [s \in Slots |-> 0]

\* GetMessageProofDataForSeq: the first one that holds q.
ProofsFor(q) == {i \in DOMAIN mps : Holds(mps[i], q) /\ \A j \in 1 .. i - 1 : ~Holds(mps[j], q)}

\* getLastMessageSeq
LastMessageSeq == IF mps = <<>> THEN seq ELSE mps[Len(mps)].to

\* Slip: the slot is not looked at.
LastProofsForAny(height) == {i \in DOMAIN mps : i = Len(mps)}

\* GetLastMessageProofDataForHeight: the scan stops at the first one at or
\* above height, and returns the last one it met at or below it.
LastProofsFor(height) ==
    {i \in DOMAIN mps :
        /\ mps[i].slot <= height
        /\ \A j \in 1 .. i - 1 : mps[j].slot < height
        /\ \A k \in i + 1 .. Len(mps) :
              mps[k].slot > height \/ \E j \in 1 .. k - 1 : mps[j].slot >= height}

\* addCheckPoint, addCheckPointsByRange
WithCheckPoint(c, h) == IF IsCheckPoint(h.slot) THEN [c EXCEPT ![h.slot] = h.ver] ELSE c

WithCheckPoints(c, from, to) ==
    [s \in Slots |->
        IF /\ IsCheckPoint(s) /\ s <= to /\ s <= head /\ IsBlock(s)
           /\ SlotToEpoch(s) > SlotToEpoch(from)
        THEN chain[s].ver ELSE c[s]]

------------------------------------------------------------------------------
(* Start: Monitoring's state for the status st of the destination *)

StartState(st) ==
    /\ bls' = st
    /\ extra' = IF st.rx = 0 THEN 0 ELSE st.last
    /\ once' = FALSE
    /\ seq' = st.rx
    /\ prevRS' = [slot |-> st.height, seq |-> st.rx]
    /\ rss' = <<>> /\ mps' = <<>>
    /\ cp' = NoCheckPoints
    /\ lastFU' = 0
    /\ att' = fin
    /\ pc' = "idle"
    /\ hdr' = NoHeader /\ upd' = NoUpdate /\ rg' = NoSearch
    /\ made' = <<>> /\ msnap' = <<>> /\ rs' = NoStatus /\ rsnap' = <<>>
    /\ gpc' = "idle" /\ gst' = NoLinkStatus /\ gi' = 0 /\ gsnap' = <<>>

Init ==
    /\ ChainInit
    /\ dst = NoLinkStatus
    /\ bls = NoLinkStatus
    /\ extra = 0
    /\ once = FALSE
    /\ seq = 0
    /\ prevRS = NoStatus
    /\ rss = <<>> /\ mps = <<>>
    /\ cp = NoCheckPoints
    /\ lastFU = 0
    /\ att = FirstSlot
    /\ pc = "idle"
    /\ hdr = NoHeader /\ upd = NoUpdate /\ rg = NoSearch
    /\ made = <<>> /\ msnap = <<>> /\ rs = NoStatus /\ rsnap = <<>>
    /\ gpc = "idle" /\ gst = NoLinkStatus /\ gi = 0 /\ gsnap = <<>>
    /\ restarts = 0 /\ faults = 0 /\ clears = 0

\* The relay crashes and starts again from the status of the destination.
Restart ==
    /\ restarts < MaxRestarts
    /\ restarts' = restarts + 1
    /\ StartState(dst)
    /\ UNCHANGED <<chainVars, dst, faults, clears>>

\* A goroutine panics, and so the relay dies and starts again.
Panic ==
    /\ StartState(dst)
    /\ UNCHANGED <<chainVars, dst, budgets>>

\* The handler returns and its locals are gone.
Return ==
    /\ pc' = "idle"
    /\ hdr' = NoHeader /\ upd' = NoUpdate /\ rg' = NoSearch
    /\ made' = <<>> /\ msnap' = <<>> /\ rs' = NoStatus /\ rsnap' = <<>>

------------------------------------------------------------------------------
(* Optimistic updates *)

\* An update for the head, or a late one for a block that was orphaned since.
OptimisticUpdates ==
    {h \in HeadersIn(FirstSlot .. head) \cup orphans : h.slot > att}

\* The slot after which undelivered messages are looked for.
SearchedAfter == IF extra # 0 THEN extra ELSE bls.height

\* The first update: undelivered messages are looked for up to the slot before.
FirstUpdate(h) ==
    /\ pc = "idle" /\ ~once
    /\ att' = h.slot
    /\ hdr' = h
    /\ upd' = [upd EXCEPT !.f = fin]
    /\ IF bls.rx < TxSeq
       THEN /\ rg' = RangeSearch(SearchedAfter + 1, bls.rx + 1, h.slot - 1, TxSeq)
            /\ pc' = "undelivered"
            /\ UNCHANGED <<once, cp>>
       ELSE /\ cp' = WithCheckPoints(cp, fin, h.slot - 1)
            /\ once' = TRUE
            /\ pc' = "header"
            /\ UNCHANGED rg
    /\ UNCHANGED <<chainVars, linkVars, extra, seq, prevRS, rss, mps, lastFU,
                   made, msnap, rs, rsnap, clearVars, budgets>>

LaterUpdate(h) ==
    /\ pc = "idle" /\ once
    /\ att' = h.slot
    /\ hdr' = h
    /\ pc' = "header"
    /\ UNCHANGED <<chainVars, linkVars, extra, once, seq, prevRS, rss, mps, cp, lastFU,
                   upd, rg, made, msnap, rs, rsnap, clearVars, budgets>>

\* The undelivered messages found are appended, then checkpoints are added.
StoreUndelivered ==
    /\ pc = "storeUndelivered"
    /\ mps' = msnap \o made
    /\ cp' = WithCheckPoints(cp, upd.f, hdr.slot - 1)
    /\ once' = TRUE
    /\ pc' = "header"
    /\ made' = <<>> /\ msnap' = <<>> /\ upd' = NoUpdate
    /\ UNCHANGED <<chainVars, linkVars, extra, seq, prevRS, rss, lastFU, att,
                   hdr, rg, rs, rsnap, clearVars, budgets>>

\* Slip: off by one.
SeenBefore(q) == seq > q

Seen(q) == seq + 1 > q

\* messageProofDataFromHeader takes the logs of the chain's block with the
\* header's number: a gap is an error, a block that holds a message already
\* seen is skipped, else the whole block becomes one messageProofData.
GatherFromHeader ==
    LET blocks == {s \in SlotsOfBlock(hdr.bn) : FirstMsg(s) <= LastMsg(s)}
    IN  /\ pc = "header"
        /\ \/ /\ \E s \in blocks : seq + 1 < FirstMsg(s)
              /\ Return
              /\ UNCHANGED <<seq, cp>>
           \/ /\ \A s \in blocks : Seen(FirstMsg(s))
              /\ cp' = WithCheckPoint(cp, hdr)
              /\ Return
              /\ UNCHANGED seq
           \/ \E s \in blocks :
                 /\ ~Seen(FirstMsg(s)) /\ FirstMsg(s) <= seq + 1
                 /\ made' = <<[slot |-> hdr.slot, ver |-> hdr.ver,
                              from |-> FirstMsg(s), to |-> LastMsg(s)]>>
                 /\ seq' = LastMsg(s)
                 /\ msnap' = mps
                 /\ pc' = "append"
                 /\ UNCHANGED <<cp, hdr, upd, rg, rs, rsnap>>
        /\ UNCHANGED <<chainVars, linkVars, extra, once, prevRS, rss, mps, lastFU, att,
                       clearVars, budgets>>

StoreGathered ==
    /\ pc = "append"
    /\ mps' = msnap \o made
    /\ cp' = WithCheckPoint(cp, hdr)
    /\ Return
    /\ UNCHANGED <<chainVars, linkVars, extra, once, seq, prevRS, rss, lastFU, att,
                   clearVars, budgets>>

------------------------------------------------------------------------------
(* messageProofDatasByRange, one message block an iteration *)

Searching == pc \in {"undelivered", "rebuild"}

\* Slip: the last message is left out.
SearchDoneEarly == rg.seq >= rg.toSeq

SearchDone == rg.seq > rg.toSeq

\* makeMessageProofData moves r.seq before the search is known to succeed.
RangeStep ==
    /\ Searching
    /\ ~SearchDone
    /\ \E s \in FoundAt(rg) :
         /\ made' = Append(made, [slot |-> s, ver |-> chain[s].ver,
                                  from |-> rg.seq, to |-> LastMsg(s)])
         /\ seq' = LastMsg(s)
         /\ rg' = [rg EXCEPT !.seq = LastMsg(s) + 1, !.fbn = chain[s].bn + 1,
                             !.fSlot = s + 1]
    /\ UNCHANGED <<chainVars, linkVars, extra, once, prevRS, rss, mps, cp, lastFU, att, pc,
                   hdr, upd, msnap, rs, rsnap, clearVars, budgets>>

\* The block of the message is found but not its slot: the proof is made with the
\* header of slot 0.
RangeMisses ==
    /\ Searching
    /\ ~SearchDone
    /\ \E s \in LostAt(rg) :
         /\ made' = Append(made, [slot |-> 0, ver |-> 0, from |-> rg.seq, to |-> LastMsg(s)])
         /\ seq' = LastMsg(s)
         /\ rg' = [rg EXCEPT !.seq = LastMsg(s) + 1, !.fbn = chain[s].bn + 1, !.fSlot = 1]
    /\ UNCHANGED <<chainVars, linkVars, extra, once, prevRS, rss, mps, cp, lastFU, att, pc,
                   hdr, upd, msnap, rs, rsnap, clearVars, budgets>>

\* Slip: the search waits for the message instead of giving up.
RangeRetries ==
    /\ pc = "rebuild"
    /\ ~SearchDone
    /\ FoundAt(rg) \cup LostAt(rg) = {}
    /\ UNCHANGED vars

\* A message is not found: the finality update's handler returns, the first
\* optimistic update's handler panics.
RangeFails ==
    /\ pc = "rebuild"
    /\ ~SearchDone
    /\ FoundAt(rg) \cup LostAt(rg) = {}
    /\ Return
    /\ UNCHANGED <<chainVars, linkVars, extra, once, seq, prevRS, rss, mps, cp, lastFU, att,
                   clearVars, budgets>>

RangePanics ==
    /\ pc = "undelivered"
    /\ ~SearchDone
    /\ FoundAt(rg) \cup LostAt(rg) = {}
    /\ Panic

\* The slice to append to is loaded.
RangeDone ==
    /\ Searching
    /\ SearchDone
    /\ msnap' = mps
    /\ rg' = NoSearch
    /\ pc' = IF pc = "undelivered" THEN "storeUndelivered" ELSE "storeRebuilt"
    /\ UNCHANGED <<chainVars, linkVars, extra, once, seq, prevRS, rss, mps, cp, lastFU, att,
                   hdr, upd, made, rs, rsnap, clearVars, budgets>>

------------------------------------------------------------------------------
(* Finality updates *)

\* Slip: no update is taken for one already processed.
NeverProcessed == FALSE

AlreadyProcessed == lastFU = fin

\* An update for the finalized slot, attested by slot a.  Older updates, one
\* already processed and one that is not at an epoch boundary are skipped.
FinalityUpdate(a) ==
    /\ pc = "idle"
    /\ IsCheckPoint(fin)
    /\ ~AlreadyProcessed
    /\ lastFU' = fin
    /\ upd' = [f |-> fin, a |-> a]
    /\ pc' = "validate"
    /\ UNCHANGED <<chainVars, linkVars, extra, once, seq, prevRS, rss, mps, cp, att,
                   hdr, rg, made, msnap, rs, rsnap, clearVars, budgets>>

\* What was gathered is taken when the checkpoint header kept for the slot is
\* the finalized one and the last message gathered is the last one sent.
Valid ==
    /\ cp[upd.f] = chain[upd.f].ver
    /\ TxSeq > bls.rx => TxSeq = LastMessageSeq

\* Slip: the search goes on from the last message gathered.
RebuildSearchFromSeq == RangeSearch(prevRS.slot + 1, seq + 1, upd.a, TxSeq)

\* A rebuild searches from the status before.
RebuildSearch == RangeSearch(prevRS.slot + 1, prevRS.seq + 1, upd.a, TxSeq)

Validate ==
    /\ pc = "validate"
    /\ \/ /\ TxSeq = bls.rx
          /\ pc' = "announce"
          /\ UNCHANGED <<seq, mps, cp, rg>>
       \/ /\ TxSeq # bls.rx /\ Valid
          /\ cp' = [cp EXCEPT ![upd.f] = 0]
          /\ pc' = "announce"
          /\ UNCHANGED <<seq, mps, rg>>
       \/ /\ TxSeq # bls.rx /\ ~Valid
          /\ mps' = <<>>
          /\ cp' = NoCheckPoints
          /\ seq' = prevRS.seq
          /\ rg' = RebuildSearch
          /\ pc' = "rebuild"
    /\ UNCHANGED <<chainVars, linkVars, extra, once, prevRS, rss, lastFU, att,
                   hdr, upd, made, msnap, rs, rsnap, clearVars, budgets>>

StoreRebuilt ==
    /\ pc = "storeRebuilt"
    /\ mps' = IF made = <<>> THEN mps ELSE msnap \o made
    /\ cp' = WithCheckPoints(cp, upd.f, upd.a)
    /\ pc' = "announce"
    /\ made' = <<>> /\ msnap' = <<>>
    /\ UNCHANGED <<chainVars, linkVars, extra, once, seq, prevRS, rss, lastFU, att,
                   hdr, upd, rg, rs, rsnap, clearVars, budgets>>

\* Slip: a checkpoint without messages promises none.
SeqAtOrZero(height) ==
    LET last == LastProofsFor(height)
    IN  IF last = {} THEN 0 ELSE mps[CHOOSE i \in last : TRUE].to

\* The last message of the last messageProofData up to the slot, or of the
\* status before.
SeqAt(height) ==
    LET last == LastProofsFor(height)
    IN  IF last = {} THEN prevRS.seq ELSE mps[CHOOSE i \in last : TRUE].to

MakeStatus ==
    /\ pc = "announce"
    /\ rs' = [slot |-> upd.f, seq |-> SeqAt(upd.f)]
    /\ rsnap' = rss
    /\ pc' = "storeStatus"
    /\ UNCHANGED <<chainVars, linkVars, extra, once, seq, prevRS, rss, mps, cp, lastFU, att,
                   hdr, upd, rg, made, msnap, clearVars, budgets>>

StoreStatus ==
    /\ pc = "storeStatus"
    /\ rss' = Append(rsnap, rs)
    /\ pc' = "send"
    /\ rsnap' = <<>>
    /\ UNCHANGED <<chainVars, linkVars, extra, once, seq, prevRS, mps, cp, lastFU, att,
                   hdr, upd, rg, made, msnap, rs, clearVars, budgets>>

\* The link takes the status from the channel.
Consume ==
    /\ pc = "send"
    /\ prevRS' = rs
    /\ Return
    /\ UNCHANGED <<chainVars, linkVars, extra, once, seq, rss, mps, cp, lastFU, att,
                   clearVars, budgets>>

\* An RPC fails: getStatus, LightClientUpdates, FilterLogs, a header or a proof.
RpcFails ==
    /\ faults < MaxFaults
    /\ pc \in {"header", "validate", "rebuild"}
    /\ faults' = faults + 1
    /\ Return
    /\ UNCHANGED <<chainVars, linkVars, extra, once, seq, prevRS, rss, mps, cp, lastFU, att,
                   clearVars, restarts, clears>>

\* A call whose failure ends the process: any one of the search for undelivered
\* messages, the finality update read when an event comes, and the answer that
\* should hold the receipts root of a message block found but is no proof.
FaultPanics ==
    /\ faults < MaxFaults
    /\ \/ pc = "undelivered"
       \/ pc = "idle" /\ IsCheckPoint(fin) /\ ~AlreadyProcessed
       \/ pc = "header" /\ \E s \in SlotsOfBlock(hdr.bn) :
                               FirstMsg(s) = seq + 1 /\ seq < LastMsg(s)
       \/ pc = "rebuild" /\ ~SearchDone /\ FoundAt(rg) \cup LostAt(rg) # {}
    /\ faults' = faults + 1
    /\ StartState(dst)
    /\ UNCHANGED <<chainVars, dst, restarts, clears>>

------------------------------------------------------------------------------
(* The link and the destination chain, external *)

\* BuildBlockUpdate: the updates of all statuses in rss.
RelayBlockUpdate ==
    /\ rss # <<>>
    /\ bls.height < rss[Len(rss)].slot
    /\ bls' = [bls EXCEPT !.height = rss[Len(rss)].slot]
    /\ UNCHANGED <<chainVars, dst, extra, once, seq, prevRS, rss, mps, cp, lastFU, att, pc,
                   handlerVars, clearVars, budgets>>

\* BuildBlockUpdate does not look at the verifier's height: an update behind it is
\* refused by the destination, whose status the link takes up again.
RefuseBlockUpdate ==
    /\ rss # <<>>
    /\ bls.height > rss[Len(rss)].slot
    /\ bls' = dst
    /\ UNCHANGED <<chainVars, dst, extra, once, seq, prevRS, rss, mps, cp, lastFU, att, pc,
                   handlerVars, clearVars, budgets>>

\* Slip: BuildBlockProof does not look at the verifier's height.
RelayUnverifiedProof ==
    /\ \E i \in ProofsFor(bls.rx + 1) :
         /\ Provable(mps[i])
         /\ bls' = [bls EXCEPT !.rx = mps[i].to, !.last = mps[i].slot]
    /\ UNCHANGED <<chainVars, dst, extra, once, seq, prevRS, rss, mps, cp, lastFU, att, pc,
                   handlerVars, clearVars, budgets>>

\* BuildMessageProof, after BuildBlockProof for its slot.
RelayMessageProof ==
    /\ \E i \in ProofsFor(bls.rx + 1) :
         /\ mps[i].slot <= bls.height
         /\ Provable(mps[i])
         /\ bls' = [bls EXCEPT !.rx = mps[i].to, !.last = mps[i].slot]
    /\ UNCHANGED <<chainVars, dst, extra, once, seq, prevRS, rss, mps, cp, lastFU, att, pc,
                   handlerVars, clearVars, budgets>>

\* The destination executes what the link relayed.
Execute ==
    /\ dst # bls
    /\ dst' = bls
    /\ UNCHANGED <<chainVars, bls, extra, once, seq, prevRS, rss, mps, cp, lastFU, att, pc,
                   handlerVars, clearVars, budgets>>

------------------------------------------------------------------------------
(* clearData *)

\* The first status of rss, or messageProofData of mps, that st names.
ClearedStatus(st) ==
    {i \in DOMAIN rss : /\ rss[i] = [slot |-> st.height, seq |-> st.rx]
                        /\ \A j \in 1 .. i - 1 : rss[j] # rss[i]}
ClearedProof(st) ==
    {i \in DOMAIN mps : mps[i].to = st.rx /\ \A j \in 1 .. i - 1 : mps[j].to # st.rx}

Clear ==
    /\ gpc = "idle" /\ clears < MaxClears
    /\ clears' = clears + 1
    /\ gst' = dst
    /\ \/ /\ ClearedStatus(dst) = {} /\ gpc' = "mps" /\ gi' = gi
       \/ /\ gi' \in ClearedStatus(dst) /\ gpc' = "loadRss"
    /\ UNCHANGED <<chainVars, linkVars, extra, once, seq, prevRS, rss, mps, cp, lastFU, att,
                   pc, handlerVars, gsnap, restarts, faults>>

LoadRss ==
    /\ gpc = "loadRss" /\ gi <= Len(rss)
    /\ gsnap' = SubSeq(rss, gi + 1, Len(rss))
    /\ gpc' = "storeRss"
    /\ UNCHANGED <<chainVars, linkVars, extra, once, seq, prevRS, rss, mps, cp, lastFU, att,
                   pc, handlerVars, gst, gi, budgets>>

StoreRss ==
    /\ gpc = "storeRss"
    /\ rss' = gsnap
    /\ gpc' = "mps" /\ gsnap' = <<>> /\ gi' = 0
    /\ UNCHANGED <<chainVars, linkVars, extra, once, seq, prevRS, mps, cp, lastFU, att,
                   pc, handlerVars, gst, budgets>>

ScanMps ==
    /\ gpc = "mps"
    /\ \/ /\ ClearedProof(gst) = {} /\ gpc' = "idle" /\ gi' = 0
          /\ gst' = NoLinkStatus
       \/ /\ gi' \in ClearedProof(gst) /\ gpc' = "loadMps"
          /\ gst' = gst
    /\ UNCHANGED <<chainVars, linkVars, extra, once, seq, prevRS, rss, mps, cp, lastFU, att,
                   pc, handlerVars, gsnap, budgets>>

LoadMps ==
    /\ gpc = "loadMps" /\ gi <= Len(mps)
    /\ gsnap' = SubSeq(mps, gi + 1, Len(mps))
    /\ gpc' = "storeMps"
    /\ UNCHANGED <<chainVars, linkVars, extra, once, seq, prevRS, rss, mps, cp, lastFU, att,
                   pc, handlerVars, gst, gi, budgets>>

StoreMps ==
    /\ gpc = "storeMps"
    /\ mps' = gsnap
    /\ gpc' = "idle" /\ gsnap' = <<>> /\ gi' = 0 /\ gst' = NoLinkStatus
    /\ UNCHANGED <<chainVars, linkVars, extra, once, seq, prevRS, rss, cp, lastFU, att,
                   pc, handlerVars, budgets>>

\* The index found is beyond the slice loaded: slice bounds out of range.
ClearPanics ==
    /\ \/ gpc = "loadRss" /\ gi > Len(rss)
       \/ gpc = "loadMps" /\ gi > Len(mps)
    /\ Panic

------------------------------------------------------------------------------
Chain ==
    /\ ChainNext
    /\ UNCHANGED <<linkVars, extra, once, seq, prevRS, rss, mps, cp, lastFU, att, pc,
                   handlerVars, clearVars, budgets>>

Handler ==
    \/ \E h \in OptimisticUpdates : FirstUpdate(h) \/ LaterUpdate(h)
    \/ StoreUndelivered \/ GatherFromHeader \/ StoreGathered
    \/ RangeStep \/ RangeMisses \/ RangeFails \/ RangePanics \/ RangeDone
    \/ \E a \in Attesting : FinalityUpdate(a)
    \/ Validate \/ StoreRebuilt \/ MakeStatus \/ StoreStatus

Link == Consume \/ RelayBlockUpdate \/ RefuseBlockUpdate \/ RelayMessageProof \/ Execute

ClearData == Clear \/ LoadRss \/ StoreRss \/ ScanMps \/ LoadMps \/ StoreMps \/ ClearPanics

Next == Chain \/ Handler \/ Link \/ ClearData \/ RpcFails \/ FaultPanics \/ Restart

Spec == Init /\ [][Next]_vars

\* A handler that has begun goes on, and the link takes what is sent to it.
Continue ==
    \/ StoreUndelivered \/ GatherFromHeader \/ StoreGathered
    \/ RangeStep \/ RangeMisses \/ RangeFails \/ RangePanics \/ RangeDone
    \/ Validate \/ StoreRebuilt \/ MakeStatus \/ StoreStatus \/ Consume

FairSpec == Spec /\ WF_vars(Continue)

------------------------------------------------------------------------------
\* What the receiver gathered and announced.
GatheredOK ==
    /\ extra \in Slots \cup {0} /\ once \in BOOLEAN /\ seq \in Seqs
    /\ prevRS \in Status /\ rss \in Seq(Status) /\ mps \in Seq(MsgProof)
    /\ cp \in [Slots -> Versions]
    /\ lastFU \in Slots \cup {0} /\ att \in Slots

HandlerOK ==
    /\ pc \in {"idle", "undelivered", "storeUndelivered", "header", "append", "validate",
               "rebuild", "storeRebuilt", "announce", "storeStatus", "send"}
    /\ hdr \in Header /\ upd \in Update /\ rg \in Search
    /\ made \in Seq(MsgProof) /\ msnap \in Seq(MsgProof)
    /\ rs \in Status /\ rsnap \in Seq(Status)

ClearOK ==
    /\ gpc \in {"idle", "loadRss", "storeRss", "mps", "loadMps", "storeMps"}
    /\ gst \in LinkStatus /\ gi \in Nat
    /\ gpc = "storeRss" => gsnap \in Seq(Status)
    /\ gpc = "storeMps" => gsnap \in Seq(MsgProof)

BudgetsOK ==
    restarts \in 0 .. MaxRestarts /\ faults \in 0 .. MaxFaults /\ clears \in 0 .. MaxClears

TypeOK ==
    /\ ChainTypeOK
    /\ dst \in LinkStatus /\ bls \in LinkStatus
    /\ GatheredOK /\ HandlerOK /\ ClearOK /\ BudgetsOK

\* Statuses wait for the link in the order of their finalized slots, each slot
\* once, none before it is final, whatever clearData does to rss meanwhile
\* (Monitoring's finality handler, clearData).
RssAscend ==
    \A i \in DOMAIN rss :
        /\ rss[i].slot <= fin
        /\ \A j \in 1 .. i - 1 : rss[j].slot < rss[i].slot

\* As long as no block was orphaned a status promises no message that was sent
\* after its slot: its seq comes from the right messageProofData or from the
\* status before.
StatusNeverAhead == reorgs = 0 => \A i \in DOMAIN rss : rss[i].seq <= LastMsg(rss[i].slot)

\* Until the relay starts again, the statuses the link takes never go back in slot,
\* and as long as no block was orphaned and clearData has not run not in messages
\* promised either, whatever rebuild failed or search came in between.
StatusesRise ==
    [][Consume => /\ prevRS.slot <= prevRS'.slot
                  /\ reorgs = 0 /\ clears = 0 => prevRS.seq <= prevRS'.seq]_vars

HeldBy(proofs, q) == \E i \in DOMAIN proofs : Holds(proofs[i], q)

\* A message whose block no fork touches while the messages after a slot are looked
\* for: any one as long as no block was orphaned, else one of a later block that was
\* final when the update came.  The search may also come upon the block before the
\* slots it looks at, if they have none, and a fork has one there meanwhile.
Settled(q, slot) == reorgs = 0 \/ (LastMsg(slot) < q /\ q <= LastMsg(upd.f))

ProvableBy(proofs, q) == \E i \in DOMAIN proofs : Holds(proofs[i], q) /\ Provable(proofs[i])

\* When the search for undelivered messages of the first update has ended, every
\* message sent up to the slot before and not yet delivered has a proof with the
\* chain's own header, whatever was relayed meanwhile; when blocks were orphaned,
\* every one that was final (Monitoring, messageProofDatasByRange).  A fork may send
\* a message before that slot after TxSeq was read, which only a rebuild finds.  Not
\* so after clearData: a block update built from what it stored back is refused, and
\* the link is behind where it was when the search began.
UndeliveredFound ==
    [][StoreUndelivered /\ clears = 0 =>
         \A q \in bls.rx + 1 .. LastMsg(hdr.slot - 1) :
            Settled(q, SearchedAfter) => ProvableBy(mps', q)]_vars

\* A rebuild that ends leaves a proof with the chain's own header for every
\* message after the last status up to the finalized slot, also when blocks
\* above that slot were reorganised during the search.
RebuildCovers ==
    [][StoreRebuilt =>
         \A q \in prevRS.seq + 1 .. LastMsg(upd.f) :
            Settled(q, prevRS.slot) => ProvableBy(mps', q)]_vars

\* As long as no block was orphaned and clearData has not run no optimistic update
\* gathers a message that is held already, whichever of the update and a search or
\* a rebuild came first, and whichever of them failed.
NoDoubleGather ==
    [][StoreGathered /\ reorgs = 0 /\ clears = 0 =>
         \A q \in made[1].from .. made[1].to : ~HeldBy(mps, q)]_vars

\* The receiver, with the link and the destination, implements Delivery.
Delivered ==
    INSTANCE Delivery WITH finalized <- LastMsg(fin), verified <- LastMsg(dst.height),
                           received <- dst.rx

\* No message is received before its block is final and verified, and neither a
\* crash nor a slip between clearData and the handler takes back what the
\* destination was told (Monitoring, clearData, Start).
ImplementsDelivery == Delivered!Spec

\* The event handler comes back for the next event: a search ends, and the link
\* takes the status.
HandlerReturns == pc # "idle" ~> pc = "idle"

(* What comments of the code say, and the code does not do *)

\* receiver.go:59, a status has the "last sequence number at slot".
StatusComplete == \A i \in DOMAIN rss : rss[i].seq = LastMsg(rss[i].slot)

\* receiver.go:514, "handle undelivered messages": the search begins at or
\* before the block of the first undelivered message, when the relay starts and has
\* announced nothing yet.
UndeliveredInRange ==
    pc = "undelivered" /\ made = <<>> /\ rss = <<>> =>
        \A s \in FirstSlot .. head :
            FirstMsg(s) <= rg.seq /\ rg.seq <= LastMsg(s) => rg.fbn <= chain[s].bn
=============================================================================
