---------------------------- MODULE BlockUpdates ----------------------------
(***************************************************************************)
(* The block updates of chain/eth2/receiver.go: how a finality update      *)
(* event becomes a status with the light client updates that lead the      *)
(* verifier (BMV) from its sync committee period to the update's, how the  *)
(* link relays them, and what becomes of the relay's idea of the           *)
(* verifier's height.                                                      *)
(*                                                                         *)
(* The horizon spans several sync committee periods.  Messages, and with   *)
(* them validateMessageProofData, are in Receiver; reorganisations too: an *)
(* update here is known by its signature slot, and what it attests and     *)
(* finalizes follows from the chain.                                       *)
(***************************************************************************)
EXTENDS BeaconTime, FiniteSets, Sequences, SequencesExt, FiniteSetsExt

CONSTANTS
    FirstSlot,      \* the slot bmvinit found finalized
    MaxSlot,        \* bound: the horizon
    FinalityDelay,  \* slots from a checkpoint to a block that attests it
    MaxRetry,       \* maxFinalityUpdateRetry, 5
    Forks,          \* slots the first fork the relay does not know may begin at
    MaxTrouble,     \* bound: slots missed, blocks with few signatures and failed calls
    MaxRestarts     \* bound: restarts

ASSUME UpdateAssumption ==
    /\ FirstSlot \in Nat /\ IsCheckPoint(FirstSlot)
    /\ MaxSlot \in Nat /\ FirstSlot <= MaxSlot
    /\ FinalityDelay \in Nat \ {0} /\ MaxRetry \in Nat
    /\ Forks \subseteq Nat
    /\ MaxTrouble \in Nat /\ MaxRestarts \in Nat

VARIABLES
    head,      \* the newest slot
    blocks,    \* slots with a block
    updates,   \* finality updates
    fork,      \* first slot of a fork the relay does not know
    pc,        \* where the event handler is; "dead" after a panic
    ev,        \* signature slot of the last update handled
    slot,      \* the slot its event finalized
    upd,       \* the update being handled
    retry,
    lastFU,    \* slot of lastFinalityUpdate, 0 if nil
    from,      \* blsSCPeriod of the update being handled
    buds,      \* block updates being made
    rss,       \* statuses announced
    blsHeight, \* bls.Verifier.Height
    sent,      \* block updates on their way to the verifier
    bmv,       \* the verifier: its height, and whether it knows the next committee
    trouble, restarts

chainVars == <<head, blocks, updates, fork>>
handlerVars == <<pc, ev, slot, upd, retry, lastFU, from, buds, rss>>
linkVars == <<blsHeight, sent, bmv>>
vars == <<chainVars, handlerVars, linkVars, trouble, restarts>>

Slots == FirstSlot .. MaxSlot
Period(s) == SlotToSyncCommitteePeriod(s)

------------------------------------------------------------------------------
(* The beacon node, external *)

\* A finality update: attested, finalized and signature slot, and whether two
\* thirds of the sync committee signed.
Update == [a : Slots, f : Slots, sig : Slots, strong : BOOLEAN]

NoUpdate == [a |-> FirstSlot, f |-> FirstSlot, sig |-> FirstSlot, strong |-> FALSE]

LastBlock(s) == Max({b \in blocks : b <= s})

\* What the state of block a has finalized: the last block up to a checkpoint.
Finalized(a) == LastBlock(((a - FinalityDelay) \div SlotPerEpoch) * SlotPerEpoch)

\* A block carries the sync committee's signatures of the block before, and with
\* them the update for it.
Signs(sig, strong) ==
    LET a == LastBlock(sig)
    IN  IF a - FinalityDelay < FirstSlot THEN {}
        ELSE {[a |-> a, f |-> Finalized(a), sig |-> sig, strong |-> strong]}

Latest == CHOOSE u \in updates : \A v \in updates : v.sig <= u.sig

Unknown(u) == u.a >= fork

\* The node keeps the best update of a period: one signed by two thirds of the
\* committee, if there is any, and then one that finalizes a block of the period.
OfPeriod(p) == {u \in updates : Period(u.sig) = p /\ Period(u.a) = p}
Prefer(S, T) == IF S \cap T = {} THEN S ELSE S \cap T
Strong == {u \in updates : u.strong}
FinalInPeriod == {u \in updates : Period(u.f) = Period(u.sig)}
Best(p) == Prefer(Prefer(OfPeriod(p), Strong), FinalInPeriod)

\* LightClientUpdates(start, count): the best update of each period, up to one that
\* the node has none of.
Known(start, n) == \A p \in start .. start + n - 1 : Best(p) # {}
LightClientUpdates(start, count) ==
    LET n == Max({m \in 0 .. count : Known(start, m)})
    IN  {best \in [1 .. n -> updates] : \A i \in 1 .. n : best[i] \in Best(start + i - 1)}

Trouble == trouble < MaxTrouble /\ trouble' = trouble + 1

NewBlock(strong) ==
    /\ blocks' = blocks \cup {head'}
    /\ updates' = updates \cup Signs(head', strong)

Tick ==
    /\ head < MaxSlot
    /\ head' = head + 1
    /\ \/ NewBlock(TRUE) /\ UNCHANGED trouble
       \/ /\ Trouble
          /\ NewBlock(FALSE) \/ UNCHANGED <<blocks, updates>>
    /\ UNCHANGED <<fork, handlerVars, linkVars, restarts>>

------------------------------------------------------------------------------
(* blockUpdateData: attested, finalized and signature slot, and the attested   *)
(* slot the branch of the next sync committee was made for, 0 if there is none *)

Bud == [upd : Update, nsc : Slots \cup {0}]

FinalityBud(u, nsc) == [upd |-> u, nsc |-> nsc]

LightClientBud(u) == FinalityBud(u, u.a)

Status == [slot : Slots, buds : Seq(Bud)]

------------------------------------------------------------------------------
(* bmvinit and Start *)

\* getBMVInitialData: the finalized header and its own committee.
InitData == [height |-> FirstSlot, next |-> FALSE]

Init ==
    /\ head = FirstSlot /\ blocks = {FirstSlot} /\ updates = {}
    /\ fork \in Forks
    /\ pc = "idle" /\ ev = FirstSlot /\ slot = FirstSlot /\ upd = NoUpdate /\ retry = 0
    /\ lastFU = 0 /\ from = 0
    /\ buds = <<>> /\ rss = <<>>
    /\ bmv = InitData
    /\ blsHeight = InitData.height
    /\ sent = <<>>
    /\ trouble = 0 /\ restarts = 0

\* The relay, dead, starts again from the status of the destination.
Start ==
    /\ pc = "dead" /\ restarts < MaxRestarts
    /\ restarts' = restarts + 1
    /\ pc' = "idle" /\ slot' = FirstSlot /\ upd' = NoUpdate /\ retry' = 0 /\ lastFU' = 0
    /\ from' = 0 /\ buds' = <<>> /\ rss' = <<>> /\ ev' = head
    /\ blsHeight' = bmv.height
    /\ sent' = <<>>
    /\ UNCHANGED <<chainVars, bmv, trouble>>

Panic ==
    /\ pc' = "dead" /\ slot' = FirstSlot /\ upd' = NoUpdate /\ retry' = 0 /\ from' = 0
    /\ buds' = <<>>
    /\ UNCHANGED <<ev, lastFU, rss>>

Return ==
    /\ pc' = "idle" /\ slot' = FirstSlot /\ upd' = NoUpdate /\ retry' = 0 /\ from' = 0
    /\ buds' = <<>>
    /\ UNCHANGED <<ev, lastFU, rss>>

------------------------------------------------------------------------------
(* The event handler of Monitoring *)

\* An update of a fork that checkVersion does not know: the error of a finality
\* update is a panic; that of an optimistic update is not looked at, and the
\* nil update is dereferenced.
UnknownEvent(u) ==
    /\ pc = "idle" /\ u.sig > ev
    /\ Unknown(u)
    /\ Panic
    /\ UNCHANGED <<chainVars, linkVars, trouble, restarts>>

\* Slip: the last one is not looked at.
WantedAgain(u) == IsCheckPoint(u.f)

\* An update that is not at an epoch boundary, or that is processed already, is
\* skipped, which changes nothing.
Wanted(u) == IsCheckPoint(u.f) /\ lastFU # u.f

TakeEvent(u) ==
    /\ pc = "idle" /\ u.sig > ev
    /\ ~Unknown(u) /\ Wanted(u)
    /\ ev' = u.sig /\ slot' = u.f /\ upd' = u
    /\ pc' = "read"
    /\ UNCHANGED <<chainVars, retry, lastFU, from, buds, rss, linkVars, trouble, restarts>>

\* On a retry the update is the one just read.
Read == IF retry = 0 THEN upd ELSE Latest

\* Slip: one retry too many.
ReadOnceMore ==
    /\ pc = "read"
    /\ ~Unknown(Latest) /\ Latest.f <= upd.f
    /\ ~Read.strong /\ retry <= MaxRetry
    /\ upd' = Read
    /\ retry' = retry + 1
    /\ UNCHANGED <<chainVars, pc, ev, slot, lastFU, from, buds, rss, linkVars, trouble, restarts>>

\* Too few signatures: the node is asked again, up to MaxRetry times.
ReadAgain ==
    /\ pc = "read"
    /\ ~Unknown(Latest) /\ Latest.f <= upd.f
    /\ ~Read.strong /\ retry < MaxRetry
    /\ upd' = Read
    /\ retry' = retry + 1
    /\ UNCHANGED <<chainVars, pc, ev, slot, lastFU, from, buds, rss, linkVars, trouble, restarts>>

\* A later checkpoint is final, or the last retry failed.
GiveUp ==
    /\ pc = "read"
    /\ ~Unknown(Latest)
    /\ Latest.f > upd.f \/ (~Read.strong /\ retry = MaxRetry)
    /\ Return
    /\ UNCHANGED <<chainVars, linkVars, trouble, restarts>>

ReadFails ==
    /\ pc = "read"
    /\ IF Unknown(Latest) THEN UNCHANGED trouble ELSE Trouble
    /\ Panic
    /\ UNCHANGED <<chainVars, linkVars, restarts>>

ReadUpdate ==
    /\ pc = "read"
    /\ ~Unknown(Latest) /\ Latest.f <= upd.f
    /\ Read.strong
    /\ upd' = Read
    /\ lastFU' = Read.f
    /\ pc' = "periods"
    /\ UNCHANGED <<chainVars, ev, slot, retry, from, buds, rss, linkVars, trouble, restarts>>

------------------------------------------------------------------------------
(* makeBlockUpdateDatas *)

\* Slip: the first period is taken for known.
PeriodsToFetchAfter == Period(blsHeight) + 1 .. Period(upd.f) - 1

\* The periods whose light client update leads to the update's committee.
PeriodsToFetch == Period(blsHeight) .. Period(upd.f) - 1

FetchPeriods ==
    LET n == Cardinality(PeriodsToFetch)
        start == IF n = 0 THEN 0 ELSE Min(PeriodsToFetch)
    IN  /\ pc = "periods"
        /\ \E best \in LightClientUpdates(start, n) :
             /\ \A i \in DOMAIN best : ~Unknown(best[i])
             /\ buds' = [i \in DOMAIN best |-> LightClientBud(best[i])]
        /\ from' = Period(blsHeight)
        /\ pc' = "edge"
        /\ UNCHANGED <<chainVars, ev, slot, upd, retry, lastFU, rss, linkVars, trouble, restarts>>

\* At the first slot of a period the next committee is sent along, with the
\* branch of the period's best update.
LastBud ==
    IF IsSyncCommitteeEdge(upd.f)
    THEN {FinalityBud(upd, u.a) : u \in {b \in Best(Period(upd.f)) : ~Unknown(b)}}
    ELSE {FinalityBud(upd, 0)}

\* The status with the block updates is announced, for the slot of the event.
Announce ==
    /\ pc = "edge"
    /\ \E bud \in LastBud :
         rss' = Append(rss, [slot |-> slot, buds |-> Append(buds, bud)])
    /\ pc' = "idle" /\ slot' = FirstSlot /\ upd' = NoUpdate /\ retry' = 0 /\ from' = 0
    /\ buds' = <<>>
    /\ UNCHANGED <<chainVars, ev, lastFU, linkVars, trouble, restarts>>

\* A request fails, or the node has an update of an unknown fork: no status for
\* this checkpoint, which remains the last processed.
BuildFails ==
    /\ \/ pc \in {"periods", "edge"} /\ Trouble
       \/ /\ pc = "edge" /\ IsSyncCommitteeEdge(upd.f)
          /\ \E s \in Best(Period(upd.f)) : Unknown(s)
          /\ UNCHANGED trouble
    /\ Return
    /\ UNCHANGED <<chainVars, linkVars, restarts>>

\* The node answers the request for the next committee with an empty list.
NoCommittee ==
    /\ pc = "edge" /\ IsSyncCommitteeEdge(upd.f)
    /\ IF Best(Period(upd.f)) = {} THEN UNCHANGED trouble ELSE Trouble
    /\ Panic
    /\ UNCHANGED <<chainVars, linkVars, restarts>>

------------------------------------------------------------------------------
(* The relay message items *)

\* Slip: the height the update starts from.
TargetHeightSource(bus) == IF Len(bus) = 1 THEN blsHeight ELSE bus[Len(bus) - 1].upd.f

\* UpdateBMCLinkStatus with each block update in turn.
TargetHeight(bus) == bus[Len(bus)].upd.f

\* BuildBlockUpdate: the block updates of every status in rss.
BlockUpdatesOf(statuses) == FlattenSeq([i \in DOMAIN statuses |-> statuses[i].buds])

(* The link and the verifier, external.  The verifier follows the sync         *)
(* committee protocol of a light client.                                       *)

Relay ==
    /\ pc # "dead" /\ sent = <<>>
    /\ rss # <<>> /\ blsHeight < rss[Len(rss)].slot
    /\ sent' = BlockUpdatesOf(rss)
    /\ blsHeight' = TargetHeight(sent')
    /\ UNCHANGED <<chainVars, handlerVars, bmv, trouble, restarts>>

\* It is signed by the committee of the verifier's period or by the next one, if
\* that is known, and the branch of a next committee fits the attested header.
Accepts(v, b) ==
    /\ b.upd.strong
    /\ \/ Period(b.upd.sig) = Period(v.height)
       \/ v.next /\ Period(b.upd.sig) = Period(v.height) + 1
    /\ b.nsc \in {0, b.upd.a}

\* A later period begins with the committee known as next.
Advance(v, b) ==
    LET height == Max({b.upd.f, v.height})
    IN  [height |-> height,
         next |-> \/ Period(height) = Period(v.height) /\ v.next
                  \/ b.nsc # 0 /\ Period(b.upd.a) = Period(height)]

\* The verifier after 0, 1, ... block updates of bus.
Course(v, bus) ==
    LET after[i \in 0 .. Len(bus)] == IF i = 0 THEN v ELSE Advance(after[i - 1], bus[i])
    IN  after

Follows(v, bus) == \A i \in DOMAIN bus : Accepts(Course(v, bus)[i - 1], bus[i])

Accept ==
    /\ sent # <<>> /\ Follows(bmv, sent)
    /\ bmv' = Course(bmv, sent)[Len(sent)]
    /\ sent' = <<>>
    /\ UNCHANGED <<chainVars, handlerVars, blsHeight, trouble, restarts>>

\* The transaction is reverted, and the link begins again from the verifier.
Refuse ==
    /\ sent # <<>> /\ ~Follows(bmv, sent)
    /\ blsHeight' = bmv.height
    /\ sent' = <<>>
    /\ UNCHANGED <<chainVars, handlerVars, bmv, trouble, restarts>>

\* clearData, at one go.
Clear ==
    \E i \in DOMAIN rss :
        /\ pc # "dead" /\ sent = <<>>
        /\ rss[i].slot = bmv.height
        /\ rss' = SubSeq(rss, i + 1, Len(rss))
        /\ UNCHANGED <<chainVars, pc, ev, slot, upd, retry, lastFU, from, buds>>
        /\ UNCHANGED <<linkVars, trouble, restarts>>

------------------------------------------------------------------------------
Handle ==
    \/ ReadAgain \/ GiveUp \/ ReadFails \/ ReadUpdate
    \/ FetchPeriods \/ BuildFails \/ NoCommittee \/ Announce

\* An event may come late.
Event == \E u \in updates : UnknownEvent(u) \/ TakeEvent(u)

Link == Relay \/ Accept \/ Refuse \/ Clear

Next == Tick \/ Event \/ Handle \/ Link \/ Start

Spec == Init /\ [][Next]_vars

------------------------------------------------------------------------------
TypeOK ==
    /\ head \in Slots /\ blocks \subseteq Slots /\ updates \subseteq Update /\ fork \in Forks
    /\ pc \in {"idle", "read", "periods", "edge", "dead"}
    /\ ev \in Slots /\ slot \in Slots /\ upd \in Update /\ retry \in 0 .. MaxRetry
    /\ lastFU \in Slots \cup {0} /\ from \in Nat /\ buds \in Seq(Bud) /\ rss \in Seq(Status)
    /\ blsHeight \in Slots /\ sent \in Seq(Bud)
    /\ bmv \in [height : Slots, next : BOOLEAN]
    /\ trouble \in 0 .. MaxTrouble /\ restarts \in 0 .. MaxRestarts

\* The node has, for every period, an update most of the committee signed and
\* that finalizes a block of the period.
Served(periods) ==
    \A p \in periods : Best(p) # {} /\ Best(p) \subseteq Strong \cap FinalInPeriod

\* A status made for the verifier as it is leads it on, however many periods it
\* is behind: each block update is signed by a committee it has or learns from
\* the ones before (makeBlockUpdateDatas).  But for the next committee sent along
\* with another update's branch, and for an update a later period's committee
\* signed, which no block update before it brings, unless the verifier has it.
StatusLeadsOn ==
    [][Announce /\ rss = <<>> /\ sent = <<>>
         /\ blsHeight = bmv.height /\ Period(blsHeight) = from
         /\ Served(from .. Period(upd.f) - 1) =>
         \/ Follows(bmv, rss'[1].buds)
         \/ rss'[1].buds[Len(buds) + 1].nsc \notin {0, upd.a}
         \/ /\ Period(upd.sig) > Period(upd.f)
            /\ ~(/\ bmv.next /\ Period(bmv.height) = Period(upd.f)
                 /\ Period(upd.sig) = Period(upd.f) + 1)]_vars

\* When the verifier accepts what was relayed, it is at the height the relay
\* took it to be at, whatever the order of the heights on the way there
\* (BuildBlockUpdate, UpdateBMCLinkStatus).
PredictionRight == [][Accept => bmv'.height = blsHeight]_vars

\* The statuses waiting for the verifier are of different checkpoints in order,
\* also after retries that took another update than the event's.
StatusesAscend ==
    \A i \in DOMAIN rss : \A j \in 1 .. i - 1 : rss[j].slot < rss[i].slot
=============================================================================
