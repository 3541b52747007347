----------------------------- MODULE BeaconTime -----------------------------
(***************************************************************************)
(* Slot arithmetic of the beacon chain, chain/eth2/time.go.  The code's    *)
(* numbers (32, 8192, 256 and the Capella fork epoch of the network) are   *)
(* parameters, so that the modules that need an epoch can be checked with  *)
(* short ones.                                                             *)
(***************************************************************************)
EXTENDS Integers

CONSTANTS
    SlotPerEpoch,                  \* 32
    EpochsPerSyncCommitteePeriod,  \* 256
    SlotPerHistoricalRoot,         \* 8192
    ForkEpochCapella               \* 194048 mainnet, 56832 sepolia, else 0

ASSUME TimeAssumption ==
    /\ SlotPerEpoch \in Nat \ {0}
    /\ EpochsPerSyncCommitteePeriod \in Nat \ {0}
    /\ SlotPerHistoricalRoot \in Nat \ {0}
    /\ ForkEpochCapella \in Nat

SlotToEpoch(s) == s \div SlotPerEpoch

EpochToSyncCommitteePeriod(e) == e \div EpochsPerSyncCommitteePeriod

SlotToSyncCommitteePeriod(s) == EpochToSyncCommitteePeriod(SlotToEpoch(s))

IsSyncCommitteeEdge(s) == s % (SlotPerEpoch * EpochsPerSyncCommitteePeriod) = 0

IsCheckPoint(s) == s % SlotPerEpoch = 0

SlotToBlockRootsIndex(s) == s % SlotPerHistoricalRoot

\* The code subtracts unsigned numbers: meaningful from the fork slot on.
SlotToHistoricalSummariesIndex(s) ==
    (s - ForkEpochCapella * SlotPerEpoch) \div SlotPerHistoricalRoot

HistoricalSummariesStartSlot(s) ==
    ForkEpochCapella * SlotPerEpoch
      + SlotToHistoricalSummariesIndex(s) * SlotPerHistoricalRoot
=============================================================================
