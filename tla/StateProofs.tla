---------------------------- MODULE StateProofs ----------------------------
(***************************************************************************)
(* The proofs of chain/eth2/proof: generalized indices of a beacon state   *)
(* (gindex.go), and how the body of a node's answer becomes a proof        *)
(* (single.go, treeoffset.go).                                             *)
(*                                                                         *)
(* A body is known by the kind of proof it says it is (its first byte),    *)
(* the generalized index it proves and the bytes missing at its end; a     *)
(* message of an HTTP error is a body of another kind.  Outcomes are those *)
(* of Go: a value, an error, or a panic.                                   *)
(***************************************************************************)
EXTENDS BeaconTime, Sequences, FiniteSetsExt

CONSTANT SummariesLimit   \* historical summaries a state has room for, 2^24

\* Vectors and lists have a power of two of elements: 2^13 block roots, 2^24 summaries.
ASSUME StateAssumption ==
    /\ \E e \in 0 .. 29 : SlotPerHistoricalRoot = 2^e
    /\ \E e \in 0 .. 29 : SummariesLimit = 2^e

FloorLog2(n) == CHOOSE e \in 0 .. 30 : 2^e <= n /\ n < 2^(e + 1)

------------------------------------------------------------------------------
(* gindex.go *)

GIndexStateBlockRoots == 37
GIndexStateHistoricalSummaries == 118

ArrayIdxToGIndex(base, len, idx, elementSize) ==
    LET offset == (len + idx) * elementSize
    IN  (base - 1) * 2^FloorLog2(offset) + offset

BlockRootsIdxToGIndex(idx) ==
    ArrayIdxToGIndex(GIndexStateBlockRoots, SlotPerHistoricalRoot, idx, 1)

HistoricalSummariesIdxToGIndex(idx) ==
    ArrayIdxToGIndex(GIndexStateHistoricalSummaries, SummariesLimit, idx, 2)

(* The consensus specification's indices, external: a path of left (0) and     *)
(* right (1) steps from the root, of the state's 32 fields, of a vector's or a *)
(* list's elements, of a summary's two fields.                                 *)

Below(g, depth, i) == g * 2^depth + i
FieldOfState(i) == Below(1, 5, i)
BlockRootIndex(i) == Below(FieldOfState(5), FloorLog2(SlotPerHistoricalRoot), i)
SummaryIndex(k) ==
    Below(Below(Below(FieldOfState(27), 1, 0), FloorLog2(SummariesLimit), k), 1, 0)

------------------------------------------------------------------------------
(* The node's answers, external *)

SingleKind == 0
TreeOffsetKind == 1
OtherKind == 2

Body == [kind : {SingleKind, TreeOffsetKind, OtherKind}, empty : BOOLEAN,
         gindex : Nat, missing : 0 .. 4]

Answer(kind, g) == [kind |-> kind, empty |-> FALSE, gindex |-> g, missing |-> 0]

\* An answer cut short or lost, or an error's message.
Spoiled(body) ==
    {[body EXCEPT !.empty = TRUE], [body EXCEPT !.kind = OtherKind]}
      \cup {[body EXCEPT !.missing = n] : n \in {1, 3, 4}}

Depth(g) == FloorLog2(g)
Bit(g, j) == (g \div 2^(Depth(g) - j)) % 2    \* step j of the path to g

\* The tree offset proof of one leaf: at each node of the path, the number of
\* leaves under the left one; a sibling of the path is a leaf.
OffsetsOf(g) ==
    [j \in 1 .. Depth(g) |-> IF Bit(g, j) = 1 THEN 1 ELSE Depth(g) - j + 1]

------------------------------------------------------------------------------
(* treeoffset.go *)

\* Slip: left and right are taken for each other.
GetGIndexMirrored(offsets) ==
    LET value[j \in 0 .. Len(offsets)] ==
          IF j = 0 THEN 0 ELSE 2 * value[j - 1] + (IF offsets[j] = 1 THEN 0 ELSE 1)
    IN  2^Len(offsets) + value[Len(offsets)]

GetGIndex(offsets) ==
    LET value[j \in 0 .. Len(offsets)] ==
          IF j = 0 THEN 0 ELSE 2 * value[j - 1] + (IF offsets[j] = 1 THEN 1 ELSE 0)
    IN  2^Len(offsets) + value[Len(offsets)]

Ok(g) == [is |-> "ok", gindex |-> g]
Short(g) == [is |-> "short", gindex |-> g]    \* the last hash is not the node's
Error == [is |-> "error", gindex |-> 0]
Dies == [is |-> "panic", gindex |-> 0]
Wrong == [is |-> "wrong", gindex |-> 0]

\* The length check forgets the three bytes before the offsets: when up to three
\* are missing, the last leaf goes on in what the buffer holds beyond the answer.
NewTreeOffsetProof(body) ==
    IF body.empty THEN {Dies}
    ELSE IF body.kind # TreeOffsetKind THEN {Error}
    ELSE IF body.missing > 3 THEN {Error}
    ELSE IF body.missing > 0 THEN {Dies, Wrong}
    ELSE {Ok(GetGIndex(OffsetsOf(body.gindex)))}

\* The error is not looked at, and there is no proof to take the offsets of.
TreeOffsetProofToSSZProof(body) ==
    {IF o = Error THEN Dies ELSE o : o \in NewTreeOffsetProof(body)}

------------------------------------------------------------------------------
(* single.go *)

\* There is no length check: the last hash goes on in what the buffer holds beyond
\* an answer a few bytes short.  The index and the leaf come first.
NewSingleProof(body) ==
    IF body.empty THEN {Dies}
    ELSE IF body.kind # SingleKind THEN {Error}
    ELSE IF body.missing > 0 THEN {Dies, Short(body.gindex)}
    ELSE {Ok(body.gindex)}
=============================================================================
