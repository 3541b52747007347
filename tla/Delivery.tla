------------------------------ MODULE Delivery ------------------------------
(***************************************************************************)
(* What the receiver and the link promise to the destination chain: the    *)
(* messages of the source chain become final in the order they were sent;  *)
(* what the destination has verified and what it has received only grow,   *)
(* and it never receives a message it could not verify, nor verifies one   *)
(* that is not final, whatever was orphaned, rebuilt or lost in a crash.   *)
(***************************************************************************)
EXTENDS Integers

CONSTANT MaxTxSeq    \* bound: BTP messages sent on the source chain

VARIABLES
    finalized,   \* messages 1 .. finalized are in finalized blocks
    verified,    \* messages 1 .. verified are in blocks the verifier knows
    received     \* messages 1 .. received were executed

Init == finalized = 0 /\ verified = 0 /\ received = 0

Finalize ==
    /\ finalized' \in finalized .. MaxTxSeq
    /\ UNCHANGED <<verified, received>>

\* A relay message: a block update, message proofs, or both.
Execute ==
    /\ verified' \in verified .. finalized
    /\ received' \in received .. verified'
    /\ UNCHANGED finalized

Next == Finalize \/ Execute

Spec == Init /\ [][Next]_<<finalized, verified, received>>
=============================================================================
