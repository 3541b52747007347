---------------------------- MODULE ResultStream ----------------------------
(***************************************************************************)
(* What the sender promises to the link: the relay messages it took wait   *)
(* in the order they were taken, and each leaves the queue by its one      *)
(* final result, the oldest first; no other way leads out of the queue but *)
(* the end of the process.                                                 *)
(*                                                                         *)
(* Transactions are numbered in the order they were sent, so the queue is  *)
(* a set of numbers, with the least in front.                              *)
(***************************************************************************)
EXTENDS Integers

CONSTANTS MaxTx, Codes    \* bound: transactions; what a result can say

VARIABLES
    up,        \* the sender was asked for its status since it started
    waiting,   \* transactions whose messages wait for their final result
    outcome    \* the final result of each transaction, "none" if it has none

Tx == 1 .. MaxTx

Init == up = FALSE /\ waiting = {} /\ outcome = [t \in Tx |-> "none"]

Begin ==
    /\ ~up /\ up' = TRUE
    /\ UNCHANGED <<waiting, outcome>>

\* Relay returns without an error.
Take(t) ==
    /\ up
    /\ \A u \in waiting : u < t
    /\ outcome[t] = "none"
    /\ waiting' = waiting \cup {t}
    /\ UNCHANGED <<up, outcome>>

Answer(t, code) ==
    /\ up
    /\ t \in waiting /\ \A u \in waiting : t <= u
    /\ outcome[t] = "none"
    /\ outcome' = [outcome EXCEPT ![t] = code]
    /\ waiting' = waiting \ {t}
    /\ UNCHANGED up

\* A final result for a call of Relay that has not returned, or will fail.
AnswerEarly(t, code) ==
    /\ up
    /\ waiting = {}
    /\ outcome[t] = "none"
    /\ outcome' = [outcome EXCEPT ![t] = code]
    /\ UNCHANGED <<up, waiting>>

End ==
    /\ up' = FALSE /\ waiting' = {}
    /\ UNCHANGED outcome

Next ==
    \/ Begin
    \/ \E t \in Tx : Take(t)
    \/ \E t \in Tx, code \in Codes : Answer(t, code) \/ AnswerEarly(t, code)
    \/ End

Spec == Init /\ [][Next]_<<up, waiting, outcome>>
=============================================================================
