------------------------------ MODULE MCSender ------------------------------
(* Instances of Sender for TLC: relay messages differ by their ids only. *)
EXTENDS Sender, TLC

IdSymmetry == Permutations(Ids)
=============================================================================
