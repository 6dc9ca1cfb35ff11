-------------------------- MODULE MCApprovalQueue --------------------------
(***************************************************************************)
(* Instances of ApprovalQueue.  Ids, threads and requests are              *)
(* interchangeable, so the runs that check no liveness use their symmetry. *)
(***************************************************************************)
EXTENDS ApprovalQueue, TLC

Symmetry == Permutations(Ids) \cup Permutations(Threads) \cup Permutations(Reqs)

=============================================================================
