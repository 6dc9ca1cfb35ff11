--------------------------- MODULE ApprovalLedger ---------------------------
(***************************************************************************)
(* What the approval queue promises (docs/adr/ADR-004: "status transitions *)
(* pending -> approved/rejected"): an item is raised once, a human decides *)
(* it once, and the decision stands.                                       *)
(***************************************************************************)
CONSTANT Ids        \* approval ids

VARIABLE status     \* status[id], "absent" before the item is raised

Decisions == {"approved", "rejected"}
Statuses  == {"absent", "pending"} \cup Decisions

Init == status = [id \in Ids |-> "absent"]

Raise(id) ==
    /\ status[id] = "absent"
    /\ status' = [status EXCEPT ![id] = "pending"]

Decide(id, d) ==
    /\ status[id] = "pending"
    /\ status' = [status EXCEPT ![id] = d]

Next == \E id \in Ids : Raise(id) \/ \E d \in Decisions : Decide(id, d)

Spec == Init /\ [][Next]_status

=============================================================================
