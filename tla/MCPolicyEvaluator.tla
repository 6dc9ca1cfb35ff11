------------------------- MODULE MCPolicyEvaluator -------------------------
(***************************************************************************)
(* Small inputs for PolicyEvaluator: amounts on both sides of the two      *)
(* boundaries of the policy, two vendors, and lists of at most MaxRules    *)
(* rules drawn from every kind of rule the evaluator tells apart.          *)
(***************************************************************************)
EXTENDS PolicyEvaluator

CONSTANTS V7, V9, MaxRules

MCVendors == {V7, V9}

MCProposals ==
    [vendor_id : MCVendors, estimated_cost : {4999, 5000, 25000, 25001},
     recommended_qty : {100}, urgency : {"critical"}]

AmountRules ==
    {Rule("estimated_cost", op, t, v, o) :
        op \in {"<", ">="}, t \in {5000}, v \in {NoVendor, V7}, o \in Outcomes}

OddRules ==
    {Rule("recommended_qty", "==", 100, NoVendor, "needs_human"),
     Rule("urgency", "!=", 5000, NoVendor, "needs_human"),
     Rule("urgency", "==", 5000, NoVendor, "denied"),
     Rule("risk_score", ">", 5000, NoVendor, "auto_approved"),
     Rule("estimated_cost", "<", NoThreshold, NoVendor, "needs_human"),
     Rule("estimated_cost", "<=", NoThreshold, V9, "denied")}

MCRuleLists ==
    {FallbackRules(v) : v \in MCVendors}
    \cup UNION {[1..n -> AmountRules \cup OddRules] : n \in 0..MaxRules}

=============================================================================
