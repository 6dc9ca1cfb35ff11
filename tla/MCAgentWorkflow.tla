-------------------------- MODULE MCAgentWorkflow --------------------------
(***************************************************************************)
(* Instances of AgentWorkflow.  With 220 units on hand the three forecasts *)
(* need no order, an order of $3,696 and one of $29,568; with none they    *)
(* cost $4,620, $8,778 and $34,650: every branch of the fallback rules.    *)
(***************************************************************************)
EXTENDS AgentWorkflow

CONSTANTS V7, V9, M1042, M1001

MCVendors   == {V7}
TwoVendors  == {V7, V9}
MCMaterials == {M1042, M1001}
MCOnHand    == {0, 220}
MCDemand    == {200, 380, 1500}
FewDemands  == {200, 380}
OneLevel    == {220}
TwoDemands  == {200, 1500}

\* The fallback rules, and rules extracted from a stricter policy.
Fallback == {FallbackRules(V7)}
MCRuleBooks ==
    Fallback \cup {<<Rule("estimated_cost", ">=", 0, NoVendor, "needs_human")>>}

=============================================================================
