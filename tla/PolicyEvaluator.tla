-------------------------- MODULE PolicyEvaluator --------------------------
(***************************************************************************)
(* evaluate_rules of app/policy/evaluator.py, one action per branch of its *)
(* two loops.  The inputs are chosen in Init: any proposal, and any list   *)
(* of rules a language model may have extracted, in any order.             *)
(***************************************************************************)
EXTENDS PolicyRules

CONSTANTS
    Proposals,      \* the proposals to evaluate
    RuleLists       \* the rule lists to evaluate them against

ASSUME InputAssumption ==
    /\ Proposals \subseteq Proposal
    /\ RuleLists \subseteq Seq(PolicyRule)

VARIABLES
    proposal, rules,    \* the arguments
    loop,               \* "forbidden", "rules" or "done"
    i,                  \* the position of the rule the loop looks at
    decision            \* the value returned, when loop = "done"

vars == <<proposal, rules, loop, i, decision>>
args == <<proposal, rules>>

Undecided == [outcome |-> "needs_human", rule_id_fired |-> 0]

Init ==
    /\ proposal \in Proposals
    /\ rules \in RuleLists
    /\ loop = "forbidden"
    /\ i = 1
    /\ decision = Undecided

Return(d) ==
    /\ decision' = d
    /\ loop' = "done"
    /\ UNCHANGED <<args, i>>

\* Defect: every other rule is passed over.
Continue_Twice ==
    /\ i' = i + 2
    /\ UNCHANGED <<args, loop, decision>>

Continue ==
    /\ i' = i + 1
    /\ UNCHANGED <<args, loop, decision>>

\* Defect: the loop ends at the first rule that does not forbid the vendor.
CheckForbidden_Break ==
    /\ loop = "forbidden"
    /\ i <= Len(rules)
    /\ \/ Forbids(proposal, rules[i]) /\ Return(Decision("denied", i))
       \/ /\ ~Forbids(proposal, rules[i])
          /\ i' = Len(rules) + 1
          /\ UNCHANGED <<args, loop, decision>>

\* Step 1: one turn of the loop over the forbidden vendors.
CheckForbidden ==
    /\ loop = "forbidden"
    /\ i <= Len(rules)
    /\ \/ Forbids(proposal, rules[i]) /\ Return(Decision("denied", i))
       \/ ~Forbids(proposal, rules[i]) /\ Continue

\* Defect: the second loop goes on where the first one ended.
AfterForbidden_NoReset ==
    /\ loop = "forbidden"
    /\ i > Len(rules)
    /\ \/ /\ rules = <<>>
          /\ Return(Decision("needs_human", DEFAULT))
       \/ /\ rules # <<>>
          /\ loop' = "rules"
          /\ UNCHANGED <<args, i, decision>>

\* Step 2, between the loops.
AfterForbidden ==
    /\ loop = "forbidden"
    /\ i > Len(rules)
    /\ \/ /\ rules = <<>>
          /\ Return(Decision("needs_human", DEFAULT))
       \/ /\ rules # <<>>
          /\ loop' = "rules"
          /\ i' = 1
          /\ UNCHANGED <<args, decision>>

\* Steps 3 to 5a: one turn of the loop over the rules.
CheckRule ==
    /\ loop = "rules"
    /\ i <= Len(rules)
    /\ \/ /\ Skips(proposal, rules[i])
          /\ Continue
       \/ /\ ~Skips(proposal, rules[i])
          /\ Return(Decision(RuleOutcome(proposal, rules[i]), i))

\* Step 6.
NoRuleFired ==
    /\ loop = "rules"
    /\ i > Len(rules)
    /\ Return(Decision("auto_approved", NONE))

Next == CheckForbidden \/ AfterForbidden \/ CheckRule \/ NoRuleFired

Spec == Init /\ [][Next]_vars

-----------------------------------------------------------------------------

TypeOK ==
    /\ proposal \in Proposals
    /\ rules \in RuleLists
    /\ loop \in {"forbidden", "rules", "done"}
    /\ i \in 1..(Len(rules) + 1)
    /\ decision \in PolicyDecision

\* The loops compute the decision stated without them: a forbidden vendor
\* wins over every threshold wherever its rule stands in the list, then the
\* first rule that is not skipped decides (evaluator.py, "Decision order").
DecisionCorrect ==
    loop = "done" => IsDecisionOf(decision, proposal, rules)

\* No order of the rules lets a proposal to a forbidden vendor through: an
\* approving rule placed before the forbidding one does not help it.
ForbiddenVendorDenied ==
    loop = "done" /\ Forbidding(proposal, rules) # {} =>
        decision.outcome = "denied"

\* The approval tiers of POL-PROC-001 (policies/POL-PROC-001.json, sections
\* 2 and 3.1), which the fallback rules are meant to encode.
Tier(p, preferred) ==
    IF p.estimated_cost > 25000 THEN "denied"
    ELSE IF p.estimated_cost < 5000 /\ p.vendor_id = preferred
         THEN "auto_approved" ELSE "needs_human"

\* Evaluating the fallback rules gives the tier of the policy document at
\* every amount, both boundaries included, for preferred and other vendors.
FallbackFollowsTiers ==
    loop = "done" =>
        \A v \in Vendors :
            rules = FallbackRules(v) => decision.outcome = Tier(proposal, v)

=============================================================================
