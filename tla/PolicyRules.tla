---------------------------- MODULE PolicyRules ----------------------------
(***************************************************************************)
(* The data of the approval policy (app/policy/schema.py, app/models/      *)
(* procurement.py) and what one rule says about one proposal               *)
(* (app/policy/evaluator.py).  There are no variables here: PolicyEvaluator*)
(* runs the loops of evaluate_rules over these operators, and AgentWorkflow*)
(* uses the decision they compute.                                         *)
(*                                                                         *)
(* Amounts are whole dollars: the code compares floats, and the order of   *)
(* whole dollars is the order of the floats that carry them.               *)
(***************************************************************************)
EXTENDS Integers, Sequences

CONSTANTS
    Vendors,        \* vendor ids
    NoVendor,       \* vendor_constraint = None
    NoThreshold     \* threshold = None, the policy text gave no number

ASSUME SentinelAssumption ==
    /\ NoVendor \notin Vendors
    /\ NoThreshold \notin Int

Outcomes  == {"auto_approved", "needs_human", "denied"}
Operators == {"<", "<=", ">", ">=", "==", "!="}
Urgencies == {"low", "medium", "high", "critical"}

(***************************************************************************)
(* The fields of a proposal a rule may name.  The extraction prompt allows *)
(* the first three; a model may answer anything, and any other name stands *)
(* for an attribute the proposal does not have.                            *)
(***************************************************************************)
NumericFields == {"estimated_cost", "recommended_qty"}
TextFields    == {"urgency", "vendor_id"}

Proposal ==
    [vendor_id       : Vendors,
     estimated_cost  : Nat,
     recommended_qty : Nat,
     urgency         : Urgencies]

PolicyRule ==
    [condition_field   : STRING,
     operator          : Operators,
     threshold         : Int \cup {NoThreshold},
     vendor_constraint : Vendors \cup {NoVendor},
     on_violation      : Outcomes]

\* rule_id_fired: the position of the rule in the list, or one of the two
\* names the evaluator uses when no rule decides.
DEFAULT == 0
NONE    == -1

PolicyDecision == [outcome : Outcomes, rule_id_fired : Nat \cup {NONE}]

Decision(outcome, fired) == [outcome |-> outcome, rule_id_fired |-> fired]

-----------------------------------------------------------------------------

\* Defect: the inclusive bounds read as strict ones.
Compare_Strict(op, a, b) ==
    \/ op \in {"<", "<="} /\ a < b
    \/ op \in {">", ">="} /\ a > b
    \/ op = "==" /\ a = b
    \/ op = "!=" /\ a # b

Compare(op, a, b) ==
    \/ op = "<"  /\ a < b
    \/ op = "<=" /\ a <= b
    \/ op = ">"  /\ a > b
    \/ op = ">=" /\ a >= b
    \/ op = "==" /\ a = b
    \/ op = "!=" /\ a # b

(***************************************************************************)
(* Step 5.  Urgencies and vendor ids are words and a threshold prints as a *)
(* number, so their texts always differ: "==" never matches, "!=" always   *)
(* does, and the four orderings skip the rule.                             *)
(***************************************************************************)
Matches(p, r) ==
    \/ /\ r.condition_field \in NumericFields
       /\ Compare(r.operator, p[r.condition_field], r.threshold)
    \/ /\ r.condition_field \in TextFields
       /\ r.operator = "!="

\* Step 1.
Forbids(p, r) ==
    /\ r.vendor_constraint = p.vendor_id
    /\ r.on_violation = "denied"

\* Steps 3 and 4: the rule cannot be evaluated against this proposal.
Unevaluable(p, r) ==
    \/ r.condition_field \notin NumericFields \cup TextFields
    \/ r.threshold = NoThreshold

\* Step 5a: the matched rule names another vendor.
OtherVendor(p, r) == r.vendor_constraint \notin {NoVendor, p.vendor_id}

\* The rule says nothing about this proposal and the loop goes on.
Skips(p, r) ==
    /\ ~Unevaluable(p, r)
    /\ \/ ~Matches(p, r)
       \/ OtherVendor(p, r) /\ r.on_violation = "denied"

\* What a rule that is not skipped decides.
RuleOutcome(p, r) ==
    IF Unevaluable(p, r) \/ OtherVendor(p, r)
    THEN "needs_human" ELSE r.on_violation

-----------------------------------------------------------------------------
(***************************************************************************)
(* The decision, stated without the loops: forbidden vendors first, then   *)
(* the first rule that is not skipped, then approval.                      *)
(***************************************************************************)
Forbidding(p, rules) == {i \in 1..Len(rules) : Forbids(p, rules[i])}
Deciding(p, rules)   == {i \in 1..Len(rules) : ~Skips(p, rules[i])}
IsFirst(i, S)        == i \in S /\ \A j \in S : i <= j

IsDecisionOf(d, p, rules) ==
    \/ \E i \in Forbidding(p, rules) :
          /\ IsFirst(i, Forbidding(p, rules))
          /\ d = Decision("denied", i)
    \/ /\ rules = <<>>
       /\ d = Decision("needs_human", DEFAULT)
    \/ /\ Forbidding(p, rules) = {}
       /\ \E i \in Deciding(p, rules) :
             /\ IsFirst(i, Deciding(p, rules))
             /\ d = Decision(RuleOutcome(p, rules[i]), i)
    \/ /\ rules # <<>>
       /\ Forbidding(p, rules) \cup Deciding(p, rules) = {}
       /\ d = Decision("auto_approved", NONE)

-----------------------------------------------------------------------------

Rule(field, op, threshold, vendor, outcome) ==
    [condition_field |-> field, operator |-> op, threshold |-> threshold,
     vendor_constraint |-> vendor, on_violation |-> outcome]

\* _FALLBACK_RULES of the policy agent; `preferred' is V-7.
FallbackRules(preferred) ==
    <<Rule("estimated_cost", "<",  5000,  preferred, "auto_approved"),
      Rule("estimated_cost", "<=", 25000, NoVendor,  "needs_human"),
      Rule("estimated_cost", ">",  25000, NoVendor,  "denied")>>

=============================================================================
