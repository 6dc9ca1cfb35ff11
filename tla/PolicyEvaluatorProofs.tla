------------------------ MODULE PolicyEvaluatorProofs ------------------------
(***************************************************************************)
(* What evaluate_rules decides, for every proposal and every list of rules.*)
(***************************************************************************)
EXTENDS PolicyEvaluator, WellFoundedInduction, TLAPS

(***************************************************************************)
(* The inductive invariant: what the loops have established about the rules*)
(* before position i.  DecisionCorrect alone is not inductive, since it    *)
(* says nothing before the function returns.                               *)
(***************************************************************************)
Scanned(S) == \A k \in 1..(i - 1) : k \notin S

LoopInv ==
    /\ TypeOK
    /\ loop = "forbidden" => Scanned(Forbidding(proposal, rules))
    /\ loop = "rules" =>
          /\ rules # <<>>
          /\ Forbidding(proposal, rules) = {}
          /\ Scanned(Deciding(proposal, rules))
    /\ DecisionCorrect

-----------------------------------------------------------------------------

\* The arguments are proposals and rules of the declared types.
LEMMA ArgTypes ==
    ASSUME TypeOK
    PROVE  /\ proposal \in Proposal
           /\ rules \in Seq(PolicyRule)
           /\ Len(rules) \in Nat
           /\ i \in Nat \ {0}
           /\ \A k \in 1..Len(rules) : rules[k] \in PolicyRule
  BY InputAssumption DEF TypeOK

\* A rule decides one of the three outcomes.
LEMMA OutcomeType ==
    ASSUME NEW p, NEW r \in PolicyRule
    PROVE  RuleOutcome(p, r) \in Outcomes
  BY DEF RuleOutcome, PolicyRule, Outcomes

\* Every decision the code builds is a PolicyDecision.
LEMMA DecisionType ==
    ASSUME NEW o \in Outcomes, NEW fired \in Nat \cup {NONE}
    PROVE  Decision(o, fired) \in PolicyDecision
  BY DEF Decision, PolicyDecision

-----------------------------------------------------------------------------

LEMMA InitLoopInv == Init => LoopInv
  <1> SUFFICES ASSUME Init PROVE LoopInv
    OBVIOUS
  <1>1. rules \in Seq(PolicyRule)
    BY InputAssumption DEF Init
  <1>2. Undecided \in PolicyDecision
    BY DEF Undecided, PolicyDecision, Outcomes
  <1>3. TypeOK
    BY <1>1, <1>2 DEF Init, TypeOK
  <1>4. Scanned(Forbidding(proposal, rules))
    BY DEF Init, Scanned
  <1> QED
    BY <1>3, <1>4 DEF Init, LoopInv, DecisionCorrect

\* A turn of the loop over the forbidden vendors: the first rule that forbids
\* the vendor is the one that denies.
LEMMA CheckForbiddenStep == LoopInv /\ CheckForbidden => LoopInv'
  <1> SUFFICES ASSUME LoopInv, CheckForbidden PROVE LoopInv'
    OBVIOUS
  <1>1. TypeOK /\ Scanned(Forbidding(proposal, rules))
    BY DEF LoopInv, CheckForbidden
  <1>2. /\ i \in 1..Len(rules) /\ Len(rules) \in Nat
    BY <1>1, ArgTypes DEF CheckForbidden
  <1>3. CASE Forbids(proposal, rules[i]) /\ Return(Decision("denied", i))
    <2>1. Decision("denied", i) \in PolicyDecision
      BY <1>2, DecisionType DEF Outcomes
    <2>2. TypeOK'
      BY <1>1, <1>3, <2>1 DEF TypeOK, Return, args
    <2>3. IsFirst(i, Forbidding(proposal, rules))
      BY <1>1, <1>2, <1>3 DEF IsFirst, Forbidding, Scanned
    <2>4. IsDecisionOf(Decision("denied", i), proposal, rules)
      BY <2>3 DEF IsDecisionOf, IsFirst
    <2> QED
      BY <1>3, <2>2, <2>4 DEF LoopInv, DecisionCorrect, Return, args
  <1>4. CASE ~Forbids(proposal, rules[i]) /\ Continue
    <2>1. TypeOK'
      BY <1>1, <1>2, <1>4 DEF TypeOK, Continue, args
    <2>2. \A k \in 1..i : k \notin Forbidding(proposal, rules)
      BY <1>1, <1>2, <1>4 DEF Scanned, Forbidding
    <2>3. Scanned(Forbidding(proposal, rules))'
      BY <1>2, <1>4, <2>2 DEF Scanned, Forbidding, Continue, args
    <2> QED
      BY <1>4, <2>1, <2>3 DEF LoopInv, DecisionCorrect, Continue, args,
                              CheckForbidden
  <1> QED
    BY <1>3, <1>4 DEF CheckForbidden

\* Between the loops: no rule forbids the vendor.
LEMMA AfterForbiddenStep == LoopInv /\ AfterForbidden => LoopInv'
  <1> SUFFICES ASSUME LoopInv, AfterForbidden PROVE LoopInv'
    OBVIOUS
  <1>1. TypeOK /\ Scanned(Forbidding(proposal, rules)) /\ Len(rules) \in Nat
    BY ArgTypes DEF LoopInv, AfterForbidden
  <1>2. CASE rules = <<>> /\ Return(Decision("needs_human", DEFAULT))
    <2>1. Decision("needs_human", DEFAULT) \in PolicyDecision
      BY DecisionType DEF Outcomes, DEFAULT
    <2>2. TypeOK'
      BY <1>1, <1>2, <2>1 DEF TypeOK, Return, args
    <2>3. IsDecisionOf(Decision("needs_human", DEFAULT), proposal, rules)
      BY <1>2 DEF IsDecisionOf
    <2> QED
      BY <1>2, <2>2, <2>3 DEF LoopInv, DecisionCorrect, Return, args
  <1>3. CASE /\ rules # <<>>
             /\ loop' = "rules"
             /\ i' = 1
             /\ UNCHANGED <<args, decision>>
    <2>1. TypeOK'
      BY <1>1, <1>3 DEF TypeOK, args
    <2>2. Forbidding(proposal, rules) = {}
      <3>1. i = Len(rules) + 1
        BY <1>1 DEF AfterForbidden, TypeOK
      <3> QED
        BY <1>1, <3>1 DEF Scanned, Forbidding
    <2>3. Scanned(Deciding(proposal, rules))'
      BY <1>3 DEF Scanned
    <2> QED
      BY <1>3, <2>1, <2>2, <2>3 DEF LoopInv, DecisionCorrect, args
  <1> QED
    BY <1>2, <1>3 DEF AfterForbidden

\* A turn of the second loop: the first rule that is not skipped decides.
LEMMA CheckRuleStep == LoopInv /\ CheckRule => LoopInv'
  <1> SUFFICES ASSUME LoopInv, CheckRule PROVE LoopInv'
    OBVIOUS
  <1>1. /\ TypeOK
        /\ rules # <<>>
        /\ Forbidding(proposal, rules) = {}
        /\ Scanned(Deciding(proposal, rules))
    BY DEF LoopInv, CheckRule
  <1>2. /\ i \in 1..Len(rules)
        /\ Len(rules) \in Nat
        /\ rules[i] \in PolicyRule
    BY <1>1, ArgTypes DEF CheckRule
  <1>3. CASE Skips(proposal, rules[i]) /\ Continue
    <2>1. TypeOK'
      BY <1>1, <1>2, <1>3 DEF TypeOK, Continue, args
    <2>2. \A k \in 1..i : k \notin Deciding(proposal, rules)
      BY <1>1, <1>2, <1>3 DEF Scanned, Deciding
    <2>3. Scanned(Deciding(proposal, rules))'
      BY <1>2, <1>3, <2>2 DEF Scanned, Deciding, Continue, args
    <2> QED
      BY <1>1, <1>3, <2>1, <2>3 DEF LoopInv, DecisionCorrect, Continue, args,
                                    CheckRule
  <1>4. CASE /\ ~Skips(proposal, rules[i])
             /\ Return(Decision(RuleOutcome(proposal, rules[i]), i))
    <2> DEFINE d == Decision(RuleOutcome(proposal, rules[i]), i)
    <2>1. d \in PolicyDecision
      BY <1>2, OutcomeType, DecisionType
    <2>2. TypeOK'
      BY <1>1, <1>4, <2>1 DEF TypeOK, Return, args
    <2>3. IsFirst(i, Deciding(proposal, rules))
      BY <1>1, <1>2, <1>4 DEF IsFirst, Deciding, Scanned
    <2>4. IsDecisionOf(d, proposal, rules)
      BY <1>1, <2>3 DEF IsDecisionOf, IsFirst
    <2> QED
      BY <1>4, <2>2, <2>4 DEF LoopInv, DecisionCorrect, Return, args
  <1> QED
    BY <1>3, <1>4 DEF CheckRule

\* The second loop ran to its end: no rule decides.
LEMMA NoRuleFiredStep == LoopInv /\ NoRuleFired => LoopInv'
  <1> SUFFICES ASSUME LoopInv, NoRuleFired PROVE LoopInv'
    OBVIOUS
  <1>1. /\ TypeOK
        /\ rules # <<>>
        /\ Forbidding(proposal, rules) = {}
        /\ Scanned(Deciding(proposal, rules))
        /\ Len(rules) \in Nat
    BY ArgTypes DEF LoopInv, NoRuleFired
  <1>2. Decision("auto_approved", NONE) \in PolicyDecision
    BY DecisionType DEF Outcomes
  <1>3. TypeOK'
    BY <1>1, <1>2 DEF TypeOK, NoRuleFired, Return, args
  <1>4. Deciding(proposal, rules) = {}
    <2>1. i = Len(rules) + 1
      BY <1>1 DEF NoRuleFired, TypeOK
    <2> QED
      BY <1>1, <2>1 DEF Scanned, Deciding
  <1>5. IsDecisionOf(Decision("auto_approved", NONE), proposal, rules)
    BY <1>1, <1>4 DEF IsDecisionOf
  <1> QED
    BY <1>3, <1>5 DEF LoopInv, DecisionCorrect, NoRuleFired, Return, args

LEMMA StutterStep == LoopInv /\ UNCHANGED vars => LoopInv'
  BY DEF LoopInv, TypeOK, DecisionCorrect, Scanned, vars

\* Every reachable state satisfies the loop invariant.
THEOREM LoopInvariant == Spec => []LoopInv
  <1>1. Init => LoopInv
    BY InitLoopInv
  <1>2. LoopInv /\ [Next]_vars => LoopInv'
    BY CheckForbiddenStep, AfterForbiddenStep, CheckRuleStep,
       NoRuleFiredStep, StutterStep DEF Next
  <1> QED
    BY <1>1, <1>2, PTL DEF Spec

\* The variables keep their types: the loops never read past the list, and
\* the function returns only the three outcomes of PolicyDecision.
THEOREM TypeCorrect == Spec => []TypeOK
  <1>1. LoopInv => TypeOK
    BY DEF LoopInv
  <1> QED
    BY <1>1, LoopInvariant, PTL

\* evaluate_rules decides what IsDecisionOf says, whatever rules the language
\* model extracted and in whatever order.
THEOREM EvaluatorCorrect == Spec => []DecisionCorrect
  <1>1. LoopInv => DecisionCorrect
    BY DEF LoopInv
  <1> QED
    BY <1>1, LoopInvariant, PTL

-----------------------------------------------------------------------------

\* A vendor some rule forbids is denied, wherever that rule stands.
THEOREM ForbiddenNeverApproved == Spec => []ForbiddenVendorDenied
  <1>1. DecisionCorrect => ForbiddenVendorDenied
    <2> SUFFICES ASSUME DecisionCorrect, loop = "done",
                        Forbidding(proposal, rules) # {}
                 PROVE  decision.outcome = "denied"
      BY DEF ForbiddenVendorDenied
    <2>1. IsDecisionOf(decision, proposal, rules)
      BY DEF DecisionCorrect
    <2>2. rules # <<>>
      BY DEF Forbidding
    <2> QED
      BY <2>1, <2>2 DEF IsDecisionOf, Decision
  <1> QED
    BY <1>1, EvaluatorCorrect, PTL

-----------------------------------------------------------------------------
(***************************************************************************)
(* IsDecisionOf is a relation; that it is a function of the proposal and   *)
(* the rules is what makes it a specification of evaluate_rules.           *)
(***************************************************************************)

LEMMA FirstUnique ==
    ASSUME NEW S \in SUBSET Nat, NEW a, NEW b, IsFirst(a, S), IsFirst(b, S)
    PROVE  a = b
  BY DEF IsFirst

LEMMA FirstExists ==
    ASSUME NEW S \in SUBSET Nat, S # {}
    PROVE  \E a : IsFirst(a, S)
  <1>1. PICK a \in S : \A b \in S : ~(<<b, a>> \in OpToRel(<, Nat))
    BY NatLessThanWellFounded, WFMin
  <1>2. ASSUME NEW b \in S, b < a PROVE FALSE
    <2>1. <<b, a>> \in OpToRel(<, Nat)
      BY <1>2 DEF OpToRel
    <2> QED
      BY <1>1, <2>1
  <1> QED
    BY <1>2 DEF IsFirst

\* A rule reads of the urgency only whether it is compared, never which one it is:
\* the workflow, which has no safety stock to compute it from, may take any.
LEMMA UrgencyIdle ==
    ASSUME NEW p \in Proposal, NEW u \in Urgencies, NEW rs \in Seq(PolicyRule)
    PROVE  \A d : IsDecisionOf(d, [p EXCEPT !.urgency = u], rs) <=> IsDecisionOf(d, p, rs)
  <1> DEFINE q == [p EXCEPT !.urgency = u]
  <1>1. /\ q.vendor_id = p.vendor_id
        /\ \A field \in NumericFields : q[field] = p[field]
    BY DEF Proposal, NumericFields
  <1> HIDE DEF q
  <1>2. ASSUME NEW k \in 1..Len(rs)
        PROVE  /\ Forbids(q, rs[k]) <=> Forbids(p, rs[k])
               /\ Matches(q, rs[k]) <=> Matches(p, rs[k])
               /\ OtherVendor(q, rs[k]) <=> OtherVendor(p, rs[k])
               /\ Unevaluable(q, rs[k]) <=> Unevaluable(p, rs[k])
    BY <1>1 DEF Forbids, Matches, OtherVendor, Unevaluable
  <1>3. ASSUME NEW k \in 1..Len(rs)
        PROVE  /\ Skips(q, rs[k]) <=> Skips(p, rs[k])
               /\ RuleOutcome(q, rs[k]) = RuleOutcome(p, rs[k])
    BY <1>2 DEF Skips, RuleOutcome
  <1>4. /\ Forbidding(q, rs) = Forbidding(p, rs) /\ Deciding(q, rs) = Deciding(p, rs)
        /\ \A k \in Deciding(p, rs) : RuleOutcome(q, rs[k]) = RuleOutcome(p, rs[k])
    BY <1>2, <1>3 DEF Forbidding, Deciding
  <1>5. \A d : IsDecisionOf(d, q, rs) <=> IsDecisionOf(d, p, rs)
    BY <1>4 DEF IsDecisionOf
  <1> QED
    BY <1>5 DEF q

\* README: the Policy Agent "evaluates deterministically".  Any proposal and any
\* list of rules have one decision, and only one: the outcome and also the
\* rule_id_fired that goes to the audit log.
THEOREM DecisionDetermined ==
    ASSUME NEW p, NEW rs \in Seq(PolicyRule)
    PROVE  \E d : \A e : IsDecisionOf(e, p, rs) <=> e = d
  <1> DEFINE F == Forbidding(p, rs)
             D == Deciding(p, rs)
             Settles(d) == \A e : IsDecisionOf(e, p, rs) <=> e = d
  <1> SUFFICES \E d : Settles(d)
    OBVIOUS
  <1>1. F \in SUBSET Nat /\ D \in SUBSET Nat
    BY DEF Forbidding, Deciding
  <1>2. rs = <<>> => F = {} /\ D = {}
    BY DEF Forbidding, Deciding
  <1>3. ASSUME NEW e
        PROVE  IsDecisionOf(e, p, rs) <=>
                  \/ \E k \in F : IsFirst(k, F) /\ e = Decision("denied", k)
                  \/ rs = <<>> /\ e = Decision("needs_human", DEFAULT)
                  \/ /\ F = {}
                     /\ \E k \in D : /\ IsFirst(k, D)
                                     /\ e = Decision(RuleOutcome(p, rs[k]), k)
                  \/ rs # <<>> /\ F = {} /\ D = {} /\ e = Decision("auto_approved", NONE)
    <2>1. F \cup D = {} <=> F = {} /\ D = {}
      OBVIOUS
    <2> QED
      BY <2>1 DEF IsDecisionOf
  <1> HIDE DEF F, D
  <1>4. CASE F # {}
    <2>1. PICK k : IsFirst(k, F)
      BY <1>1, <1>4, FirstExists
    <2>2. k \in F /\ \A j : IsFirst(j, F) => j = k
      BY <1>1, <2>1, FirstUnique DEF IsFirst
    <2>3. Settles(Decision("denied", k))
      BY <1>2, <1>3, <1>4, <2>1, <2>2
    <2> HIDE DEF Settles
    <2> QED
      BY <2>3
  <1>5. CASE F = {} /\ D # {}
    <2>1. PICK k : IsFirst(k, D)
      BY <1>1, <1>5, FirstExists
    <2>2. k \in D /\ \A j : IsFirst(j, D) => j = k
      BY <1>1, <2>1, FirstUnique DEF IsFirst
    <2>3. Settles(Decision(RuleOutcome(p, rs[k]), k))
      BY <1>2, <1>3, <1>5, <2>1, <2>2
    <2> HIDE DEF Settles
    <2> QED
      BY <2>3
  <1>6. CASE F = {} /\ D = {} /\ rs # <<>>
    <2>1. Settles(Decision("auto_approved", NONE))
      BY <1>3, <1>6
    <2> HIDE DEF Settles
    <2> QED
      BY <2>1
  <1>7. CASE rs = <<>>
    <2>1. Settles(Decision("needs_human", DEFAULT))
      BY <1>2, <1>3, <1>7
    <2> HIDE DEF Settles
    <2> QED
      BY <2>1
  <1> QED
    BY <1>4, <1>5, <1>6, <1>7

\* What each fallback rule says of a proposal, at every amount.
LEMMA FallbackRule ==
    ASSUME NEW p \in Proposal, NEW v \in Vendors
    PROVE  LET rs == FallbackRules(v)
               c  == p.estimated_cost
           IN  /\ Len(rs) = 3
               /\ \A k \in 1..3 : ~Forbids(p, rs[k])
               /\ Skips(p, rs[1]) <=> ~(c < 5000)
               /\ Skips(p, rs[2]) <=> ~(c <= 25000)
               /\ Skips(p, rs[3]) <=> ~(c > 25000)
               /\ RuleOutcome(p, rs[1]) =
                      IF p.vendor_id = v THEN "auto_approved" ELSE "needs_human"
               /\ RuleOutcome(p, rs[2]) = "needs_human"
               /\ RuleOutcome(p, rs[3]) = "denied"
  <1> DEFINE rs == FallbackRules(v)
             c  == p.estimated_cost
  <1>1. /\ c \in Nat /\ p.vendor_id \in Vendors
        /\ p.vendor_id # NoVendor /\ v # NoVendor
    BY SentinelAssumption DEF Proposal
  <1>2. /\ Len(rs) = 3
        /\ rs[1] = Rule("estimated_cost", "<",  5000,  v,        "auto_approved")
        /\ rs[2] = Rule("estimated_cost", "<=", 25000, NoVendor, "needs_human")
        /\ rs[3] = Rule("estimated_cost", ">",  25000, NoVendor, "denied")
    BY DEF FallbackRules
  <1>3. \A k \in 1..3 :
            /\ rs[k].condition_field = "estimated_cost"
            /\ rs[k].threshold \in {5000, 25000}
    <2>1. \A k \in 1..3 : k = 1 \/ k = 2 \/ k = 3
      OBVIOUS
    <2> QED
      BY <1>2, <2>1 DEF Rule
  <1>4. \A k \in 1..3 : ~Unevaluable(p, rs[k])
    BY <1>3, SentinelAssumption DEF Unevaluable, NumericFields, TextFields
  <1>5. /\ Matches(p, rs[1]) <=> c < 5000
        /\ Matches(p, rs[2]) <=> c <= 25000
        /\ Matches(p, rs[3]) <=> c > 25000
    BY <1>1, <1>2 DEF Matches, Compare, Rule, NumericFields, TextFields
  <1>6. /\ OtherVendor(p, rs[1]) <=> p.vendor_id # v
        /\ ~OtherVendor(p, rs[2])
        /\ ~OtherVendor(p, rs[3])
    BY <1>1, <1>2 DEF OtherVendor, Rule
  <1>7. \A k \in 1..3 : ~Forbids(p, rs[k])
    <2>1. ~Forbids(p, rs[1]) /\ ~Forbids(p, rs[2]) /\ ~Forbids(p, rs[3])
      BY <1>1, <1>2 DEF Forbids, Rule
    <2>2. \A k \in 1..3 : k = 1 \/ k = 2 \/ k = 3
      OBVIOUS
    <2> QED
      BY <2>1, <2>2
  <1>8. /\ Skips(p, rs[1]) <=> ~(c < 5000)
        /\ Skips(p, rs[2]) <=> ~(c <= 25000)
        /\ Skips(p, rs[3]) <=> ~(c > 25000)
    BY <1>2, <1>4, <1>5, <1>6 DEF Skips, Rule
  <1>9. /\ RuleOutcome(p, rs[1]) =
               IF p.vendor_id = v THEN "auto_approved" ELSE "needs_human"
        /\ RuleOutcome(p, rs[2]) = "needs_human"
        /\ RuleOutcome(p, rs[3]) = "denied"
    BY <1>2, <1>4, <1>6 DEF RuleOutcome, Rule
  <1> QED
    BY <1>2, <1>7, <1>8, <1>9

\* The fallback rules of the policy agent encode the tiers of POL-PROC-001 at
\* every amount, for preferred and other vendors.
THEOREM FallbackCorrect == Spec => []FallbackFollowsTiers
  <1>1. TypeOK /\ DecisionCorrect => FallbackFollowsTiers
    <2> SUFFICES ASSUME TypeOK, DecisionCorrect, loop = "done",
                        NEW v \in Vendors, rules = FallbackRules(v)
                 PROVE  decision.outcome = Tier(proposal, v)
      BY DEF FallbackFollowsTiers
    <2> DEFINE c == proposal.estimated_cost
               D == Deciding(proposal, rules)
    <2>1. proposal \in Proposal /\ c \in Nat
      BY ArgTypes DEF Proposal
    <2>2. /\ Forbidding(proposal, rules) = {}
          /\ rules # <<>>
      BY <2>1, FallbackRule DEF Forbidding, FallbackRules
    <2>3. /\ D \subseteq 1..3
          /\ 1 \in D <=> c < 5000
          /\ 2 \in D <=> c <= 25000
          /\ 3 \in D <=> c > 25000
      BY <2>1, FallbackRule DEF Deciding
    <2>4. PICK k \in D : /\ IsFirst(k, D)
                         /\ decision = Decision(RuleOutcome(proposal, rules[k]), k)
      BY <2>1, <2>2, <2>3 DEF DecisionCorrect, IsDecisionOf
    <2>5. decision.outcome = RuleOutcome(proposal, rules[k])
      BY <2>4 DEF Decision
    <2>6. CASE c < 5000
      <3>1. k = 1
        BY <2>1, <2>3, <2>4, <2>6 DEF IsFirst
      <3> QED
        BY <2>1, <2>5, <2>6, <3>1, FallbackRule DEF Tier
    <2>7. CASE ~(c < 5000) /\ c <= 25000
      <3>1. k = 2
        BY <2>1, <2>3, <2>4, <2>7 DEF IsFirst
      <3> QED
        BY <2>1, <2>5, <2>7, <3>1, FallbackRule DEF Tier
    <2>8. CASE c > 25000
      <3>1. k = 3
        BY <2>1, <2>3, <2>4, <2>8 DEF IsFirst
      <3> QED
        BY <2>1, <2>5, <2>8, <3>1, FallbackRule DEF Tier
    <2> QED
      BY <2>1, <2>6, <2>7, <2>8
  <1> QED
    BY <1>1, TypeCorrect, EvaluatorCorrect, PTL

=============================================================================
