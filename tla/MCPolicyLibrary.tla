-------------------------- MODULE MCPolicyLibrary --------------------------
(***************************************************************************)
(* Instances of PolicyLibrary: the model answers with a rule, with one that*)
(* does not validate, or with no list, so that two answers to one text     *)
(* differ.                                                                 *)
(***************************************************************************)
EXTENDS PolicyLibrary

MCAnswers == {{[n |-> 1, valid |-> TRUE]}, {[n |-> 1, valid |-> FALSE]}}

Symmetry == Permutations(Indexes) \cup Permutations(Jobs)

=============================================================================
