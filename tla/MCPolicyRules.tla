---------------------------- MODULE MCPolicyRules -----------------------------
(* PolicyRules with a category and its child. *)
EXTENDS PolicyRules, TLC

CONSTANTS parent, child, t1, t2

FamilyParentOf == [c \in Categories |-> IF c = child THEN parent ELSE NoParent]

Symmetry == Permutations(Threads) \union Permutations(Policies)
            \union Permutations(RuleKeys) \union Permutations(TargetKeys)
===============================================================================
