---------------------------- MODULE MCRuleTables ----------------------------
(* Small instances of RuleTables. *)
EXTENDS RuleTables, TLC

CONSTANTS k1, k2, r1, r2, r3, c1
TwoKeys == {k1, k2}
ThreeRules == {r1, r2, r3}
OneCaller == {c1}
Interchangeable == Permutations(Keys) \cup Permutations(RuleIds) \cup Permutations(Callers)
=============================================================================
