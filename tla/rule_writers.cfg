\* One call at a time, which may be killed between two statements.
CONSTANTS
  k1 = k1
  k2 = k2
  r1 = r1
  r2 = r2
  r3 = r3
  c1 = c1
  NoRule = NoRule
  New = New
  Keys <- TwoKeys
  RuleIds <- ThreeRules
  Callers <- OneCaller
SYMMETRY Interchangeable
SPECIFICATION Spec
INVARIANTS NeverNarrowed ApprovalSatisfiesRetry OthersUntouched SettingDecides
PROPERTY AgentRowsKept
