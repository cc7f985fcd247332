\* One request at a time while the rule tables move: its two reads of the rules straddle a change.
CONSTANTS
  k1 = k1
  k2 = k2
  r1 = r1
  c1 = c1
  NoRule = NoRule
  New = New
  NoKey = NoKey
  Keys <- TwoKeys
  RuleIds <- OneRule
  Callers <- OneCaller
  Default = k1
  MaxPending = 2
  Ids = {"id1", "id2"}
  Calls <- MCCalls
  Scenario = {"rules"}
SPECIFICATION GateSpec
INVARIANT RulesAsTheyStood
