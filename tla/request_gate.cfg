\* One request at a time, each plan of either surface, while one family of tables moves.
CONSTANTS
  k1 = k1
  k2 = k2
  r1 = r1
  c1 = c1
  NoRule = NoRule
  New = New
  NoKey = NoKey
  Keys <- TwoKeys
  RuleIds <- OneRule
  Callers <- OneCaller
  Default = k1
  MaxPending = 2
  Ids = {"id1", "id2"}
  Calls <- MCCalls
  Scenario = {"rules", "mailboxes", "credentials"}
SPECIFICATION GateSpec
INVARIANTS ArrivalsCovered OnlyWhatStood DeniedByTheRules
