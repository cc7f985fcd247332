\* Two requests in flight, two sets of recipients, uploads of two units and a rest.
CONSTANTS
  c1 = c1
  c2 = c2
  a = a
  b = b
  Callers <- TwoCallers
  Recipients <- TwoRecipients
  NoOne = NoOne
  Unit = 2
  Total = 5
  MaxReplays = 2
SYMMETRY Interchangeable
SPECIFICATION Spec
INVARIANTS SentAsChecked GrantedOnce
PROPERTY ForwardedOnlyWhatStood
