\* Violated: a data chunk sent again after the upload's end grants the created file again.
CONSTANTS
  c1 = c1
  c2 = c2
  a = a
  b = b
  Callers <- TwoCallers
  Recipients <- TwoRecipients
  NoOne = NoOne
  Unit = 2
  Total = 5
  MaxReplays = 1
SYMMETRY Interchangeable
SPECIFICATION Spec
INVARIANT GrantedJustOnce
