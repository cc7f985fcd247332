\* Two links of an owner at the wall, time and again, and one dashboard page after another, one stamp of which may fail or come late.
CONSTANTS
  l1 = l1
  l2 = l2
  t1 = t1
  t2 = t2
  Links = {l1, l2}
  Tabs = {t1}
  Marks <- MCMarks
  RouteWindow = 1
  RepeatWindow = 0
  MaxTime = 2
  MaxHits = 2
  MaxFaults = 1
SYMMETRY Interchangeable
CHECK_DEADLOCK FALSE
SPECIFICATION Spec
PROPERTIES NoBounceBack VisitsLeadBack
