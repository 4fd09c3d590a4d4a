\* Two tests on a machine, two notifications.
SPECIFICATION Spec
CONSTANTS
  Tests = {t1, t2}
  MaxSent = 2
  t1 = t1
  t2 = t2
SYMMETRY Symmetry
INVARIANTS TypeOK NothingLost BindNeedsPath
CHECK_DEADLOCK FALSE
