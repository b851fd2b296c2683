SPECIFICATION Spec
CONSTANTS
  Panel <- MCPanel
  Subject = {s1, s2}
  Item = {a, b}
  MaxRequests = 3
  MaxChanges = 1
INVARIANTS PanelInv IdleShowsTheServer
PROPERTY SpinnerEnds
CHECK_DEADLOCK FALSE
