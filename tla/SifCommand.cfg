SPECIFICATION Spec
CONSTANTS
  Messages = 3
  MaxWalk = 3
  Durations = {1, 2}
INVARIANT ExactlyOnce
PROPERTIES WholeMessages NeverEarly Served KeepsLink
