SPECIFICATION Spec
CONSTANTS
  Messages = 3
  MaxWalk = 2
  Durations = {1, 2}
INVARIANT ExactlyOnce
PROPERTIES EndsIndependently NeverEarly Served KeepsLink
