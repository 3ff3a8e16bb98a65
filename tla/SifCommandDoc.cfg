SPECIFICATION Spec
CONSTANTS
  Messages = 3
  MaxWalk = 3
  Durations = {1, 2}
PROPERTIES DeadlineCoversPayload
