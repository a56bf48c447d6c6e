SPECIFICATION Spec
CONSTANTS
  Batteries = {b1, b2}
  MaxChanges = 3
  MaxFailures = 2
  MaxWakes = 1
INVARIANTS
  NextPollComes
  FreshAgrees
PROPERTY
  Converges
