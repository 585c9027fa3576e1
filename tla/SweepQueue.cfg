\* A batch of one, and three incidents at a time of which any may be replaced
\* by a younger one at any moment.
SPECIFICATION QueueSpec
CONSTANTS
  Rows = {a, b, c}
  Types = {"LINK_DOWN", "LINK_FLAP"}
  Settle = 1
  SweepBatch = 1
  MaxRollbacks = 1
PROPERTIES
  NobodyStarves
