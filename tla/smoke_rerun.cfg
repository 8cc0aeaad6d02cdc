CONSTANTS
  d1 = d1
  d2 = d2
  d3 = d3
  v1 = v1
  v2 = v2
  x = x
  y = y
  None = None
  Docs = {d1, d2, d3}
  Academic = {d2}
  Versions = {v1, v2}
  Concepts = {x, y}
  Mentions <- MCMentions
  Feeds <- TwoDocs
  Modes = {TRUE, FALSE}
  Foreign <- Other
  MaxCrashes = 1
  Outcomes = {"SUCCEEDED", "FAILED"}
SPECIFICATION Spec
INVARIANTS TypeOK  CommittedJobsComplete
PROPERTY RerunPreserves
