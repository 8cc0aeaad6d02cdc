CONSTANTS
  d1 = d1
  d2 = d2
  d3 = d3
  v1 = v1
  v2 = v2
  x = x
  y = y
  None = None
  Docs = {d1, d2}
  Academic = {d2}
  Versions = {v1, v2}
  Concepts = {x, y}
  Mentions <- MCMentions
  Feeds <- OneDoi
  Modes = {TRUE}
  Foreign <- NoItems
  MaxCrashes = 0
  Outcomes = {"SUCCEEDED"}
SPECIFICATION Spec
INVARIANT CountsTrustworthy
