CONSTANTS
  d1 = d1
  d2 = d2
  v1 = v1
  v2 = v2
  c1 = c1
  n1 = n1
  n2 = n2
  n3 = n3
  p1 = p1
  p2 = p2
  None = None
  Empty = Empty
  Partial = Partial
  Docs = {d1, d2}
  Versions = {v1, v2}
  Concepts = {c1}
  Names = {n1, n2, n3}
  Procs = {p1, p2}
  Texts <- Recordable
  Mentions <- Extracted
  InsightName <- Titles
  ConceptName <- ConceptTitles
  Place <- Order
  MaxCrashes = 1
  MaxFaults = 2
SPECIFICATION Spec
INVARIANTS TypeOK OntologyWithinCorpus MissingIsUnmentioned LedgerTrue VaultCurrent
PROPERTY RewritesOnlyShared
SYMMETRY AnyProc
