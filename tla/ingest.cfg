CONSTANTS
  q1 = q1
  q2 = q2
  a1 = a1
  a2 = a2
  b1 = b1
  lob = lob
  None = None
  Bad = Bad
  Work <- MCWork
  Origin <- MCOrigin
  Queries = {q1, q2}
  Procs = {1, 2}
  Records = {a1, a2, b1}
  Answers <- MCAnswers
  MaxCalls <- MCMaxCalls
  MaxCrashes <- MCMaxCrashes
SPECIFICATION FairSpec
INVARIANTS TypeOK FetchedOnce FinishedIsRecorded
PROPERTIES  RecordedBecomesWhole
