CONSTANTS
  d1 = d1
  v1 = v1
  v2 = v2
  t1 = t1
  t2 = t2
  mock = mock
  openai = openai
  mockModel = mockModel
  openaiModel = openaiModel
  p1 = p1
  p2 = p2
  None = None
  Procs = {p1}
  Docs = {d1}
  Academic = {}
  Versions = {v1, v2}
  Texts = {t1, t2}
  Content <- Shared
  Providers = {mock, openai}
  Models = {mockModel, openaiModel}
  Services <- OneService
  Requests <- CliRequest
  Commands = {"run_pending", "enqueue", "ingest"}
  MaxCrashes = 0
  MaxCalls = 2
SPECIFICATION Spec
INVARIANT SucceededCoversInput
