---------------------------- MODULE MCJobRunner ----------------------------
(* Instances of JobRunner for TLC. *)
EXTENDS JobRunner, TLC

CONSTANTS p1, p2, d1, v1, v2, t1, t2, mock, openai, mockModel, openaiModel

MockService == [provider |-> mock, model |-> mockModel]
OpenaiService == [provider |-> openai, model |-> openaiModel]
OneService == {MockService}
TwoServices == {MockService, OpenaiService}

\* A job of the CLI or of RQ names a provider and a model, one of the API only
\* the mock model.
CliMock == [type |-> "embed_document", provider |-> mock, model |-> mockModel]
CliOpenai == [type |-> "embed_document", provider |-> openai, model |-> openaiModel]
ApiMock == [type |-> "embed_document", provider |-> None, model |-> mockModel]
Foreign == [type |-> "other", provider |-> None, model |-> None]

CliRequest == {CliMock}
MockRequests == {CliMock, ApiMock}
ApiAndOpenai == {ApiMock, CliOpenai}
CliAndForeign == {CliMock, Foreign}

\* Two versions that share a text; a single version.
Shared == (v1 :> {t1, t2}) @@ (v2 :> {t2})
One == (v1 :> {t1})
=============================================================================
