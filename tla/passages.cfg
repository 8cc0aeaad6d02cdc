\* Every text of five lines, and every two texts that have five together.
SPECIFICATION Spec
CONSTANTS
  Terms <- SomeTerms
  Texts <- SomeTexts
  Queries <- SomeQueries
  Targets = {2, 4}
  Limits = {1, 2}
  Corpora <- SomeCorpora
  MostLines = 5
INVARIANTS
  TypeOK
  EveryLineOnce
  FencesWhole
  Sized
  
  QuoteComesFirst
  BestOnes
