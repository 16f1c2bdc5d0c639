\* Three handlers and two request IDs, each brought by any handler, any number
\* of times.
CONSTANTS
  Handler = {h1, h2, h3}
  ClientStream = {h1, h2}
  MaxSeq = 2
SPECIFICATION FairClientSpec
INVARIANTS
  TypeOK
  OneOwner
  ProcessedInOrder
  HandledIsReleased
  NeverPanics
  AnswersItsRequest
PROPERTIES
  EveryHandlerReturns
  EachAnswered
