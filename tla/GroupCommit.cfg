SPECIFICATION Spec
CONSTANTS
  w1 = w1
  w2 = w2
  tick = tick
  flush = flush
  Writers <- MCWriters
  Tickers <- MCTickers
  Flushers <- MCFlushers
  MaxAppends = 2
INVARIANTS
  TypeOK
  UnsyncedIsCovered
  StagedIsDurable
  RotateAnswersTruthfully
PROPERTIES
  EveryWaiterAnswered
  AckedBecomesDurable
