CONSTANTS
  Series <- MCSeries
  Recorded <- MCRecorded
  Arrivals <- MCArrivals
  Texts <- MCTexts
  BoundOf <- MCBoundOf
  Asked <- ParsedTexts
  SelectorsOf <- CollectSelectors
  AnswerOf <- AnswerTo
  PartsOf <- SubExpressions
  Millisecond = 2
  Second = 2
  Lookback = 6
  MaxSteps = 10
SPECIFICATION Spec
INVARIANTS
  ReadsAsMeant
  OneMoment
  SelectorsSeeTheirSamples
  RangeIsInstants
  SetOperatorsWorkBySample
  EstimatesStayInside
