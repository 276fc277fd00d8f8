SPECIFICATION Spec
CONSTANTS
  d1 = d1
  d2 = d2
  m1 = m1
  m2 = m2
  Drafts = {d1, d2}
  Markets = {m1, m2}
  MarketOf <- TwoMarkets
  NoDraft = NoDraft
  InitialCash = 2
  Views = {v1}
  MaxPositions = 2
  MaxInterrupts = 1
  MaxViews = 2
INVARIANTS TypeOK PaidPerOpening OnePositionPerDraft MoneyRecorded
CHECK_DEADLOCK FALSE
