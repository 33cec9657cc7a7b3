SPECIFICATION RefundsSpec
CONSTANTS
  Sold = {1, 2}
  Terminators = {1, 2}
  Exposed = {2}
  Vague = {1}
  Priceless = {1}
  BackfillMax = 2
  MaxMishaps = 1
CHECK_DEADLOCK FALSE
INVARIANT RecordedRefundIsReal
