SPECIFICATION FairSpec
CONSTANTS
  b1 = b1
  b2 = b2
  p1 = p1
  p2 = p2
  y1 = y1
  y2 = y2
  Bookings = {b1}
  Passengers = {p1, p2}
  PassengerOf <- OneBooking
  NoBooking = NoBooking
  Buyers = {y1}
  MaxRetries = 1
  MaxTickets = 2
  MaxFaults = 2
  LostReplies = TRUE
  ManualRecover = TRUE
  CompleteRetries = 2
  ParkRetries = 2
  MaxAttempts = 2
  RequeueRetries = 2
INVARIANT CollectedTicketIsReal
PROPERTY EveryRecoveringResolved
PROPERTY NoStrandedMoney
