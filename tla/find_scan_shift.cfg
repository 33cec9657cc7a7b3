SPECIFICATION ShiftingSpec
CONSTANTS
  Instants = {1, 2, 3}
  Target = 2
  PageSize = 2
  MaxRows = 4
  MaxShifts = 1
CHECK_DEADLOCK FALSE
INVARIANT AbsentIsDefinitive
