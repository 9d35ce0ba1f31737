SPECIFICATION Spec
CONSTANTS
  Hours = 3
  DateNum = 3
  Online = {t1, t2}
  Clear = clear
  MaxDays = 6
  MaxShared = 2
  MaxCrash = 2
  MaxDown = 1
  MaxClear = 1
SYMMETRY Symmetry
CHECK_DEADLOCK FALSE
INVARIANT AreasKept
INVARIANT LogOrdered
 
