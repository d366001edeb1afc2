\* Two orders placed, paid and cancelled on the days of the window.
\* The calendar ends with the window, so the system stops.
SPECIFICATION Spec
CONSTANTS
  o1 = o1  o2 = o2
  Orders = {o1, o2}
  Items <- Sold
  FirstYear = 2022
  LastYear = 2024
  Days <- Window
  NoDay = NoDay
INVARIANTS
  TypeOK
  FollowsCalendar
  RateIsNearest
CHECK_DEADLOCK FALSE
