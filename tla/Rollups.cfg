SPECIFICATION DashSpec
CONSTANTS
  Viewers = {v1}
  LastAsk = 7
  Runs = {r1, r2}
  HoursPerDay = 3
  StartTick = 7
  MaxTick = 8
  MaxEvents = 2
  MaxStarts = 2
  Ages = {2, 4}
  Window = 2
  EventDays = 1
  RollupDays = 1
SYMMETRY Symmetry
INVARIANTS TypeOK UniqueRows HourlyExact DailyHealed StatsHonest
