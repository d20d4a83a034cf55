SPECIFICATION CliSpec
CONSTANTS
  one = one
  two = two
  city = city
  mode = mode
  on = on
  Key = {city, mode}
  Value = {on}
  Unset = Unset
  Absent = Absent
  Blank = Blank
  Garbled = Garbled
  Command = {one, two}
  Listener = two
  Initial <- MCInitial
  Change <- MCChange
  MaxFaults = 1
  MaxEvents = 2
INVARIANTS
  StateUnlessDisturbed
  NothingMissed
PROPERTIES
  StoreSpec
  InterruptEnds
  EventsArrive
