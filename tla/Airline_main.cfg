\* Two passengers and more handlers than the queue has slots.
SPECIFICATION FairSpec
CONSTANTS
  Passengers = {p1, p2}
  Handlers = {h1, h2, h3}
  Screeners = {s1}
  Attendants = {a1}
  Stop = Stop
CHECK_DEADLOCK FALSE
INVARIANTS
  ServedOnce
  AdmittedIsServed
  LeavesFull
PROPERTIES
  StagesInOrder
  Departs
