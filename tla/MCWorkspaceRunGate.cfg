SPECIFICATION Spec
CONSTANTS
  r1 = r1
  r2 = r2
  r3 = r3
  r4 = r4
  r5 = r5
  p1 = p1
  p2 = p2
  p3 = p3
  Runs = {r1, r2, r3, r4, r5}
  Processes = {p1, p2, p3}
  ProcessOf <- QueueAndTwo
  Mortal = {p2}
  Cancellable = {r2}
  Failing = {r4}
CHECK_DEADLOCK FALSE
INVARIANTS TypeOK SerializedWrites
PROPERTIES Implements EveryRunLeaves
