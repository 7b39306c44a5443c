\* A worker and two auxiliary threads that compete for one slot, with fairness:
\* two of them may wait for each other.
SPECIFICATION FairSpec
CONSTANTS
  w1 = w1 x1 = x1 x2 = x2 s1 = s1
  p = p a = a b = b
  Dedicated = {w1}
  Aux = {x1, x2}
  AuxSlots = {s1}
  Cells = {p}
  Objects = {a, b}
  InitialActive <- OneCell
  MaxDepth = 2
  NoSlot = NoSlot
  NoObj = NoObj
INVARIANTS NoUseAfterFree SlotsExclusive
PROPERTIES ImplementsGracePeriod 
