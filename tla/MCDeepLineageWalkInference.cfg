SPECIFICATION Spec
CONSTANTS
  o1 = o1
  o2 = o2
  o3 = o3
  o4 = o4
  o5 = o5
  o6 = o6
  o7 = o7
  Root = Root
  Objects = {Root, o1, o2, o3, o4, o5, o6, o7}
  BatchDepth = 2
  Orders <- MCOrders
  Worlds <- MCInferred
  Requests <- MCInferring
INVARIANTS
  EveryDistanceIsShortest
CHECK_DEADLOCK FALSE
