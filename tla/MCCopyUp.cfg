CONSTANTS
  f1 = f1
  f2 = f2
  Openers = {o1, o2}
  Files = {f1, f2}
  Lower = Lower
  Ino <- DistinctInos
  Workers = {w1, w2}
  MaxAsks = 3
SPECIFICATION FairSpec
INVARIANTS WaiterStaysFindable WholeUnlessRaced
PROPERTIES OpenReturns ImplementsCopyUpSpec
