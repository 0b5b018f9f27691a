CONSTANTS
    S = 2
    Jobs = {j1, j2, j3}
SPECIFICATION FairSpec
INVARIANTS JobInOnePlace SomebodyAwake
PROPERTIES FutureSettles DestructorReturns
