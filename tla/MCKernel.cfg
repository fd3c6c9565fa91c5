\* Every small installation; calls that fail half-way and are made again.
SPECIFICATION FairSpec
CONSTANTS
  N = 3
  Worlds <- Installations
  Closers = {1, 2, 3}
  MaxCloses = 2
INVARIANTS SnapshotIsOrdered RefusesOnlyTheImpossible
  BuiltOnceAfterItsNeeds NoReentry CyclesAreReal SecondCloseMeansRaised
PROPERTIES ClosedInReverse AlwaysReturns
CHECK_DEADLOCK FALSE
