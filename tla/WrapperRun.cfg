\* Two slots for invocations, invoked again and again, two hits in all.
SPECIFICATION FairSpec
CONSTANTS
  Runs = {r1, r2}
  Codes = {0, 1}
  SignalCodes = {143}
  None = None
  MaxHits = 2
INVARIANTS TypeOK OverlapNeedsRobbery OneTrueReport MissingFinishHasCause
PROPERTIES SkippedRunsAreSilent StaleLockHeals
