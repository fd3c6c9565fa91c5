\* Two slots for invocations, invoked again and again, none of them signalled.
SPECIFICATION Spec
CONSTANTS
  Runs = {r1, r2}
  Codes = {0, 1}
  SignalCodes = {130, 143}
  None = None
  MaxHits = 0
INVARIANTS NoOverlap
