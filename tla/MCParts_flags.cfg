\* Programs with a client alone: does what they state beat what is configured?
SPECIFICATION PartsSpec
CONSTANTS
  xc = xc
  sp = sp
  i1 = i1
  i2 = i2
  Inits = {i1, i2}
  MaxOwner = 1
  Commands = {c1}
  Wrappers = {w1, w2}
  Counters = {started, finished}
  MaxBumps = 2
  MaxResets = 1
  Installers <- MCInstallers
  Exes <- MCExes
  ExeOf <- MCExeOf
  Spaced <- MCSpaced
  Configs <- MCConfigs
  HookFiles <- MCHookFiles
  Jobs <- MCJobs
  MonthLens <- MCMonthLens
  MaxTicks = 1
  r1 = r1
  r2 = r2
  j1 = j1
  j2 = j2
  j3 = j3
  None = None
  LoggedJobs = {j1, j2, j3}
  Givens <- MCPrograms
  MaxCalls = 3
  b = b
  pb = pb
  d1 = d1
  d2 = d2
  dbad = dbad
  Unparsable = Unparsable
  NoFile = NoFile
  Disturbed = Disturbed
  Procs = {p1, p2}
  Ids = {b, pb}
  Defs = {d1, d2, dbad}
  BadDefs = {dbad}
  MayMean <- NameMatches
  Requests <- JobRequests
  ByHand <- HandWritten
PROPERTIES FlagsBeatConfiguration
CHECK_DEADLOCK FALSE
