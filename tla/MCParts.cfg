\* Two inits and a file of the owner's; one command, two wrappers and a reset; two
\* installers of different executables, one with a space in its path; per schedule, two
\* days of minutes, ten of five minutes, two months of half hours or four years of half days;
\* two job commands and a user at the manifest.
SPECIFICATION PartsSpec
CONSTANTS
  xc = xc
  sp = sp
  i1 = i1
  i2 = i2
  Inits = {i1, i2}
  MaxOwner = 1
  Commands = {c1}
  Wrappers = {w1, w2}
  Counters = {started, finished}
  MaxBumps = 2
  MaxResets = 1
  Installers <- MCInstallers
  Exes <- MCExes
  ExeOf <- MCExeOf
  Spaced <- MCSpaced
  Configs <- MCConfigs
  HookFiles <- MCHookFiles
  Jobs <- MCJobs
  MonthLens <- MCMonthLens
  MaxTicks = 2880
  r1 = r1
  r2 = r2
  j1 = j1
  j2 = j2
  j3 = j3
  None = None
  LoggedJobs = {j1, j2, j3}
  Givens <- MCGivens
  MaxCalls = 3
  b = b
  pb = pb
  d1 = d1
  d2 = d2
  dbad = dbad
  Unparsable = Unparsable
  NoFile = NoFile
  Disturbed = Disturbed
  Procs = {p1, p2}
  Ids = {b, pb}
  Defs = {d1, d2, dbad}
  BadDefs = {dbad}
  MayMean <- NameMatches
  Requests <- JobRequests
  ByHand <- HandWritten
INVARIANTS TypeOK MetricsAreHonest CalendarIsFaithful ExitTellsTheTruth BooksBalance
PROPERTIES InitIsTimid InstallSettles EveryKeepsItsPeriod StaysWithinScope
  CommandsWriteValid FreshEditTouchesOneJob LoneCommandsAreAtomic
CHECK_DEADLOCK FALSE
