------------------------------- MODULE FireTimes -------------------------------
(***************************************************************************)
(* How a job's schedule is translated for each backend of                  *)
(* xcron-capability-scheduler-native (adapters/cron.py, adapters/launchd.py,*)
(* cron_policy.py), and when the entries that come of it fire.  One job is *)
(* loaded in both at the first minute of a year; then the clock runs.      *)
(*                                                                         *)
(* The daemons are external: cron fires in the minutes its five fields     *)
(* match, launchd every interval or in the minutes a dictionary matches.   *)
(***************************************************************************)
EXTENDS Integers, Sequences, Functions

CONSTANTS
  Jobs,        \* schedules: [schedule, quantum], a quantum being the minutes between
               \* the instants looked at, of which all its fires are multiples
  MonthLens,   \* days of each month of the year the clock runs through
  MaxTicks     \* bound: instants looked at

ASSUME TimesAssumption ==
  MaxTicks \in Nat /\ MonthLens \in Seq(1..31) /\ Len(MonthLens) \in 1..12

VARIABLES
  job,         \* the schedule and its quantum
  now,         \* minutes since the start
  last         \* ["cron" and "launchd" -> minute of the last fire, -1 before the first]

timesVars == <<job, now, last>>

Keys == <<"Minute", "Hour", "Day", "Month", "Weekday">>

\* A schedule is [kind |-> "every", amount, unit] or [kind |-> "cron", fields], its five
\* fields sequences of parts: "*" (with a step), a value (with a step), a range (with a
\* step), or a name as in MON.  A part without a step has step 0.
AnyValue == [form |-> "*", lo |-> 0, hi |-> 0, step |-> 0]
Stepped(n) == [AnyValue EXCEPT !.step = n]
Only(v) == [form |-> "value", lo |-> v, hi |-> v, step |-> 0]
From(v, n) == [Only(v) EXCEPT !.step = n]
Span(a, b, n) == [form |-> "range", lo |-> a, hi |-> b, step |-> n]
Name(v) == [Only(v) EXCEPT !.form = "name"]
Star == <<AnyValue>>

Parts ==
  {p \in [form : {"*", "value", "range", "name"}, lo : Nat, hi : Nat, step : Nat] :
     p.form = "*" => p.lo = 0 /\ p.hi = 0}
Crontabs == [1..5 -> Seq(Parts) \ {<<>>}]

ASSUME JobsAssumption ==
  \A j \in Jobs : j.quantum \in Nat /\ (j.schedule.kind = "cron" => j.schedule.fields \in Crontabs)

-----------------------------------------------------------------------------
(* The schedule for cron *)

\* cron_incompatible_reason: seconds, and more weeks than one, are errors of the plan.
CronIncompatible(s) ==
  s.kind = "every" /\ (s.unit = "s" \/ (s.unit = "w" /\ s.amount > 1))

\* cron_schedule_errors: the jobs that keep a plan from being applied.
CronScheduleErrors(S) == {s \in S : CronIncompatible(s)}

\* Mutant: hours are stepped with no minute given.
RenderCronLoosely(s) ==
  CASE s.kind = "cron" -> s.fields
    [] s.kind = "every" /\ s.unit = "m" -> <<<<Stepped(s.amount)>>, Star, Star, Star, Star>>
    [] s.kind = "every" /\ s.unit = "h" -> <<Star, <<Stepped(s.amount)>>, Star, Star, Star>>
    [] s.kind = "every" /\ s.unit = "d" -> <<<<Only(0)>>, <<Only(0)>>, <<Stepped(s.amount)>>, Star, Star>>
    [] s.kind = "every" /\ s.unit = "w" /\ s.amount = 1 ->
         <<<<Only(0)>>, <<Only(0)>>, Star, Star, <<Only(0)>>>>
    [] OTHER -> <<>>

\* render_cron_schedule; an empty sequence where it raises.
RenderCron(s) ==
  CASE s.kind = "cron" -> s.fields
    [] s.kind = "every" /\ s.unit = "m" -> <<<<Stepped(s.amount)>>, Star, Star, Star, Star>>
    [] s.kind = "every" /\ s.unit = "h" -> <<<<Only(0)>>, <<Stepped(s.amount)>>, Star, Star, Star>>
    [] s.kind = "every" /\ s.unit = "d" -> <<<<Only(0)>>, <<Only(0)>>, <<Stepped(s.amount)>>, Star, Star>>
    [] s.kind = "every" /\ s.unit = "w" /\ s.amount = 1 ->
         <<<<Only(0)>>, <<Only(0)>>, Star, Star, <<Only(0)>>>>
    [] OTHER -> <<>>

-----------------------------------------------------------------------------
(* The schedule for launchd *)

\* parse_every_seconds
EverySeconds(s) ==
  LET multiplier == [s |-> 1, m |-> 60, h |-> 3600, d |-> 86400, w |-> 604800]
  IN  s.amount * multiplier[s.unit]

\* _CALENDAR_FIELD_BOUNDS: "both 0 and 7 are Sunday".
Bounds == <<<<0, 59>>, <<0, 23>>, <<1, 31>>, <<1, 12>>, <<0, 7>>>>

\* parse_calendar_field raises on a name, on a "*" among others and on a step of zero.
FieldRaises(field) ==
  \E i \in DOMAIN field : field[i].form = "name" \/ (field[i].form = "*" /\ field[i].step = 0)

\* Mutant: steps are counted from zero.
CalendarFieldFromZero(field, k) ==
  UNION {LET part == field[i]
             start == IF part.form = "*" THEN Bounds[k][1] ELSE part.lo
             end == IF part.form = "*" \/ (part.form = "value" /\ part.step # 0)
                    THEN Bounds[k][2] ELSE part.hi
             step == IF part.step = 0 THEN 1 ELSE part.step
         IN  {v \in start..end : v % step = 0}
         : i \in DOMAIN field}

\* parse_calendar_field: the values of a field, one part after the other.
CalendarField(field, k) ==
  UNION {LET part == field[i]
             start == IF part.form = "*" THEN Bounds[k][1] ELSE part.lo
             end == IF part.form = "*" \/ (part.form = "value" /\ part.step # 0)
                    THEN Bounds[k][2] ELSE part.hi
             step == IF part.step = 0 THEN 1 ELSE part.step
         IN  {v \in start..end : (v - start) % step = 0}
         : i \in DOMAIN field}

\* "*/N * * * *", which launchd gets as an interval of N minutes.
MinuteStep(fields) ==
  /\ Len(fields[1]) = 1 /\ fields[1][1].form = "*" /\ fields[1][1].step # 0
  /\ \A k \in 2..5 : fields[k] = Star

\* render_launchd_schedule: an interval in seconds (0 for none) or the values of each key
\* that is given, whose product is the list of dictionaries; raises where a field does.
RenderLaunchd(s) ==
  LET given == {k \in 1..5 : s.fields[k] # Star}
      Interval(n) == [raises |-> FALSE, interval |-> n, calendar |-> <<>>]
  IN
  CASE s.kind = "every" -> Interval(EverySeconds(s))
    [] s.kind = "cron" /\ MinuteStep(s.fields) -> Interval(s.fields[1][1].step * 60)
    [] s.kind = "cron" /\ given = {} -> Interval(60)
    [] OTHER -> IF \E k \in given : FieldRaises(s.fields[k])
                THEN [raises |-> TRUE, interval |-> 0, calendar |-> <<>>]
                ELSE [raises |-> FALSE, interval |-> 0,
                      calendar |-> [k \in given |-> CalendarField(s.fields[k], k)]]

\* Minutes after which each unit begins anew; seconds do not for cron, which has none.
Turn == [s |-> 0, m |-> 60, h |-> 1440, d |-> 1440, w |-> 10080]

\* The instants looked at are every one a schedule can fire at.
ASSUME QuantumAssumption ==
  \A j \in Jobs : j.schedule.kind = "every" =>
    /\ j.schedule.unit \in DOMAIN Turn /\ j.schedule.amount \in Nat \ {0}
    /\ j.quantum > 0
    /\ EverySeconds(j.schedule) % (60 * j.quantum) = 0
    /\ Turn[j.schedule.unit] % j.quantum = 0

-----------------------------------------------------------------------------
(* The daemons *)

\* The days of the year before a month.
DaysBefore[m \in 1..Len(MonthLens) + 1] ==
  IF m = 1 THEN 0 ELSE DaysBefore[m - 1] + MonthLens[m - 1]
Year == DaysBefore[Len(MonthLens) + 1]

\* The five calendar values of a minute; the first day is a Sunday.
Instant(t) ==
  LET day == (t \div 1440) % Year
      month == CHOOSE m \in DOMAIN MonthLens :
                 DaysBefore[m] <= day /\ day < DaysBefore[m] + MonthLens[m]
  IN  <<t % 60, (t \div 60) % 24, day - DaysBefore[month] + 1, month, (t \div 1440) % 7>>

\* Two fields for the day: when both are given either will do.
DayAgrees(day, weekday, dayGiven, weekdayGiven) ==
  IF dayGiven /\ weekdayGiven THEN day \/ weekday ELSE day /\ weekday

\* cron(8): a part matches the values it spans, in steps from its first; a day field is
\* given unless it begins with "*".
PartMatches(part, v, k) ==
  LET low == IF part.form = "*" THEN Bounds[k][1] ELSE part.lo
      high == IF part.form = "*" \/ (part.form = "value" /\ part.step # 0)
              THEN Bounds[k][2] ELSE part.hi
  IN  low <= v /\ v <= high /\ (part.step # 0 => (v - low) % part.step = 0)

FieldMatches(field, v, k) ==
  \E i \in DOMAIN field :
    \/ PartMatches(field[i], v, k)
    \/ k = 5 /\ v = 0 /\ PartMatches(field[i], 7, k)

CronFires(fields, t) ==
  LET v == Instant(t)
      hit == [k \in 1..5 |-> FieldMatches(fields[k], v[k], k)]
  IN  /\ hit[1] /\ hit[2] /\ hit[4]
      /\ DayAgrees(hit[3], hit[5], fields[3][1].form # "*", fields[5][1].form # "*")

\* launchd.plist(5): every interval since the job was loaded, or the minutes that agree
\* with a dictionary, in which a missing key agrees with all.
LaunchdFires(r, t) ==
  IF r.interval # 0 THEN t > 0 /\ (t * 60) % r.interval = 0
  ELSE LET v == Instant(t)
           Given(k) == k \in DOMAIN r.calendar
           Hit(k) == Given(k) => \/ v[k] \in r.calendar[k]
                                 \/ k = 5 /\ v[k] = 0 /\ 7 \in r.calendar[k]
       IN  /\ Hit(1) /\ Hit(2) /\ Hit(4)
           /\ DayAgrees(Hit(3), Hit(5), Given(3), Given(5))

FiredByCron(t) ==
  CronScheduleErrors({job.schedule}) = {} /\ CronFires(RenderCron(job.schedule), t)
FiredByLaunchd(t) ==
  ~RenderLaunchd(job.schedule).raises /\ LaunchdFires(RenderLaunchd(job.schedule), t)

TimesInit ==
  /\ job \in Jobs
  /\ now = 0
  /\ last = [cron |-> IF FiredByCron(0) THEN 0 ELSE -1, launchd |-> -1]

\* The next instant; a daemon fires or not.
Tick ==
  /\ now < MaxTicks * job.quantum
  /\ now' = now + job.quantum
  /\ last' = [cron |-> IF FiredByCron(now') THEN now' ELSE last.cron,
              launchd |-> IF FiredByLaunchd(now') THEN now' ELSE last.launchd]
  /\ UNCHANGED job

TimesSpec == TimesInit /\ [][Tick]_timesVars

-----------------------------------------------------------------------------
(* Properties *)

PerUnit == [s |-> 60, m |-> 60, h |-> 24, d |-> 1, w |-> 1]

\* The periods cron's fields can count out: what divides the next larger unit.
Aligned(s) == PerUnit[s.unit] % s.amount = 0

\* "every" means the same period on both backends only where cron can count it: launchd
\* waits exactly the period, cron never longer, and exactly the period when the amount
\* divides its unit; every other amount is cut short where the unit begins anew.  A
\* schedule is refused on cron just where it cannot be rendered.
EveryKeepsItsPeriod ==
  [][LET s == job.schedule
         period == EverySeconds(s)
         wait == [d \in {"cron", "launchd"} |-> 60 * (last'[d] - last[d])]
     IN s.kind = "every" =>
          /\ CronIncompatible(s) <=> RenderCron(s) = <<>>
          /\ last'.launchd # last.launchd /\ last.launchd # -1 => wait["launchd"] = period
          /\ now' * 60 > period => last'.launchd # -1
          /\ last'.cron # last.cron /\ last.cron # -1 =>
               /\ wait["cron"] <= period
               /\ Aligned(s) => wait["cron"] = period
          /\ ~CronIncompatible(s) => 60 * (now' - last'.cron) < period
    ]_timesVars

\* A day field that is a step of "*": given to launchd, not given to cron.
SteppedStar(field) == field[1].form = "*" /\ field # Star

\* "any valid 5-field cron expression can be faithfully represented" for launchd: it fires
\* in the very minutes cron does, unless it raises (on a name), gets the interval that
\* stands for a step of minutes, or combines a step of all days with the other day field.
CalendarIsFaithful ==
  LET s == job.schedule
      r == RenderLaunchd(s)
  IN s.kind = "cron" =>
       \/ r.raises /\ \E k \in 1..5 : s.fields[k] # Star
            /\ \E part \in Range(s.fields[k]) : part.form = "name" \/ part = AnyValue
       \/ /\ ~r.raises
          /\ \/ FiredByLaunchd(now) <=> FiredByCron(now)
             \/ r.interval # 0 /\ (now = 0 \/ 3600 % r.interval # 0)
             \/ /\ s.fields[3] # Star /\ s.fields[5] # Star
                /\ SteppedStar(s.fields[3]) \/ SteppedStar(s.fields[5])
                /\ FiredByCron(now) => FiredByLaunchd(now)
=============================================================================
