-------------------------------- MODULE MCParts --------------------------------
(* Parts of the installed program that share no state with one another or with the      *)
(* control planes: a workspace being set up, the metrics file, the agent hooks of a       *)
(* project, the clock a schedule fires by, a command or a program with a client, job       *)
(* commands on the manifest.  Each behaviour runs one of them, the others standing as they *)
(* began.                                                                                  *)
EXTENDS Workspace, MetricsFile, AgentHooks, FireTimes, CommandLine, ManifestEdit
CONSTANTS xc, sp, i1, i2, r1, r2, j1, j2, j3, b, pb, d1, d2, dbad

VARIABLE part
partsVars == <<part, workspaceVars, metricsVars, hooksVars, timesVars, cliVars, vars>>

MCExes == {xc, sp}
MCSpaced == {sp}
MCInstallers == {i1, i2}
MCExeOf == i1 :> xc @@ i2 :> sp
MCConfigs ==
  {<<>>} \cup {<<l>> : l \in LineKinds} \cup {<<"[features]", l>> : l \in LineKinds}
File(start, end) == [bad |-> FALSE, start |-> start, end |-> end]
MCHookFiles ==
  {File(<<>>, <<>>), File(<<"other", xc>>, <<"wrapped">>),
   File(<<"wrapped", "other">>, <<sp, "other">>), Broken}

\* Intervals that divide their unit and that do not, and crontab lines of every form.
Every(n, u, q) == [schedule |-> [kind |-> "every", amount |-> n, unit |-> u], quantum |-> q]
Line(m, h, d, mo, w, q) ==
  [schedule |-> [kind |-> "cron", fields |-> <<m, h, d, mo, w>>], quantum |-> q]
Zero == <<Only(0)>>

MCJobs ==
  {Every(1, "m", 1)} \cup {Every(n, "m", 5) : n \in {5, 10, 20, 45, 60, 90}} \cup
  {Every(n, "h", 30) : n \in {1, 5, 8, 24, 36}} \cup
  {Every(n, "d", 1440) : n \in {1, 2, 10, 30, 45}} \cup
  {Every(1, "w", 1440), Every(2, "w", 1440), Every(120, "s", 1)} \cup
  {Line(<<Stepped(15)>>, Star, Star, Star, Star, 5), Line(<<Stepped(45)>>, Star, Star, Star, Star, 5),
   Line(Star, Star, Star, Star, Star, 1), Line(Zero, <<Stepped(5)>>, Star, Star, Star, 60),
   Line(<<Only(0), From(25, 15)>>, <<Span(9, 17, 4), Only(22)>>, Star, Star, <<Span(1, 5, 0)>>, 5),
   Line(Zero, Zero, <<Only(1), Stepped(10)>>, Star, Star, 720),
   Line(Zero, Zero, <<Only(13)>>, Star, <<Only(5)>>, 720),
   Line(Zero, Zero, <<Stepped(2)>>, Star, <<Only(7)>>, 720),
   Line(Zero, Zero, <<Only(1)>>, <<Span(2, 3, 0)>>, <<Stepped(3)>>, 720),
   Line(Zero, Zero, Star, <<From(2, 1)>>, <<From(5, 2)>>, 720),
   Line(Zero, Zero, Star, Star, <<Name(1)>>, 720), Line(Zero, Zero, <<Only(3), AnyValue>>, Star, Star, 720)}

MCMonthLens == <<31, 28, 31>>

\* Installations: everything, and everything but one of the optional parts and what needs it.
Full == {"workspace", "settings", "manifest", "scheduler", "jobs", "logs", "metrics",
         "agent-hooks", "observability"}
Installations ==
  {Full} \cup {Full \ {c} : c \in {"settings", "jobs", "logs", "metrics", "agent-hooks", "observability"}}
  \cup {Full \ {"scheduler", "jobs", "logs"}}
ClaimsOf(c) ==
  CASE c = "workspace" -> {"init"} [] c = "scheduler" -> ScheduleOps [] c = "agent-hooks" -> {"hooks"}
    [] c \in {"jobs", "logs", "metrics"} -> {c} [] OTHER -> {}
Says(r, m) == [root |-> r, manage |-> m]
NoFiles == [explicit |-> None, packaged |-> Says(None, TRUE), named |-> None, user |-> None, workspace |-> None]

\* A command with nothing stated; its variations.
Shell(installed, command) ==
  [driver |-> "shell", installed |-> installed, claims |-> [c \in installed |-> ClaimsOf(c)],
   command |-> command, usage |-> "ok", backend |-> "known", ask |-> Says(None, None),
   files |-> NoFiles, env |-> Says(None, None), filter |-> None, dry |-> TRUE,
   manifest |-> {j1, j2}, links |-> {j2}, logs |-> {r1, None} \X {j1, j2, j3}]
Idle == Shell({}, CHOOSE c \in HomeView : TRUE)

MCCommands ==
  {Shell(i, c) : i \in Installations, c \in CommandTable} \cup
  {[Shell(Full, c) EXCEPT !.backend = "unknown", !.usage = u] : c \in CommandTable, u \in {"ok", "output", "arguments"}} \cup
  {[Shell(Full, c) EXCEPT !.claims["metrics"] = q] : c \in CommandTable, q \in {{}, {"report"}, {"logs"}}}

\* Programs that state options over configurations of several layers, and that clear logs.
Configuration(user, workspace, env) ==
  [files |-> [NoFiles EXCEPT !.user = user, !.workspace = workspace], env |-> env]
MCConfigurations ==
  {Configuration(None, None, Says(None, None)), Configuration(Says(r1, FALSE), Says(r2, TRUE), Says("", "")),
   Configuration(Says(r1, TRUE), None, Says(r2, "no")), Configuration(None, Says(r1, FALSE), Says(None, "off")),
   [Configuration(None, None, Says(None, None)) EXCEPT !.files.explicit = Says(r1, None), !.files.named = Says(r2, FALSE)]}
Driving(installed, ask, c) ==
  [Shell(installed, CHOOSE r \in HomeView : TRUE) EXCEPT
     !.driver = "program", !.ask = ask, !.files = c.files, !.env = c.env, !.dry = FALSE,
     !.logs = {r1, r2, None} \X {j1, j2, j3}]
MCPrograms ==
  {Driving(Full, Says(r, m), c) : r \in {None, r1}, m \in {None, TRUE, FALSE}, c \in MCConfigurations} \cup
  {[Driving(Full, Says(r1, None), Configuration(None, None, Says(None, None))) EXCEPT
      !.filter = f, !.dry = d, !.manifest = x] : f \in {None, j1}, d \in BOOLEAN, x \in {{}, {j1, j2}}} \cup
  {Driving(Full \ {c}, Says(None, None), Configuration(None, None, Says(None, None))) : c \in {"settings", "jobs", "metrics"}}
MCGivens == {Idle} \cup MCCommands \cup MCPrograms

\* The project's id is "p" and it may declare the jobs "b" and "p.b": the second name is
\* also the qualified identifier of the first job.
NameMatches == {<<b, b>>, <<pb, pb>>, <<pb, b>>}

\* One request of each kind; adding with a refused definition, and editing by an ambiguous
\* name, are among them.
JobRequests ==
  {[op |-> "add", name |-> i, def |-> d1, enabled |-> TRUE, named |-> FALSE] : i \in {b, pb}}
    \cup {[op |-> "update", name |-> b, def |-> d, named |-> TRUE] : d \in {d2, dbad}}
    \cup {[op |-> "switch", name |-> pb, enabled |-> FALSE, named |-> FALSE],
          [op |-> "remove", name |-> pb, named |-> TRUE],
          [op |-> "show", name |-> b, named |-> FALSE]}

\* What the user may write: something that is no YAML mapping, or the same identifier twice,
\* which removing one of them would repair.
HandWritten ==
  {Unparsable, <<[id |-> b, def |-> d1, enabled |-> TRUE], [id |-> b, def |-> d2, enabled |-> TRUE]>>}

\* What a part does not run stands at its plainest.
PartsInit ==
  /\ part \in {"workspace", "metrics", "hooks", "times", "command", "manifest"}
  /\ part = "workspace" \/ fs = Bare
  /\ part = "hooks" \/ (toml = <<>> /\ json = [f \in {"codex", "claude"} |-> File(<<>>, <<>>)])
  /\ part = "times" \/ job = Every(1, "w", 1440)
  /\ part = "command" \/ given = Idle
  /\ WorkspaceInit /\ MetricsInit /\ HooksInit /\ TimesInit /\ CliInit /\ Init

RunWorkspace ==
  part = "workspace" /\ WorkspaceNext /\ UNCHANGED <<part, metricsVars, hooksVars, timesVars, cliVars, vars>>
RunMetrics ==
  part = "metrics" /\ MetricsNext /\ UNCHANGED <<part, workspaceVars, hooksVars, timesVars, cliVars, vars>>
RunHooks ==
  part = "hooks" /\ HooksNext /\ UNCHANGED <<part, workspaceVars, metricsVars, timesVars, cliVars, vars>>
RunTimes ==
  part = "times" /\ Tick /\ UNCHANGED <<part, workspaceVars, metricsVars, hooksVars, cliVars, vars>>
RunCommand ==
  part = "command" /\ CliNext /\ UNCHANGED <<part, workspaceVars, metricsVars, hooksVars, timesVars, vars>>
RunManifest ==
  part = "manifest" /\ Next
    /\ UNCHANGED <<part, workspaceVars, metricsVars, hooksVars, timesVars, cliVars>>

PartsNext == RunWorkspace \/ RunMetrics \/ RunHooks \/ RunTimes \/ RunCommand \/ RunManifest
PartsSpec == PartsInit /\ [][PartsNext]_partsVars
=============================================================================
