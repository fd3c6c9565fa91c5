----------------------------- MODULE CommandLine -----------------------------
(***************************************************************************)
(* The xcron command: packages/xcron-cli.  Commands are attached from what  *)
(* the installed capabilities claim (contributions.py); a command checks    *)
(* its output options and arguments (output.py, contracts.py), opens a      *)
(* client, makes its calls, closes, and prints the answer or an error       *)
(* (typer_app.py); the exit code is main's (main.py).                        *)
(***************************************************************************)
EXTENDS Client

VARIABLES
  script,       \* operations the command has still to call
  code          \* exit code, None while it runs

cliVars == <<clientVars, script, code>>

-----------------------------------------------------------------------------
(* The commands: the path that is claimed, whether the client is scoped and    *)
(* given the backend, and the operations called.                               *)

Row(path, scoped, backend, ops) ==
  [path |-> path, scoped |-> scoped, backend |-> backend, ops |-> ops]

HomeView == {Row("", TRUE, TRUE, <<"plan", "hook status">>)}
InitCommand == {Row("init", FALSE, FALSE, <<"initialize">>)}
ValidateCommand == {Row("validate", TRUE, FALSE, <<"validate">>)}
ReadCommands == {Row(op, TRUE, TRUE, <<op>>) : op \in {"plan", "status", "inspect"}}
WriteCommands == {Row(op, TRUE, TRUE, <<op>>) : op \in {"apply", "prune"}}
JobsReads == {Row("jobs", TRUE, FALSE, <<"list jobs">>)}
JobsAdd == {Row("jobs", TRUE, FALSE, <<"add job">>)}
JobsUpdate == {Row("jobs", TRUE, FALSE, <<"update job">>)}
JobsMutations == {Row("jobs", TRUE, FALSE, <<"set job">>)}
LogsCommands == {Row("logs", TRUE, FALSE, <<op>>) : op \in {"list logs", "clear logs"}}
HookCommands ==
  {Row("hooks", TRUE, FALSE, <<op>>) : op \in HookOps} \cup
  {Row("hooks", TRUE, FALSE, <<"plan", "hook status">>)}
MetricsCommands == {Row("metrics", FALSE, FALSE, <<op>>) : op \in {"show metrics", "reset metrics"}}

CommandTable ==
  HomeView \cup InitCommand \cup ValidateCommand \cup ReadCommands \cup WriteCommands \cup
  JobsReads \cup JobsAdd \cup JobsUpdate \cup JobsMutations \cup LogsCommands \cup HookCommands \cup MetricsCommands

\* A person at a shell gives one command; a program has none.
ASSUME GivensAssumption ==
  \A g \in Givens : g.driver \in {"shell", "program"} /\ (g.driver = "shell" => g.command \in CommandTable)

\* _BINDINGS: what each capability may claim.
Bound ==
  [c \in given.installed |->
     CASE c = "workspace"   -> {"init"}
       [] c = "scheduler"   -> ScheduleOps
       [] c = "jobs"        -> {"jobs"}
       [] c = "logs"        -> {"logs"}
       [] c = "metrics"     -> {"metrics"}
       [] c = "agent-hooks" -> {"hooks"}
       [] OTHER             -> {}]

\* contributions_for, validate_contributions: every claim has a binding, and one owner.
Attaches ==
  \A c \in given.installed :
    /\ given.claims[c] \subseteq Bound[c]
    /\ \A d \in given.installed \ {c} : given.claims[c] \cap given.claims[d] = {}

Attached == {""} \cup UNION {given.claims[c] : c \in given.installed}

-----------------------------------------------------------------------------
CliInit == ClientInit /\ script = <<>> /\ code = None

Stays == UNCHANGED <<calls>>
Exit(n) == stage' = "done" /\ code' = n
ClientStands == UNCHANGED <<given, client, host, scope, verdict, world, events, tally, broken, calls>>

\* attach_cli_contributions fails while the module is imported: every command does.
AttachFails ==
  /\ stage = "shell" /\ ~Attaches
  /\ Exit(1) /\ flight' = "exception" /\ Mishap("wiring")
  /\ UNCHANGED script /\ ClientStands

Misused == Exit(2) /\ Mishap("usage") /\ UNCHANGED <<script, flight>> /\ ClientStands

\* click knows no such command: its capability is not installed.
UnknownCommand ==
  /\ stage = "shell" /\ Attaches /\ given.command.path \notin Attached
  /\ Misused

\* _build_output: the format, or a field that the contract of the command has not.
WrongOutput ==
  /\ stage = "shell" /\ Attaches /\ given.command.path \in Attached
  /\ given.usage = "output"
  /\ Misused

\* jobs add, jobs update: arguments that contradict one another, or say nothing.
WrongArguments ==
  /\ stage = "shell" /\ Attaches /\ given.command.path \in Attached
  /\ given.usage = "arguments" /\ given.command \in JobsAdd \cup JobsUpdate
  /\ Misused

Ready ==
  /\ stage = "shell" /\ Attaches /\ given.command.path \in Attached
  /\ given.usage = "ok" \/ (given.usage = "arguments" /\ given.command \notin JobsAdd \cup JobsUpdate)

\* The with statement: a client, or an error before there is one.
Enter ==
  /\ Ready
  /\ Open(given.command.scoped, IF given.command.backend THEN given.backend ELSE "known")
  /\ stage' = "work" /\ script' = given.command.ops
  /\ UNCHANGED code /\ Stays

EnterFails ==
  /\ Ready
  /\ HostRefuses \/ OpenRaises(given.command.scoped)
  /\ stage' = "render"
  /\ UNCHANGED <<script, code>> /\ Stays

\* The body of the with statement, up to its end or an error.
Work ==
  /\ stage = "work" /\ flight = "none" /\ script # <<>>
  /\ Unserved(Head(script)) \/ Call(Head(script))
  /\ script' = Tail(script)
  /\ UNCHANGED <<stage, code>> /\ Stays

\* __exit__: an error of close takes the place of the one in flight.
Leave ==
  /\ stage = "work" /\ (flight # "none" \/ script = <<>>)
  /\ Close \/ CloseRaises
  /\ stage' = "render"
  /\ UNCHANGED <<script, code>> /\ Stays

\* Mutant: one except clause for every error of the SDK.
OneForAll(error) == 1

\* _open_client: an unknown backend is a wrong option, any other error a failure.
CodeOf(error) == IF error = "unknown backend" /\ given.command.scoped THEN 2 ELSE 1

\* The error is printed, or escapes as a traceback.
RenderError ==
  /\ stage = "render" /\ flight # "none"
  /\ Exit(CodeOf(flight))
  /\ UNCHANGED <<script, flight, mishaps>> /\ ClientStands

\* init never looks at the conflicts of its result.
RenderInvalid ==
  /\ stage = "render" /\ flight = "none" /\ verdict = "invalid"
  /\ Exit(1)
  /\ UNCHANGED <<script, flight, mishaps>> /\ ClientStands

PrintAnswer ==
  /\ stage = "render" /\ flight = "none" /\ verdict # "invalid"
  /\ Exit(0)
  /\ UNCHANGED <<script, flight, mishaps>> /\ ClientStands

PrintFails ==
  /\ stage = "render" /\ flight = "none" /\ verdict # "invalid"
  /\ Exit(1) /\ flight' = "exception" /\ Mishap("print")
  /\ UNCHANGED script /\ ClientStands

CliNext ==
  \/ AttachFails \/ UnknownCommand \/ WrongOutput \/ WrongArguments
  \/ Enter \/ EnterFails \/ Work \/ Leave
  \/ RenderError \/ RenderInvalid \/ PrintAnswer \/ PrintFails
  \/ Program /\ UNCHANGED <<script, code>>

CliSpec == CliInit /\ [][CliNext]_cliVars

\* The exit code says what happened: 0 if nothing went wrong, 2 only if the invocation
\* was wrong - its usage, or a backend that is not registered - and then nothing was
\* changed; and the host is closed, unless opening or closing it raised.
ExitTellsTheTruth ==
  stage = "done" =>
    /\ code = IF mishaps = {} THEN 0 ELSE IF mishaps \subseteq {"usage", "unknown backend"} THEN 2 ELSE 1
    /\ code = 2 => ~world.changed
    /\ host = "open" => mishaps \cap {"open", "close"} # {}
=============================================================================
