-------------------------------- MODULE Client --------------------------------
(***************************************************************************)
(* The client every channel goes through: packages/xcron-sdk (client.py and *)
(* its five interfaces), the settings it composes (settings_xcfg/loader.py),*)
(* and what it hears from the ports behind it: the flow of the scheduler    *)
(* service (scheduler_native/service.py) and the logs (logs_local).  What   *)
(* the other ports do is in the modules of their own; here they answer.     *)
(*                                                                         *)
(* A call of a port is one step; its reply is the answer the client sees,   *)
(* the counters it bumps and whether it changed anything.                   *)
(***************************************************************************)
EXTENDS Naturals, Sequences, FiniteSets, FiniteSetsExt

CONSTANTS
  None,         \* nothing stated, no filter, the default root
  LoggedJobs,   \* jobs whose logs may lie in the project's directory
  Givens,       \* what an invocation may find: see `given`
  MaxCalls      \* bound: calls of a program that uses the client

ASSUME NoneAssumption == None \notin BOOLEAN

VARIABLES
  given,        \* the invocation: who drives, installed capabilities, claims,
                \* options stated, configuration, environment, manifest, links
  stage,        \* where the driver stands
  client,       \* "none", "open", "closed": the client and its _closed
  host,         \* "none", "open", "closed": the capability host it owns
  scope,        \* InvocationContext: options, settings and backend of the client
  flight,       \* the error of the last step, "none" without one
  verdict,      \* what the operation of the command answered
  world,        \* what calls changed: native scheduler, roots written, logs with text
  events,       \* [started, finished, failed -> Nat], observations recorded
  tally,        \* [Outcomes -> Nat], the metrics
  broken,       \* [status, apply -> Nat], history: counted calls that raised
  calls,        \* calls made by a program
  mishaps       \* history: what went wrong in this invocation

clientVars == <<given, stage, client, host, scope, flight, verdict, world,
                events, tally, broken, calls, mishaps>>

Outcomes ==
  {"status.calls", "status.succeeded", "status.failed",
   "apply.calls", "apply.succeeded", "apply.failed"}

-----------------------------------------------------------------------------
(* Settings: the last layer that says something, a stated option above all.  *)

FalseWords == {"0", "false", "no"}

\* environment_overrides: an empty variable says nothing, any other word is "on".
EnvironmentLayer(env) ==
  [root   |-> IF env.root = "" THEN None ELSE env.root,
   manage |-> IF env.manage \in {None, ""} THEN None ELSE env.manage \notin FalseWords]

\* LOADER.load: an explicit file replaces the packaged and the named one.
Compose(files, env) ==
  LET base == IF files.explicit # None THEN <<files.explicit>>
              ELSE <<files.packaged, files.named>>
      layers == base \o <<files.user, files.workspace, EnvironmentLayer(env)>>
      Last(key, default) ==
        LET said == {i \in DOMAIN layers : layers[i] # None /\ layers[i][key] # None}
        IN  IF said = {} THEN default ELSE layers[Max(said)][key]
  IN  [root |-> Last("root", None), manage |-> Last("manage", TRUE)]

\* Mutant: `value or default`.
StatedIfTrue(value, default) == IF value \in {None, FALSE} THEN default ELSE value

\* _stated
Stated(value, default) == IF value = None THEN default ELSE value

\* Xcron.open's second XcronOptions, and the plain ones of open_unscoped.
Scope(scoped, backend) ==
  LET settings == IF scoped THEN Compose(given.files, given.env) ELSE [root |-> None, manage |-> TRUE]
      stated   == IF scoped THEN given.ask ELSE [root |-> None, manage |-> None]
  IN  [workspace |-> scoped,
       settings |-> settings,
       options  |-> [root |-> Stated(stated.root, settings.root),
                     manage |-> Stated(stated.manage, settings.manage)],
       known    |-> backend = "known"]

\* NativeScheduleController._options, LocalLogProvider._collect
SchedulerRoot == Stated(scope.options.root, scope.settings.root)
Manages == scope.options.manage /\ scope.settings.manage
LogsRoot == Stated(scope.settings.root, scope.options.root)

-----------------------------------------------------------------------------
(* Replies of the ports.                                                      *)

Reply(answer, bumps, changed) == [answer |-> answer, bumps |-> bumps, changed |-> changed]
Quiet(answers) == {Reply(a, {}, FALSE) : a \in answers}
Either(answer) == {Reply(answer, {}, c) : c \in BOOLEAN}
Plus(bumps, replies) == {[r EXCEPT !.bumps = @ \cup bumps] : r \in replies}
Answering(answers, replies) == {r \in replies : r.answer \in answers}

\* _backend and the registry: a valid manifest meets its backend, or the lack of it.
Backend == IF scope.known THEN "valid" ELSE "unknown backend"

PlanReplies == Quiet({"invalid", "exception", Backend})

StatusReplies ==
  Plus({"status.calls"},
    Plus({"status.failed"}, Quiet({"invalid"})) \cup Quiet({"exception"}) \cup
    (IF scope.known THEN Plus({"status.succeeded"}, Quiet({"valid"})) ELSE Quiet({"unknown backend"})))

\* What apply does with a status that answered.
Deploy(s) ==
  {[s EXCEPT !.answer = "exception", !.changed = c] : c \in BOOLEAN} \cup
  Plus({"apply.succeeded"}, {[s EXCEPT !.changed = c] : c \in BOOLEAN})

\* Mutant: schedule errors return before the failure is counted.
ApplyUncounted ==
  Plus({"apply.calls"},
    Answering({"exception", "unknown backend"}, StatusReplies) \cup
    Plus({"apply.failed"}, Answering({"invalid"}, StatusReplies)) \cup
    UNION {Deploy(s) \cup {[s EXCEPT !.answer = "invalid"]} : s \in Answering({"valid"}, StatusReplies)})

ApplyReplies ==
  Plus({"apply.calls"},
    Answering({"exception", "unknown backend"}, StatusReplies) \cup
    Plus({"apply.failed"}, Answering({"invalid"}, StatusReplies)) \cup
    UNION {Deploy(s) \cup Plus({"apply.failed"}, {[s EXCEPT !.answer = "invalid"]}) :
             s \in Answering({"valid"}, StatusReplies)})

PruneReplies ==
  Quiet({"invalid", "exception", Backend}) \cup
  (IF scope.known THEN {Reply("valid", {}, TRUE), Reply("exception", {}, TRUE)} ELSE {})

\* After a status that answered the job may be unknown, or a second look fail.
InspectReplies ==
  StatusReplies \cup
  {[s EXCEPT !.answer = a] : s \in Answering({"valid"}, StatusReplies), a \in {"invalid", "exception"}}

\* By the interface and name of an operation.
Replies(op) ==
  CASE op = "validate"       -> Quiet({"valid", "invalid"})
    [] op = "plan"           -> PlanReplies
    [] op = "status"         -> StatusReplies
    [] op = "inspect"        -> InspectReplies
    [] op = "apply"          -> ApplyReplies
    [] op = "prune"          -> PruneReplies
    [] op \in {"list jobs", "list logs", "clear logs"} -> Quiet({"valid", "invalid", "exception"})
    [] op \in {"add job", "update job", "set job"} ->
         Either("valid") \cup Either("invalid") \cup Either("exception")
    [] op = "show metrics"   -> Quiet({"valid"})
    [] op = "reset metrics"  -> {Reply("valid", {}, TRUE), Reply("exception", {}, FALSE)}
    [] op = "hook status"    -> Quiet({"valid", "hook error", "exception"})
    [] op = "install hooks"  -> Either("valid") \cup Either("hook error") \cup Either("exception")
    [] op = "end session"    -> Either("valid") \cup Either("hook error") \cup Either("exception")
    [] op = "initialize"     -> Either("valid") \cup Quiet({"conflicts"}) \cup Either("exception")

ScheduleOps == {"validate", "plan", "status", "inspect", "apply", "prune"}
\* show and list, then add, update, and enable, disable or remove.
JobsOps == {"list jobs", "add job", "update job", "set job"}
Operations == {"list logs", "clear logs", "show metrics", "reset metrics"}
HookOps == {"hook status", "install hooks", "end session"}
HomeOps == {"initialize"}
Ops == ScheduleOps \cup JobsOps \cup Operations \cup HookOps \cup HomeOps

\* The ports an interface asks for before any of its operations.
Needs(op) ==
  CASE op \in ScheduleOps  -> {"scheduler"}
    [] op \in JobsOps    -> {"jobs"}
    [] op \in Operations -> {"logs", "metrics"}
    [] op \in HookOps      -> {"agent-hooks"}
    [] op \in HomeOps       -> {"workspace"}

\* LocalLogProvider.list: logs of the manifest's jobs and, without a filter, whatever else
\* lies in the directory of the last of them; never through a link.
Listed(filter) ==
  {j \in LoggedJobs \ given.links :
     IF filter = None THEN given.manifest # {} ELSE j = filter /\ j \in given.manifest}

\* clear truncates what is listed, one file after another, unless it is a dry run.
Cleared(answer) ==
  LET mine == {LogsRoot} \X Listed(given.filter)
  IN  IF given.dry \/ answer = "invalid" THEN {{}}
      ELSE IF answer = "valid" THEN {mine} ELSE SUBSET mine

-----------------------------------------------------------------------------
Errors == {"unknown backend", "hook error", "exception"}

ClientInit ==
  /\ given \in Givens /\ stage = given.driver
  /\ client = "none" /\ host = "none"
  /\ scope = None
  /\ flight = "none" /\ verdict = "none"
  /\ world = [native |-> FALSE, roots |-> {}, logs |-> given.logs, changed |-> FALSE]
  /\ events = [started |-> 0, finished |-> 0, failed |-> 0]
  /\ tally = [c \in Outcomes |-> 0]
  /\ broken = [status |-> 0, apply |-> 0]
  /\ calls = 0
  /\ mishaps = {}

Mishap(m) == mishaps' = mishaps \cup {m}

\* _host: the constructor of the capability host refuses what is installed.
HostRefuses ==
  /\ host = "none"
  /\ flight' = "exception" /\ Mishap("host")
  /\ UNCHANGED <<given, client, host, scope, verdict, world, events, tally, broken>>

Served(scoped) == scoped => {"workspace", "settings"} \subseteq given.installed

\* Xcron.open, open_unscoped.
Open(scoped, backend) ==
  /\ host = "none" /\ Served(scoped)
  /\ client' = "open" /\ host' = "open"
  /\ scope' = Scope(scoped, backend)
  /\ flight' = "none"
  /\ UNCHANGED <<given, verdict, world, events, tally, broken, mishaps>>

\* The workspace or the settings raise, or are absent: the host has been made, and is lost.
OpenRaises(scoped) ==
  /\ host = "none" /\ scoped
  /\ host' = "open"
  /\ flight' = "exception" /\ Mishap("open")
  /\ UNCHANGED <<given, client, scope, verdict, world, events, tally, broken>>

\* _guard
Refused ==
  /\ client = "closed"
  /\ flight' = "closed" /\ Mishap("closed")
  /\ UNCHANGED <<given, client, host, scope, verdict, world, events, tally, broken>>

\* require: a port the interface needs is not installed.
Unserved(op) ==
  /\ client = "open" /\ ~(Needs(op) \subseteq given.installed)
  /\ flight' = "exception" /\ Mishap("unserved")
  /\ UNCHANGED <<given, client, host, scope, verdict, world, events, tally, broken>>

\* _ObservedPort: the start, the operation, its end or its failure.
Observe(failed) ==
  events' = IF "observability" \notin given.installed THEN events
            ELSE [started  |-> events.started + 1,
                  finished |-> IF failed THEN events.finished ELSE events.finished + 1,
                  failed   |-> IF failed THEN events.failed + 1 ELSE events.failed]

\* _context_with_metrics: counters only where the metrics are installed.
Count(r) ==
  LET counting == "metrics" \in given.installed
      Raised(began, ended) ==
        counting /\ r.answer \in Errors /\ began \in r.bumps /\ ended \cap r.bumps = {}
  IN  /\ tally' = [c \in Outcomes |-> IF counting /\ c \in r.bumps THEN tally[c] + 1 ELSE tally[c]]
      /\ broken' =
           [status |-> IF Raised("status.calls", {"status.succeeded", "status.failed"})
                       THEN broken.status + 1 ELSE broken.status,
            apply  |-> IF Raised("apply.calls", {"apply.succeeded", "apply.failed"})
                       THEN broken.apply + 1 ELSE broken.apply]

\* What a changing reply does to the world.
Affect(op, r, cleared) ==
  world' = [native  |-> world.native \/ (r.changed /\ op \in {"apply", "prune"} /\ Manages),
            roots   |-> world.roots \cup (IF r.changed /\ op \in {"apply", "prune"} THEN {SchedulerRoot} ELSE {}),
            logs    |-> world.logs \ cleared,
            changed |-> world.changed \/ r.changed \/ world.logs \cap cleared # {}]

\* One operation of an interface: through the port, and its errors as the SDK's.
Call(op) ==
  /\ client = "open" /\ Needs(op) \subseteq given.installed
  /\ \E r \in Replies(op) :
       LET raised == r.answer \in Errors
       IN  /\ \E cleared \in (IF op = "clear logs" THEN Cleared(r.answer) ELSE {{}}) : Affect(op, r, cleared)
           /\ Observe(raised)
           /\ Count(r)
           /\ flight' = IF raised THEN r.answer ELSE "none"
           /\ verdict' = IF raised \/ verdict # "none" THEN verdict ELSE r.answer
           /\ mishaps' = mishaps \cup (IF r.answer \in {"valid", "conflicts"} THEN {} ELSE {r.answer})
  /\ UNCHANGED <<given, client, host, scope>>

\* close: the host first, then the flag; a host that raises leaves both open.
Close ==
  /\ client = "open"
  /\ client' = "closed" /\ host' = "closed"
  /\ UNCHANGED <<given, scope, flight, verdict, world, events, tally, broken, mishaps>>

CloseRaises ==
  /\ client = "open"
  /\ flight' = "exception" /\ Mishap("close")
  /\ UNCHANGED <<given, client, host, scope, verdict, world, events, tally, broken>>

\* A program that keeps its client, calls what it likes and goes on after errors.
Program ==
  /\ stage = "program" /\ calls < MaxCalls
  /\ \/ HostRefuses \/ Open(TRUE, given.backend) \/ Open(FALSE, "known") \/ OpenRaises(TRUE)
     \/ Refused
     \/ \E op \in Ops : Unserved(op) \/ Call(op)
     \/ Close \/ CloseRaises
  /\ calls' = calls + 1
  /\ UNCHANGED stage

-----------------------------------------------------------------------------
\* A scoped client touches the native scheduler only if its caller does not say no and,
\* where the caller says nothing, the configuration does not; it writes under the root that
\* was stated, else configured, and where the two do not disagree empties logs only there,
\* never in a dry run, through a link or beside the filter; and a closed client reaches
\* nothing.  What a caller and a configuration that disagree come to is for
\* FlagsBeatConfiguration.
StaysWithinScope ==
  [][LET configured == Compose(given.files, given.env)
         root == IF ~scope.workspace THEN None
                 ELSE IF given.ask.root # None THEN given.ask.root ELSE configured.root
     IN  /\ world'.native /\ ~world.native /\ scope.workspace =>
              /\ given.ask.manage # FALSE
              /\ given.ask.manage = None => configured.manage
         /\ world'.roots # world.roots => world'.roots = world.roots \cup {root}
         /\ \A e \in world.logs \ world'.logs :
              /\ given.ask.root = None \/ configured.root \in {None, given.ask.root} => e[1] = root
              /\ e[2] \notin given.links
              /\ ~given.dry /\ given.filter \in {None, e[2]}
         /\ client = "closed" => UNCHANGED <<world, events, tally>>]_clientVars

\* What loader.py:20-21 says of flags and SDK keyword arguments, "a flag always beats
\* configuration": with the native scheduler stated to be managed, what an apply or a prune
\* changes it changes there too; with a root stated, a scoped client empties no logs but
\* those under it.
FlagsBeatConfiguration ==
  [][/\ given.ask.manage = TRUE /\ world'.roots # {} => world'.native
     /\ \A e \in world.logs \ world'.logs :
          scope.workspace /\ given.ask.root # None => e[1] = given.ask.root]_clientVars

\* Every observed call has its end, every counted one its outcome, and no deployment
\* succeeds without a status that did.
BooksBalance ==
  /\ events.started = events.finished + events.failed
  /\ tally["status.calls"] = tally["status.succeeded"] + tally["status.failed"] + broken.status
  /\ tally["apply.calls"] = tally["apply.succeeded"] + tally["apply.failed"] + broken.apply
  /\ tally["apply.succeeded"] <= tally["status.succeeded"] /\ tally["apply.calls"] <= tally["status.calls"]
=============================================================================
