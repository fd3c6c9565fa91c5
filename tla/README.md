# xcron in TLA+

xcron keeps scheduled jobs in a project's YAML manifest and makes the operating
system run them: it renders one shell wrapper per job and installs entries for the
wrappers in the user's crontab, or as launchd property lists. It has no daemon. All
that is hard about it happens in files and tables that several short-lived processes
share without a lock: xcron invocations, the wrappers the scheduler starts, the user.
This directory models those processes, checks them with TLC on small instances, and
proves the most important properties with TLAPS for every value of the constants.

Paths below are relative to `src/` of the repository; a file name without a directory is
that of the component spoken of. `SN` stands for
`capabilities/xcron-capability-scheduler-native/src/xcron/capabilities/scheduler_native`.

## 1. Inventory

| Component | State it keeps | Operations | Modelled in |
|---|---|---|---|
| Planner and status (`SN/domain.py`, `manifest_yaml/_hashes.py`) | none | `build_project_plan`, `status_kind_for_change`, the two job digests | `Planner` |
| Cron backend (`SN/adapters/cron.py`, `SN/service.py`, `SN/state_store.py`) | the user's one crontab, wrapper files, `project-state.json` per project | apply, prune, status, plan | `CronControl`, `ScheduleTable` |
| launchd backend (`SN/adapters/launchd.py`) | plists, wrapper files, launchd's loaded services and override database, `project-state.json` | apply, prune, status | `LaunchdControl` |
| Shell wrapper (text rendered by `SN/wrapper.py`) | lock directory, event log, shell variables, traps | one run of a job, from tick to exit | `WrapperRun` |
| Manifest source and editor (`manifest_yaml/`) | the YAML schedule file | load, validate, normalise; add, update, remove, enable a job | `ManifestEdit`; data of the control modules |
| Jobs on the manifest (`jobs_manifest/provider.py`) | none of its own | job commands through the editor | `ManifestEdit` |
| Capability kernel (`packages/xcron-kernel`) | registry, constructed registrations, build stack, closed flag | register, select, freeze, require, close | `KernelHost` |
| Metrics store (`metrics_local/provider.py`, `xcron_metric` of the wrapper) | one JSON file of counters | snapshot, reset, increment | `MetricsFile` |
| Workspace (`workspace_local/`) | marker, schedules directory, starter manifest | init, find, resolve | `Workspace` |
| Agent hooks (`agent_hooks_local/`) | Codex's `config.toml` and `hooks.json`, Claude's `settings.json` of a project | install, repair, status | `AgentHooks` |
| Schedule translation (`cron_policy.py`, `cron.py`, `launchd.py`) | none | a schedule as crontab fields, as a launchd dictionary | `FireTimes` |
| SDK client (`packages/xcron-sdk`), settings (`settings_xcfg/loader.py`), logs (`logs_local/provider.py`), the scheduler service's flow (`SN/service.py`) | client and host, composed options, counters, recorded events, the jobs' log files | open, the calls of the five interfaces, close | `Client` |
| Command line (`packages/xcron-cli`) | the running command | attach, check, open, call, close, print, exit | `CommandLine` |
| Observability (`observability_structlog/`) | log lines | configure, write | not modelled: nothing reads them back |
| Version tool (`ops/version/bin/version.py`) | the version in the record, every `pyproject.toml`, every descriptor, `uv.lock` | set, next, validate, verify-release, package | `VersionTool`, `Release` |
| Operations catalogue (`ops/control/bin/catalogue.py`) | the declarations under `ops/` | validate, route, run a lane | `OpsCatalogue` |
| Release workflow (`.github/workflows/release.yml`) | tags, workflow runs, GitHub Releases | verify, prove, package, publish | `Release` |

**How they interact.** A command goes through the SDK to the kernel host, which builds
the scheduler capability with its manifest source. `NativeScheduleController` (service.py)
loads and validates the manifest, asks the chosen backend for what is installed,
plans the difference (`build_project_plan`) and hands the plan to the backend. The
backend writes wrapper files, then the crontab or the plists and launchctl, then the
state file. `status` and `apply` compare the manifest with the backend; `plan` compares
it with the state file. At every tick cron or launchd starts the wrapper, which
reports to its event log and to the metrics file and shares nothing else with xcron but
its own file, which apply rewrites in place.

**What is hard.** Nothing is atomic and nothing is locked:

* apply and prune read the whole crontab, work, and write the whole crontab back;
* wrappers and state file are truncated and refilled; a process can die in between;
* apply is a chain of file writes and subprocess calls, each of which may fail, with no
  rollback; the next apply must repair whatever is left;
* ownership in the crontab is decided by comparing text;
* a wrapper has an INT, a TERM and an EXIT trap over one lock directory and one
  `FINISH_REPORTED` flag, and other instances of itself beside it;
* a job command loads the manifest three times, writes a temporary file beside it and
  renames that over it, while the user and other commands do the same;
* the kernel's build recursion is driven by providers, which may ask for what they did
  not declare and may raise at any depth;
* xcron replaces the metrics file, wrappers empty and refill it in place, with no lock;
* init and the hook installers look at a path first and write it later;
* one `every` or cron line has to mean the same to two daemons that count differently;
* options are stated, configured in layers and merged again behind the client; every step
  of a command may fail, and one exit code has to say what came of it;
* `version.py set` rewrites some twenty files one at a time and undoes them one at a time;
  releases race over tags that may be moved while they run.

**What makes each component correct.** *Planner*: a no-op means equal, `ok` means
installed as wanted. *Cron backend*: an entry always has a file to run; only the
project's own block changes; no block appears twice; a complete apply converges
whatever half-done runs came before; applying again changes nothing. *launchd
backend*: the same convergence for plists, override flags and services; services go
before the files they run. *Wrapper*: two runs of a `forbid` job do not overlap; a run
reports at most one end, and a true one; a dead run does not block the job for ever.
*Manifest editor*: the file is always whole and valid; an edit touches the one job it
names; an edit nobody disturbs is atomic or refused. *Kernel*: each
capability is built once, in dependency order, and closed once, in reverse. *Metrics*:
no counter shows more than was counted, and it is exact when nothing overlapped. *Init*
changes nothing that was there, and a lone init leaves a workspace that resolves. *Hooks*: a
lone install ends with a matching status, keeps what is not its own, and is idempotent.
*Translation*: both daemons fire when the schedule says. *Client*: it touches only what its
options and configuration allow, and its books balance. *Command*: the exit code is true.
*Version tool*: all or nothing; drift has a cause. *Release*: what is published was proven.

The line at which each of these can go wrong, and the properties aimed at it, are the
`hazards` of `PROJECT.json`.

## 2. Modules

**`Planner`** — operators only. A wanted job is `[def, enabled]`; `def` stands for all
that the definition hash covers. `Deployed` is the record a backend gives back for a job
it was given (`observed` equals `hash`, as both `collect_*_project_state` build it).
`PlanChange` keeps the order of the tests of `build_project_plan`, `StatusKind` is the
status projection. Both control modules extend it.

**`CronControl`** — xcron invocations over one crontab. The crontab is a sequence of
segments: a managed block `[owner |-> project, jobs |-> manifest]`, or an unmanaged line,
whose owner is the line itself. An invocation is a process (`pc`, and `run` for what it
holds in memory); one action per read, truncation, filling or write of the code:

| Action | Code |
|---|---|
| `StartApply`, `StartPrune` | manifest loaded and validated, `service.py:51-80` |
| `CollectStatus` | status and the schedule errors, `service.py:114-167` |
| `ReadCrontab` | the read for writing, `cron.py:282` |
| `OpenWrapper`, `FillWrapper` | `write_text` of a wrapper, truncation and content apart |
| `WriteCrontab` | `replace_project_block` on the copy read before, and the write |
| `OpenRecord`, `FillRecord` | `save_project_state`, truncation and content apart |
| `InspectBlock`, `RereadCrontab`, `RemoveBlock`, `UnlinkWrapper`, `DeleteRecord` | `prune_cron_project`, `delete_project_state` |
| `Abort` | a kill or an exception at any step |
| `EditManifest`, `AddLine`, `DeleteSegment` | the user |

The wrappers are written while the block is rendered, so `ReadCrontab` comes before
them and `WriteCrontab` after: the copy is stale by then if anything else wrote.
`MarkerPrefix` holds the pairs of project identifiers where one's marker line begins
with the other's, because the code uses `startswith`. `Exclusive` says that nobody
touches the crontab while an invocation runs; `HandEdits` that the user edits it.

**`ScheduleTable`** — what the table promises: a step replaces one project's jobs as a
whole, or edits the user's own lines. `CronControl` implements it under the mapping
`Table` (the jobs of each owner's block, the set of unmanaged lines).

**`LaunchdControl`** — one project on launchd. `Inspect` plans from the plists and the
override database. Every changed job's wrapper and plist are written first
(`OpenWrapper` to `FillPlist`), then launchctl is called job by job: `Bootout`,
`Bootstrap`, `SetSwitch`; for a removed job `Bootout`, `UnlinkPlist`, `UnlinkWrapper`.
`loaded` is the set of services launchd holds; no plan reads it, as in the code.
`BootoutFails` is a bootout that launchctl refuses: the code ignores it (`check=False`) and goes
on as if the service were out; `refused` remembers, for the properties, the jobs it happened
to. `SkipLaunchctl` is `manage_launchctl` off. Any other launchctl call that fails
(`check=True`) is `Abort`; `Login` ends every invocation and loads what is installed and
enabled. The jobs of a plan are taken in any order, the code takes them sorted. The
torn state file is in `CronControl` and not repeated here.

**`WrapperRun`** — one job's wrapper, run by any number of slots. A slot is a live shell or
a finished one, invoked again at a later tick. The labels follow the script, line by
line where the lock, the traps or the event log are touched. `held` is `LOCK_DIR`: unset,
`named` (assigned, `mkdir` not done or failed) or `made`. A signal is pending until the
current command is over (`TakeSignal`); inside the EXIT trap the handler's `exit` ends
the shell at once (`TakeSignalInExit`), as POSIX shells do; a kill leaves the job's own
command running. An event is appended or lost (`Logs`, for the `|| true` at `wrapper.py:94`), and
what may fail under `set -e` ends the script: `StepFails` in the body, a line on stderr in
`SkipRun`, `LogFinished` and, within the EXIT trap, `ExitLogFails`. Two variables are
histories: `unwritten`, a run that could not write an event or its note of a skip; and
`robbed`, some shell removed a lock directory it had not made while it was in use (`InUse`), by a
live shell that had made it or by a command still running, a kill's orphan included.

**`ManifestEdit`** — `xcron jobs` commands on one manifest. A document is a sequence of jobs,
or `Unparsable` (empty, or no YAML mapping). A command goes through `Validate` (the
scheduler's validation), `Mutate` (second load, edit, validation of the copy), `CreateTemp`,
`FillTemp`, `Replace`, and `Report` (third load); `show` through `Validate` and `Lookup`.
`MayMean` says which identifiers a name may mean: in project `p`, `p.b` is both the job `b`
and a job that is called `p.b`. `Selectable` is `resolve_manifest_path`: without
`--schedule` there must be one YAML file, and a temporary file is a second. `began` is a
history: the manifest when the command started, or `Disturbed` once anybody else has
changed the directory.

| Action | Code |
|---|---|
| `Start`, `Validate` | `jobs_manifest/provider.py` `_validate`, `service.py:51-80` |
| `Mutate` | `mutate_manifest` up to the write, `_editor.py:173-191` |
| `CreateTemp`, `FillTemp`, `Replace` | `_write_manifest_atomically`, `_editor.py:284-288` |
| `Report` | `_mutation_result`, `jobs_manifest/provider.py:157-185` |
| `AbortEdit` | a kill, or an exception that is no `ManifestError` |
| `EditByHand`, `DeleteStrays` | the user |

**`KernelHost`** — one host object, single-threaded. The constructor's depth-first visit and
the build recursion are explicit stacks (`active`, `stack`) of frames: a capability and
what it has not looked at yet. `building` is the host's own list, kept apart from
Python's stack, because that they agree is what the `finally` is for. `world` is the
installation: what is declared (`requires`) and what builds really ask for (`asks`) are
separate. `Check`, `VisitRoot`, `VisitRequirement`, `Place` are the constructor;
`Require`, `Freeze`, `Obtain`, `Register`, `BuildRaises` the calls; `Close`, `CloseNext`,
`CloseRaises`, `Closed` the end. A call that fails at its port (after construction) changes
nothing and is a call that succeeds here. The order in which a build asks is any order.
No registration in the repository has a `close` method (the class has slots), so `Closers`
is a parameter.

**`MetricsFile`** — xcron processes and wrappers over one file of counters. A file that is
absent, empty or cut short reads as no counters (`_read`, and the script's `except`), so the
file is its counts. A wrapper's open file is the current one (`handle`) until xcron replaces
it; one who fills over another's text may leave a longer tail that does not parse (`overlaid`).

| Action | Code |
|---|---|
| `Increment`, `Reset` | `increment` and `reset` up to the write; the script up to `write_text` |
| `Swap` | `_write`: a temporary file replaces the store |
| `Truncate`, `Fill` | `path.write_text` of the script, truncation and content apart |
| `Abort` | a death, or a write whose error is swallowed |

**`Workspace`** — inits of one directory, beside an owner who creates files in it. A path holds
nothing, a directory, somebody's text, init's own content, a marker of another schema, or a
text cut short (`torn`).

| Action | Code |
|---|---|
| `LookForSchedules`, `MakeSchedules`, `MakeSchedulesFails` | `initialize_workspace`, 46-65 |
| `LookForManifest`, `OpenManifest`, `FillManifest` | 67-79 |
| `ApplyMarker`, `CheckMarkerPath`, `OpenMarker`, `FillMarker` | `_apply_marker`, `write_marker` |
| `DieInit`, `Create` | a death; the owner |

The operators `ReadMarker` to `ResolveWorkspace` are `marker.py` and `resolver.py`, used by
the property: what init leaves is what a later command finds.

**`AgentHooks`** — installers over three files, each read, amended, emptied and refilled
(`EmptyConfig`, `FillConfig`, `EmptyHooks`, `FillHooks`). `config.toml` is its lines by kind, a
JSON file the commands under its two events. `EnsureConfig` and `Upsert` are the amendments;
`EndsAlike` is the `endswith` by which an entry counts as xcron's own, where a path with a
space makes the suffix longer.

**`FireTimes`** — `RenderCron` and `RenderLaunchd` translate one job; `CronFires` and
`LaunchdFires`, external, say when such an entry fires, after `cron(8)` and
`launchd.plist(5)`; `Tick` moves the clock on.

**`Client`** and **`CommandLine`** — one invocation. `given` is all it may find: who drives,
what is installed and claims what, options stated, layers of configuration, environment,
manifest, log files. `Compose` is the layering of settings, `Scope` their merge with the
options, `SchedulerRoot`, `Manages` and `LogsRoot` what the ports make of that. `Replies` says
what a port may answer, which counters that bumps and whether anything changed; the flow of
the scheduler service is there return by return. `mishaps` is a history of what went wrong.

| Action | Code |
|---|---|
| `HostRefuses`, `Open`, `OpenRaises` | `Xcron.open`, `open_unscoped`, `_host` |
| `Call`, `Unserved`, `Refused` | the interfaces, `_observed_port`, `_guard` |
| `Close`, `CloseRaises` | `Xcron.close` |
| `AttachFails`, `UnknownCommand` | `contributions.py`, imported with the module; click |
| `WrongOutput`, `WrongArguments` | `_build_output`; `jobs add`, `jobs update` |
| `Enter`, `EnterFails`, `Work`, `Leave` | the `with _open_client` of every command |
| `RenderError`, `RenderInvalid`, `PrintAnswer`, `PrintFails` | the end of every command, `output.py`, `main.py` |

`CommandTable` has the commands (`HomeView` to `MetricsCommands`) by the path that is claimed,
the kind of client and the calls. `Program` is a program that keeps its client open and goes
on after errors.

**`VersionTool`** — `version.py set` in a working tree, by several tools and a developer. A
source's content is the version it states and a number for the rest of its text.

| Action | Code |
|---|---|
| `Plan`, `Save` | `planned_updates`, then the originals (370-422) |
| `Replace`, `ReplaceFails` | the loop over the changes |
| `RefreshLock`, `LockFails` | `uv lock` |
| `Confirm`, `Reject` | `validate` |
| `PutBack`, `PutBackLock`, `PutBackFails` | the restoring loop (431-434) |
| `Die`, `EditText`, `EditVersion` | a death or interrupt; the developer |

**`OpsCatalogue`** — `validate` and its parts, `_cycles` with its recursion, `_steps`, `route`,
as operators on a catalogue record. **`Release`** runs them: `Start` to `UploadSums` are the
steps of the workflow, one action each but that `ProofPasses` is one command of a lane; `Push`,
`Delete`, `Rerun` the developer, `Fail` any step. A commit is what it says of its version,
whether its projections agree, its catalogue, and the commands that fail on it.

`MCCron`, `MCLaunchd`, `MCKernel`, `MCTooling`, `MCParts` give values to the
constants; the last two run one of several parts that share no state. Operators marked as mutants stand
beside the definition they corrupt; no specification uses them.

## 3. Runs

| Run | Instance | What it shows |
|---|---|---|
| `cron_serial` | 2 projects, 2 jobs, 3 definitions (one that cron cannot express), 1 user line, 1 process, user edits between runs | every entry has a wrapper (`NoDanglingEntry`); others' lines stay (`WriteKeepsOthers`); a complete apply converges: status, plan and wrappers agree (`ApplyConverges`); a no-op apply changes nothing (`NoopApplyIsInert`); the crontab implements `ScheduleTable` |
| `cron_overlap` | 2 processes, 2 projects, 1 job, `manage_crontab` on or off | no owner is ever twice in the crontab; a write on a copy that is not stale loses nothing |
| `cron_prefix` (violation) | as serial, `app` a prefix of `app2` | `WriteKeepsOthers` fails: `app` replaces or removes `app2`'s block |
| `launchd` | 2 jobs, 2 definitions, 4 manifests, 1 process, `manage_launchctl` on or off, logins, bootouts, deleted plists | `ApplySettles`; `PruneClears`; `ServiceGoesFirst`, with bootouts that succeed and that are refused |
| `launchd_disabled` (violation) | as launchd, managed | a disabled job is on after the apply that creates it |
| `launchd_unloaded` (violation) | as launchd, managed | after a death between plist and bootstrap the next apply completes with the enabled job not loaded |
| `wrapper` | 2 slots, exit codes 0 and 1, signal code 143, 2 hits | types; `OverlapNeedsRobbery`, `OneTrueReport`, `MissingFinishHasCause`; `SkippedRunsAreSilent` (action property); `StaleLockHeals` (liveness) |
| `wrapper_overlap` (violation) | 2 slots, no hit | two runs of a `forbid` job overlap |
| `kernel` | 3 capabilities: every installation and graph of requirements asked for as declared, every graph of asking over the subgraphs of a declared cycle, self-loops, a flawed selection | `SnapshotIsOrdered`, `RefusesOnlyTheImpossible`; `BuiltOnceAfterItsNeeds`, `NoReentry`, `CyclesAreReal`; `ClosedInReverse`, `SecondCloseMeansRaised`; `AlwaysReturns` (liveness) |
| `tooling` | `set`: 2 tools, a record and 2 projects, 2 versions (0.9.0 and 0.10.0), 1 edit; release: 5 commits (an older version, a good one, a drifting one, one with a circle of capabilities, one on which a test fails), tags `v1`, `v2` and a release candidate's, 2 pushes, 1 re-run | `SetIsAllOrNothing`, `DriftHasACause`; `OnlyProvenIsPublished`, `MislabelNeedsTwin` |
| `parts` | 2 inits and an owner, from every directory an owner can make; 1 xcron process and 2 wrappers on a metrics file; 2 installers (one path with a space) on files of every shape; 32 schedules by the clock; every command over 8 installations, with unknown backends, wrong usage and wrong claims; programs of 3 calls over 5 configurations; 2 job commands at once of 7 requests on a manifest, 2 identifiers one of which also names the other's job, 3 definitions (one refused), a user who writes an unparsable file or a duplicate | types of the manifest's module; `InitIsTimid`; `MetricsAreHonest`; `InstallSettles`; `EveryKeepsItsPeriod`, `CalendarIsFaithful`; `ExitTellsTheTruth`, `BooksBalance`, `StaysWithinScope`; `CommandsWriteValid`, `FreshEditTouchesOneJob`, `LoneCommandsAreAtomic` |
| `parts_flags` (violation) | the programs of `parts` | `FlagsBeatConfiguration` fails: what a program states loses to the configuration |

**Bounds, and why they are enough.** Two projects are one and a neighbour, which is all
the ownership properties compare. Two jobs let an invocation die with one job done and
one not; the manifests used make every planner change happen (create, update, enable,
disable, remove, no-op) and an entry change next to one that stays. Two processes are
what a stale copy takes; three only lengthen the interleavings, and `OneBlockPerProject`
is proved for any number. In `WrapperRun` a slot is reused without end, so two slots are
unboundedly many invocations, at most two alive at once; `MaxHits = 2` allows a signal in
the body and another in the EXIT trap of the same run, or a kill of each of two runs. One signal
code stands for both: the two handlers differ in nothing else.
Three capabilities are the least in which a cycle can miss the root it is reached from and in which
a diamond's arms differ; the graph properties are proved for any number. `MaxCloses = 2` lets
a `close()` be repeated after one that raised. In `ManifestEdit` a manifest has no bound but the two
identifiers: `add` refuses one that is there. The counters `hits` and `closes` are
bounded by `MaxHits` and `MaxCloses`, `builds` by what is proved; the crontab has at most one segment
per owner, as proved. Symmetry is used in `cron_overlap`, where both projects
declare the same manifests and both processes are alike, and in `tooling`, where both tools
are. In `tooling` three sources are a record, which is replaced first, and two projects whose
versions `uv lock` compares; two versions have a part of one digit and of two; two pushes are a
race, a move or a twin. In `parts` an init looks at four paths and two inits with one owner make
each of them appear between look and write; two wrappers and a command are the two ways of
writing, against each other; the clock runs, by schedule, two days of minutes, ten of five
minutes, two months of half hours or four years of half days (a year of three months, the second
of 28 days), so that every unit begins anew within it; three calls are a program that opens,
calls and either calls again or closes, and four gave the same answers.

**Deadlock** is checked in every run but `kernel`, `tooling` and `parts`: invocations and ticks
can always start, while a host whose constructor failed or that is closed, tools that
have died, releases when the pushes are spent, a command that has exited and a clock at its
bound stop by design.

**Fairness.** `WrapperRun` and `KernelHost` have a liveness property each. `KernelHost`'s `FairSpec`
takes weak fairness of the constructor, of the calls' own steps and of `close()`: the
interpreter runs on. No caller has to call, and no build has to raise. In `WrapperRun`,
`FairSpec` takes weak fairness of `Invoke` (the scheduler keeps ticking), of `Step` (the system runs a live shell) and of
`CommandEnds` (jobs are one-shot, SPEC.md:360), and strong fairness of `Setup`: the
job's directory, tested anew by `cd` at every run, is not missing every time. Nobody
has to send a signal. `StaleLockHeals` is true for a reason its author may not have
meant: the next run finds the lock, is skipped, and its EXIT trap removes a lock it did
not make. The same line makes `wrapper_overlap` fail; a fix that removes only an own lock
loses the healing, which is the mutant of that property.

## 4. Findings

1. **`startswith` on markers** (`cron.py:150`): applying project `app` overwrites the block
   of `app2` (SPEC.md:413, and the docstring at `cron.py:142`).
2. **A skipped run removes the runner's lock** (`wrapper.py:169`): SPEC.md:574-575 fails
   without any signal.
3. **Created and updated jobs are always enabled on launchd** (`launchd.py:266-270`): a
   disabled job is on until a second apply (SPEC.md:361).
4. **An unloaded service is invisible to the planner** (`launchd.py:252`, 377, 401): apply
   does not load it again (SPEC.md:460; `docs/user/README.md:247` lists bootout as seen).
5. **A flag does not always beat configuration**, as `settings_xcfg/loader.py:20-21` and
   `config.default.yaml:5` say: `manage_*` are the conjunction of both (`service.py:243-244`), and for
   logs the configured state root beats the stated one (`logs_local/provider.py:76`).
   `StaysWithinScope` says what holds where the two do not disagree.

**Known, and not counted as a finding**: `cron.py:282` reads the whole crontab and writes it
back later, without a lock, so two overlapping invocations can lose each other's entries.
`resources/skills/use-xcron/SKILL.md:291` tells users not to do that; `FreshWriteKeepsOthers`
(run `cron_overlap`) states exactly when nothing is lost. The manifest editor is alike
(`FreshEditTouchesOneJob`).

Disagreements that were met while modelling and have no run of their own:

* `resources/skills/skill/SKILL.md:198` calls prune "the operation that removes one project's schedules
  from the system"; a bootout that fails is ignored (`launchd.py:479`, 308, `check=False`), plist and
  wrapper are unlinked under a service that goes on, and without the plist no later command sees
  it. The case is in the model (`BootoutFails`), and `PruneClears` and `ServiceGoesFirst` say that
  nothing else leaves one.
* `resources/skills/admin-xcron/SKILL.md:231` concludes from a start without a finish that "the process
  was killed"; an event that cannot be written is lost without a word (`wrapper.py:94`). The case is
  in the model (`Logs`), and `MissingFinishHasCause` says that there is no third one.
* `resources/skills/admin-xcron/SKILL.md:232` concludes from an empty log that the wrapper was
  not invoked; skipped runs (`SkippedRunsAreSilent`) and a failed `cd` leave an empty log too.
* SPEC.md:496 says prune removes artifacts "that no longer exist" in the manifest; prune
  removes all of them. With `manage_crontab` off, it unlinks the wrappers of entries it leaves.
* The claim of `tests/degraded/test_degraded_behaviour.py:172-174` that leftover wrappers are
  inert holds for a job that was never applied, the case that test drives; an entry that is
  installed already runs the new wrapper (`cron.py:124`).
* The temporary file of an edit that dies (`_editor.py:284`) has the manifest's suffix, and
  commands that name no schedule are refused from then on.
* `docs/dev/plans/xcron-schedule-engine-fix.md` says "any valid 5-field cron expression can be
  faithfully represented"; `*/45 * * * *` becomes an interval of 45 minutes on launchd, names
  raise, and a step of all days beside the other day field fires more often
  (`CalendarIsFaithful` lists the exceptions). `every: 45m` on cron fires at :00 and :45
  (`EveryKeepsItsPeriod`: never longer than stated, exact where the amount divides the unit).
* A flag's environment variable set to `off` turns it on (`settings_xcfg/loader.py:61-67`).
* `init` never looks at the conflicts of its result: the command answers 0 and "already
  initialized". A starter manifest or marker that a death cut short is never healed: init
  retains the one and reports the other.
* A `[features]` header with a comment behind it is not found, and a second table of that name
  is appended, which is no TOML any more.
* `release.yml`'s step "Verify the exact pushed annotated release tag" compares no `$TAG`:
  `verify-release` looks for the tag of the recorded version. `MislabelNeedsTwin` states when
  that shows.
* `Xcron.open` loses its host when the workspace or the settings raise (`client.py:63-66`).
  `CapabilityError`, `ConfigurationError` and `WorkspaceError` leave the command line as tracebacks,
  still with exit code 1. The metrics commands need the logs capability, and the home view and
  session start need agent hooks and the scheduler.

## 5. Proofs

One proof module per group of components: `CronControl_proofs` (with the planner),
`LaunchdControl_proofs`, `Firing_proofs` (the wrapper and the fire times),
`ManifestEdit_proofs`, `KernelHost_proofs`, `CommandLine_proofs` (with the client),
`SharedFiles_proofs` (metrics, workspace, agent hooks) and `Tooling_proofs` (version tool,
catalogue, release). Each assumes only the constants' named assumptions, and what its theorem
states: `Exclusive` (invocations run one at a time, as the skill tells users), `IdsApart` (no
project's marker begins with another's) and, once, that the crontab is managed.

* **Planner.** What is read back from a backend never drifts, so the drift branch is dead
  for xcron's own backends; a no-op is equality (`NoopIsInSync`); `ok` is installed as
  wanted (`OkIsInstalled`).
* **CronControl, overlapping invocations.** `TypeCorrect`, with the strengthening `Working`: while
  it renders, an invocation handles only jobs its manifest has. `OneBlock` assumes `IdsApart`
  and nothing about exclusion: the inductive
  invariant `OwnersOnce` says that the crontab *and every copy an invocation holds* have
  each owner at most once. The copies are needed since any of them may be written back,
  however stale. It rests on `ReplaceBlockFacts`: replacing, appending and removing keep
  owners apart. Where one id is a prefix of the other the assumption fails, and so does
  the property's neighbour in `cron_prefix`. `FreshWritesKeep`: whatever else runs, a write on a copy
  that is not stale keeps everybody else's segments. `KeepsOthers` says so by a map between
  the positions of others' segments in the two tables that keeps segment and order, with
  nothing left over; each kind of edit (replace, append, remove) exhibits its own.
* **CronControl, one at a time.** `WritesKeep`, `EntriesHaveWrappers`, `NoopsAreInert`,
  `AppliesConverge` and `TableIsImplemented` assume `IdsApart` and `Exclusive`;
  `EntriesHaveWrappers` also a managed crontab, since with it off prune does leave entries
  without wrappers. The invariant `SerialInv` has three parts: at most one
  invocation is underway (`Alone`); no segment is empty and, where managed, none dangles (`Sane`);
  and, label by label, what an invocation knows (`Holding`): its copy is the crontab,
  a quiet plan means that the write will change nothing, the wrappers of the jobs it is done with
  are filled, after the write its entry is the manifest's, and prune unlinks only under entries
  that are gone. Invocations that died are not
  spoken of, which is how convergence from any half-done state follows. `TableIsImplemented` shows each
  step to be one of `ScheduleTable`, or a stutter, under `Installed`; dying between the
  wrappers and the crontab is a stutter.
* **LaunchdControl.** `TypeCorrect` as above. The rest assumes `Exclusive`. `ServicesGoFirst`: the
  invariant `OutFirst` says that an invocation is alone and that the job whose files it
  unlinks is not loaded, or launchctl refused to boot it out
  (`OutOrRefused`). Without exclusion another invocation bootstraps the plist between
  bootout and unlink, so the assumption is needed. `AppliesSettle` and `PrunesClear` come from
  `SettleInv`: what the plan may say of a job (`Planned`); that a job it leaves alone is in sync
  (`Spared`); and that each other job is still to be written, at hand or written, and likewise
  for switching it or removing it, where a service may be left that
  was refused. The exception in `ApplySettles`, jobs created or updated while disabled, is all that has to be granted.
* **WrapperRun.** `TypeCorrect`. `OverlapIsRobbery`: the invariant `LockInv` ties the lock
  directory to at most one user of it, a shell that made it or a command that runs, as long as nobody
  was robbed, so that the trap of a skipped run, which removes a lock in use, is the *only* cause of
  overlap, orphaned commands included. `ReportIsTrue`: `ReportInv` ties the
  number and code of logged ends to `FINISH_REPORTED`, `RUN_STARTED` and the program
  counter. `MissingFinishIsExplained` over `HitInv`: a run that is past reporting and has no end in
  its log was hit or failed to write it. `SkipIsSilent` is about the step that ends a skipped
  run's shell, from the exit status that all four invariants carry up to it.
* **FireTimes.** `CalendarsAreFaithful`, for any crontab lines and any year of up to twelve
  months of up to 31 days. `CalendarFacts` is about the calendar: every day of the year is in a month
  of it. `ListIsMatched` says that the list launchd gets of a field holds the
  values cron's field matches, and the theorem follows by which keys are given.
  `PeriodsAreKept`, for any amount of any unit: `SinceCron` says in closed form how long ago cron
  fired, `LastLaunchd` when launchd did, and the invariant `Due` that these are what the daemons'
  fires add up to. `Wheel` is the step of a clock hand by a quantum that divides its turn,
  `TurningWheel` that of a hand within a hand (minutes by N within the hour), `DayFacts` and
  `NextDay` the days of a month, after which a step of days begins anew. It rests on
  `QuantumAssumption`: an amount is positive, and the quantum of a job divides its period and the
  turn of its unit, as a minute always does; of schedules in seconds, that leaves those of whole
  minutes.
* **ManifestEdit.** `TypeCorrect`; `WritesAreValid`: what a command holds for writing, in memory or in
  its temporary file, passed validation, and no one else writes to either. `AtomicOrRefused`:
  the invariant `Lone` says, for every label, how the manifest relates to the one found at
  the start as long as nobody disturbed: equal to it until `Replace`, equal to its edit
  after. It needs no exclusion: a disturbed command is simply not spoken of.
  `FreshEditsTouchOne` needs none either: by `Drafted` a draft is the edit of the base it was made
  from, and an edit of a document keeps every other job, in order.
* **KernelHost.** The constructor's visits and the builds of a call are the same recursion, over
  `requires` and over `asks`; both stacks are a `Chain`: no capability twice, each needed by
  the one it was reached from, whatever a frame has looked at done. `ChainPush`,
  `ChainLooked`, `ChainPop` say that a step keeps it, `ChainCycle` that meeting oneself
  exhibits a cycle. `CallsInv` adds that the host's list is the stack, and gives
  `BuiltOnce`, `NeverReentered` and `CyclesReported`; `SnapshotInv` adds that the order so
  far has each capability once and after its requirements, and gives `Ordered`. For
  `RefusalIsJust` a finished order must exclude a cycle: the member of one that comes
  first would require a member that comes before it (`OrderedIsAcyclic`). `ClosureInv`
  says that what `close()` has still to look at is the beginning of the snapshot, backwards, and, until a
  close raises, that none of it has been closed; `ClosedOnce` and `DependentsGoFirst` follow,
  the latter with the order of the snapshot.
* **Client and CommandLine.** `ExitIsTrue`: `ExitInv` has a part for each stage of a command and
  says which mishaps its error or verdict stands for, and whether the host is open.
  `BooksAreBalanced`: by `Books`, every reply of a port keeps the sums, alone or after
  another. `WithinScope`: an open client's scope is the one `Scope` made
  (`Scoped`), and `ScopeFacts` computes from layers and options what it lets through.
* **MetricsFile.** `TypeCorrect`. `Honest`: no draft and no file ever shows more than was begun; and
  unless something was harmed at most one update is underway, whose draft is the exact count, written
  into a file that is still its own.
* **Workspace.** `InitsAreTimid` from `DirectoryInv`: what an init found is there and not a path
  it is about to write (`Kept`); an undisturbed one has its directory, or the reason why not and
  reported it, and from some step on its manifest (`Solo`); a manifest cut short has an init
  at work on it or a death behind it.
* **AgentHooks.** `InstallsSettle` from `HooksInv`: as long as nobody disturbed an installer, the files
  are those it found, amended up to its step. `Upsert` and `EnsureConfig` are idempotent and
  keep others' entries; `Respects` names the one position that may differ.
* **VersionTool.** `Typed`. `DriftExplained`: the invariant `NoCause` says that while none of
  the four causes has happened at most one set is underway, the originals it saved agree with
  one another, and its restoring loop has brought back the versions of the sources it has
  passed; when no set is underway the tree agrees. `AllOrNothing` needs no such exclusion: its
  invariant `Private` says, of every set that nobody disturbed, that what its loop has passed is
  planned (or restored) and the saved originals are the tree it planned from.
  `NextIsNewer` is about `next_version` alone.
* **OpsCatalogue and Release.** `ReleaseIsInvariant`: a run past its verification has the annotated
  tag that let it pass among those ever pushed (`Twin`); one half way through its proofs has still
  to run every one that fails (`Outstanding`); one past them is `Proven`; and what is attached
  comes from such runs. `MislabelsHaveTwins` and `PublishedIsProven` follow. The latter says
  that a published catalogue has no circle, while the code only says that its search found
  none: `CirclesAreFound` shows that the search of `_cycles` finds every circle there is, by the
  least counterexample in the number of nodes not underway.

Recursive definitions are functions or the community modules' folds here, and what a proof needs
of one is shown by a least counterexample (`LeastFacts`, from `WFMin`): the days before a month,
the nested visits of the search, the flattened list of a catalogue's commands. The
inductive invariants `LockInv`, `ReportInv`, `HitInv`, `ReleaseInv` and the type invariants were
checked by TLC before they were proved.

Only model-checked: `StaleLockHeals` and `AlwaysReturns`, since liveness is beyond the prover. The
other properties of the runs that pass are theorems.

## 6. What is abstracted, and what is left out

* Schedules, commands, environments and paths are one definition value, told apart by the
  definition hash; cron cannot express some (`Untranslatable`). In `FireTimes` a
  schedule is its fields, parsed; months have no names and a day is 1440 minutes (no change of
  clocks). launchd counts its interval from the load and is never asleep.
* The crontab's blank lines, a block whose END marker was removed by hand, hand-edited
  wrappers and plists, and two checkouts that declare one project id are left out.
* In `WrapperRun` an event is written or not; that without python3 both are missing is one case
  of it. Captured lines and the metrics counters are not events of its log.
* `launchctl bootstrap` either loads the service or fails (`Abort`); whether launchd refuses a
  label that is switched off, or one still loaded after a refused bootout, is not settled by the
  code: both outcomes are in the model, and no property depends on which.
  A machine without launchctl, where inspection degrades, is left out.
* In `ManifestEdit` a definition is valid or refused, once and for all (a working directory that
  disappears is not modelled); an `enabled` field that is absent is TRUE; comments and layout,
  which an edit rewrites, are left out.
* In `KernelHost` ambiguous implementations, pins and claim collisions are one flag of the
  installation; loading of entry points, port types and asset paths are left out, and a
  build does not swallow an error of the host (none in the repository does).
* `MetricsFile` leaves out timestamps and the litter of a temporary file; a text that a shorter
  one was written over either parses or does not.
* `Workspace` has one directory: `ResolveProjectRoot` is checked on a chain of it and a bare one.
* In `AgentHooks` an event's entries are all commands or the file is bad; files that are not
  TOML or whose JSON has other shapes are bad, or lines of no kind. The session-end log (one
  appended line) is left out, and the search for the executable is one of a call's failures.
* A call of a port is one step of `Client`: dying inside one belongs to the port's own module.
  The commands' options, the payloads, formats and field selection are left out but for whether
  they fail (`WrongOutput`, `PrintFails`).
* `VersionTool` takes every diagnostic that is not about versions to be absent, and the record
  is well-formed; the temporary file a failed replace leaves is not kept. `sync` and `show` are
  left out. In `Release` the checkout is clean, and the steps that install tools are `Fail`.
* In `OpsCatalogue` a pattern is its text, by which declarations are compared, and the set of
  files it matches, by which an asset's owners are counted.

Not modelled, and why: observability (writes lines nothing reads back), path derivation and
subprocess calls of the scheduler (no state), mappers and output formats (pure, and no
property is about them), the contracts (types), the test-support package.

## 7. Plan

Done: the modules of section 2, and the theorems of section 5. Next, in this order:

1. `BackendSwitch` — both control modules over one wrapper directory, and a second
   launchd project for the plist glob.
2. A manifest that changes while `CronControl` and `ManifestEdit` run beside each other.
3. `sync` of the version tool, and the session-end log.
4. The theorems of 1 and 2, as they are added.
5. For `ManifestEdit`, an abstract map of jobs that lone edits implement.
