---------------------------- MODULE LaunchdControl ----------------------------
(***************************************************************************)
(* The launchd backend (scheduler_native/adapters/launchd.py): one project *)
(* whose jobs are property lists in the LaunchAgents directory, loaded     *)
(* into launchd with `launchctl bootstrap` and switched on and off in its  *)
(* override database with `launchctl enable` and `disable`.                *)
(*                                                                         *)
(* Apply first writes the wrapper and the plist of every job whose plan is *)
(* not a no-op, then calls launchctl for one job after the other; any of   *)
(* these steps may fail and end the invocation, and nothing is rolled      *)
(* back.  What is installed is read back from the plists and from the      *)
(* override database only: whether a service is loaded is looked up, and   *)
(* shown, but no plan depends on it.                                       *)
(***************************************************************************)
EXTENDS Planner, Naturals

CONSTANTS
  Procs,          \* xcron invocations that may be alive at once
  Jobs,           \* job identifiers
  Defs,           \* job definitions, told apart by their definition hash
  Manifests,      \* the manifests the project may declare
  ManageChoices,  \* values the manage_launchctl option may take
  Exclusive,      \* TRUE: nobody touches launchd while an invocation runs
  Torn            \* a file whose rewriting was cut short

JobSpec  == [def : Defs, enabled : BOOLEAN]
Manifest == [Jobs -> JobSpec \cup {Absent}]
NoJobs   == [j \in Jobs |-> Absent]

ASSUME SpecialsAreNoJobs ==
  /\ Absent \notin JobSpec \cup Manifest \cup Defs \cup Jobs
  /\ Torn \notin JobSpec \cup Defs \cup {Absent}
  /\ \A job \in JobSpec, on \in BOOLEAN :
       [Deployed(job, "launchd") EXCEPT !.enabled = on] # Absent
ASSUME ManifestsAssumption == Manifests \subseteq Manifest
ASSUME OptionsAssumption == ManageChoices \subseteq BOOLEAN /\ Exclusive \in BOOLEAN

VARIABLES
  manifest,   \* what the project's schedule file declares
  wrapper,    \* wrapper file of each job: the definition it runs, or none
  plist,      \* plist file of each job: the job it was written for, or none
  loaded,     \* the jobs whose service launchd has loaded
  override,   \* launchd's override database: "unset", "enabled", "disabled"
  record,     \* the project's project-state.json
  pc,         \* the step each invocation is at
  run         \* what each invocation holds in memory

disk     == <<wrapper, plist>>
launchd  == <<loaded, override>>
vars     == <<manifest, disk, launchd, record, pc, run>>

Changes == {"create", "update", "drift", "enable", "disable", "remove", "noop"}

(* What an invocation holds: the manifest it loaded, the plan it made, the *)
(* jobs left to write and left to bring to launchd, the one at hand, and   *)
(* manage_launchctl; for the properties, also the jobs launchctl would not *)
(* boot out for it.                                                         *)
Idle == [kind |-> "none", want |-> NoJobs, plan |-> [j \in {} |-> "noop"],
         writes |-> {}, acts |-> {}, job |-> Absent, manages |-> TRUE,
         refused |-> {}]

----------------------------------------------------------------------------
(* Reading back: definition and hash from the plist, the enabled flag from *)
(* the override database alone.                                             *)
InspectedJob(j) ==
  IF plist[j] = Absent THEN Absent
  ELSE [Deployed(plist[j], "launchd") EXCEPT !.enabled = override[j] # "disabled"]

StatusPlan(m) == BuildPlan(m, [j \in Jobs |-> InspectedJob(j)], "launchd")

(* plistlib raises on the first plist that does not parse. *)
Readable == \A j \in Jobs : plist[j] # Torn

Changing(plan) == {j \in DOMAIN plan : plan[j] # "noop"}

(* What launchd does with a plist when its user logs in. *)
Starts(j) ==
  /\ plist[j] \notin {Absent, Torn}
  /\ \/ override[j] = "enabled"
     \/ override[j] = "unset" /\ plist[j].enabled

----------------------------------------------------------------------------
Init ==
  /\ manifest \in Manifests
  /\ wrapper = [j \in Jobs |-> Absent]
  /\ plist = [j \in Jobs |-> Absent]
  /\ loaded = {}
  /\ override = [j \in Jobs |-> "unset"]
  /\ record = Absent
  /\ pc = [c \in Procs |-> "idle"]
  /\ run = [c \in Procs |-> Idle]

AllIdle == \A c \in Procs : pc[c] = "idle"
MayTouch == Exclusive => AllIdle

(* The environment: the schedule file is edited at any time; the user      *)
(* boots a service out or deletes a plist (docs/user/README.md:247-252),   *)
(* or logs out and in again, which ends every invocation.                   *)
EditManifest ==
  /\ manifest' \in Manifests
  /\ UNCHANGED <<disk, launchd, record, pc, run>>

UserBootsOut(j) ==
  /\ MayTouch
  /\ loaded' = loaded \ {j}
  /\ UNCHANGED <<manifest, disk, override, record, pc, run>>

UserRemovesPlist(j) ==
  /\ MayTouch
  /\ plist' = [plist EXCEPT ![j] = Absent]
  /\ UNCHANGED <<manifest, wrapper, launchd, record, pc, run>>

Login ==
  /\ loaded' = {j \in Jobs : Starts(j)}
  /\ pc' = [c \in Procs |-> "idle"]
  /\ run' = [c \in Procs |-> Idle]
  /\ UNCHANGED <<manifest, disk, override, record>>

(* Start of an invocation: the schedule file is loaded and validated. *)
Start(c, kind, m) ==
  /\ pc[c] = "idle"
  /\ MayTouch
  /\ pc' = [pc EXCEPT ![c] = "inspect"]
  /\ \E b \in ManageChoices :
       run' = [run EXCEPT ![c] = [Idle EXCEPT !.kind = kind, !.want = m,
                                              !.manages = b]]
  /\ UNCHANGED <<manifest, disk, launchd, record>>

StartApply(c) == Start(c, "apply", manifest)
StartPrune(c) == Start(c, "prune", NoJobs)

Leave(c) ==
  /\ pc' = [pc EXCEPT ![c] = "idle"]
  /\ run' = [run EXCEPT ![c] = Idle]

(* An exception (a launchctl call that fails under check=True, a write     *)
(* that fails, a plist that does not parse) or a kill, anywhere.            *)
Abort(c) ==
  /\ pc[c] # "idle"
  /\ Leave(c)
  /\ UNCHANGED <<manifest, disk, launchd, record>>

(* Read what is installed and plan against it; prune wants no jobs at all. *)
Inspect(c) ==
  /\ pc[c] = "inspect"
  /\ Readable
  /\ pc' = [pc EXCEPT ![c] = "loop"]
  /\ LET plan == StatusPlan(run[c].want)
     IN  run' = [run EXCEPT ![c].plan = plan,
                            ![c].acts = Changing(plan),
                            ![c].writes = Changing(plan) \cap Present(run[c].want)]
  /\ UNCHANGED <<manifest, disk, launchd, record>>

----------------------------------------------------------------------------
(* First every changed job's wrapper and plist, each truncated and filled. *)
OpenWrapper(c) ==
  /\ pc[c] = "loop"
  /\ \E j \in run[c].writes :
       /\ wrapper' = [wrapper EXCEPT ![j] = Torn]
       /\ run' = [run EXCEPT ![c].job = j, ![c].writes = @ \ {j}]
  /\ pc' = [pc EXCEPT ![c] = "wrapper"]
  /\ UNCHANGED <<manifest, plist, launchd, record>>

FillWrapper(c) ==
  /\ pc[c] = "wrapper"
  /\ wrapper' = [wrapper EXCEPT ![run[c].job] = run[c].want[run[c].job].def]
  /\ pc' = [pc EXCEPT ![c] = "plist"]
  /\ UNCHANGED <<manifest, plist, launchd, record, run>>

OpenPlist(c) ==
  /\ pc[c] = "plist"
  /\ plist' = [plist EXCEPT ![run[c].job] = Torn]
  /\ pc' = [pc EXCEPT ![c] = "plisting"]
  /\ UNCHANGED <<manifest, wrapper, launchd, record, run>>

FillPlist(c) ==
  /\ pc[c] = "plisting"
  /\ plist' = [plist EXCEPT ![run[c].job] = run[c].want[run[c].job]]
  /\ pc' = [pc EXCEPT ![c] = "loop"]
  /\ run' = [run EXCEPT ![c].job = Absent]
  /\ UNCHANGED <<manifest, wrapper, launchd, record>>

----------------------------------------------------------------------------
(* Then launchctl, job by job: out with the old service.  Its absence is   *)
(* no error, and neither is any other failure (check=False): what is to be *)
(* done to the job is done all the same ...                                 *)
Acting(c, j) == pc[c] = "loop" /\ run[c].writes = {} /\ j \in run[c].acts

Take(c, j, label, stuck) ==
  /\ pc' = [pc EXCEPT ![c] = label]
  /\ run' = [run EXCEPT ![c].job = j, ![c].acts = @ \ {j}, ![c].refused = @ \cup stuck]

AfterBootout(c, j) == IF run[c].plan[j] = "remove" THEN "unlink" ELSE "bootstrap"

UnlinkOnly(c, j) ==       \* a mutant: a removed job is not booted out
  /\ Acting(c, j)
  /\ run[c].manages
  /\ loaded' = IF run[c].plan[j] = "remove" THEN loaded ELSE loaded \ {j}
  /\ Take(c, j, AfterBootout(c, j), {})
  /\ UNCHANGED <<manifest, disk, override, record>>

Bootout(c, j) ==
  /\ Acting(c, j)
  /\ run[c].manages
  /\ loaded' = loaded \ {j}
  /\ Take(c, j, AfterBootout(c, j), {})
  /\ UNCHANGED <<manifest, disk, override, record>>

BootoutFails(c, j) ==
  /\ Acting(c, j)
  /\ run[c].manages
  /\ j \in loaded
  /\ Take(c, j, AfterBootout(c, j), {j})
  /\ UNCHANGED <<manifest, disk, launchd, record>>

(* ... or, told not to manage launchd, only a removed job's files go ... *)
SkipLaunchctl(c, j) ==
  /\ Acting(c, j)
  /\ ~run[c].manages
  /\ Take(c, j, IF run[c].plan[j] = "remove" THEN "unlink" ELSE "loop", {})
  /\ UNCHANGED <<manifest, disk, launchd, record>>

(* ... in with the new one ... *)
Bootstrap(c) ==
  /\ pc[c] = "bootstrap"
  /\ plist[run[c].job] \in JobSpec
  /\ loaded' = loaded \cup {run[c].job}
  /\ pc' = [pc EXCEPT ![c] = "flag"]
  /\ UNCHANGED <<manifest, disk, override, record, run>>

(* ... and its switch: off for a job the plan disables, on for any other,  *)
(* created and updated jobs included, whatever the manifest says of them.   *)
Switch(change) == IF change = "disable" THEN "disabled" ELSE "enabled"

EnableOnly(c) ==          \* a mutant: disable is never called
  /\ pc[c] = "flag"
  /\ override' = [override EXCEPT ![run[c].job] = "enabled"]
  /\ pc' = [pc EXCEPT ![c] = "loop"]
  /\ UNCHANGED <<manifest, disk, loaded, record, run>>

SetSwitch(c) ==
  /\ pc[c] = "flag"
  /\ override' = [override EXCEPT ![run[c].job] = Switch(run[c].plan[run[c].job])]
  /\ pc' = [pc EXCEPT ![c] = "loop"]
  /\ UNCHANGED <<manifest, disk, loaded, record, run>>

UnlinkPlist(c) ==
  /\ pc[c] = "unlink"
  /\ plist' = [plist EXCEPT ![run[c].job] = Absent]
  /\ pc' = [pc EXCEPT ![c] = "unwrap"]
  /\ UNCHANGED <<manifest, wrapper, launchd, record, run>>

KeepWrapper(c) ==         \* a mutant: the wrapper is not unlinked
  /\ pc[c] = "unwrap"
  /\ pc' = [pc EXCEPT ![c] = "loop"]
  /\ UNCHANGED <<manifest, disk, launchd, record, run>>

UnlinkWrapper(c) ==
  /\ pc[c] = "unwrap"
  /\ wrapper' = [wrapper EXCEPT ![run[c].job] = Absent]
  /\ pc' = [pc EXCEPT ![c] = "loop"]
  /\ UNCHANGED <<manifest, plist, launchd, record, run>>

(* At last the state file: rewritten by apply, deleted by prune.           *)
SaveRecord(c) ==
  /\ pc[c] = "loop"
  /\ run[c].writes = {} /\ run[c].acts = {}
  /\ record' = IF run[c].kind = "apply" THEN run[c].want ELSE Absent
  /\ Leave(c)
  /\ UNCHANGED <<manifest, disk, launchd>>

----------------------------------------------------------------------------
Step(c) ==
  \/ Inspect(c)
  \/ OpenWrapper(c) \/ FillWrapper(c) \/ OpenPlist(c) \/ FillPlist(c)
  \/ \E j \in Jobs : Bootout(c, j) \/ BootoutFails(c, j) \/ SkipLaunchctl(c, j)
  \/ Bootstrap(c) \/ SetSwitch(c)
  \/ UnlinkPlist(c) \/ UnlinkWrapper(c)
  \/ SaveRecord(c)

Next ==
  \/ EditManifest
  \/ \E j \in Jobs : UserBootsOut(j) \/ UserRemovesPlist(j)
  \/ Login
  \/ \E c \in Procs : StartApply(c) \/ StartPrune(c) \/ Abort(c) \/ Step(c)

Spec == Init /\ [][Next]_vars

----------------------------------------------------------------------------
Labels == {"idle", "inspect", "loop", "wrapper", "plist", "plisting",
           "bootstrap", "flag", "unlink", "unwrap"}

Run == [kind : {"none", "apply", "prune"}, want : Manifest,
        plan : UNION {[ids -> Changes] : ids \in SUBSET Jobs},
        writes : SUBSET Jobs, acts : SUBSET Jobs, job : Jobs \cup {Absent},
        manages : BOOLEAN, refused : SUBSET Jobs]

TypeOK ==
  /\ manifest \in Manifest
  /\ wrapper \in [Jobs -> Defs \cup {Absent, Torn}]
  /\ plist \in [Jobs -> JobSpec \cup {Absent, Torn}]
  /\ loaded \subseteq Jobs
  /\ override \in [Jobs -> {"unset", "enabled", "disabled"}]
  /\ record \in Manifest \cup {Absent}
  /\ pc \in [Procs -> Labels]
  /\ run \in [Procs -> Run]

(* A wrapper is never unlinked under a service launchd still holds, unless *)
(* by an invocation told to leave launchd alone or one that asked launchctl *)
(* to boot this very service out and was refused: the service goes before   *)
(* the files (launchd.py:304-312 and 477-482), wherever it may die, and      *)
(* even where the user had deleted the plist.                               *)
ServiceGoesFirst ==
  [][\A j \in Jobs :
       wrapper[j] # Absent /\ wrapper'[j] = Absent /\ j \in loaded =>
         \E c \in Procs :
           run[c].job = j /\ (~run[c].manages \/ j \in run[c].refused)]_vars

(* An invocation that was told to manage launchd has nothing left to do.   *)
Done(c, kind) ==
  /\ pc[c] = "loop"
  /\ run[c].writes = {} /\ run[c].acts = {}
  /\ run[c].kind = kind /\ run[c].manages

(* When apply has run to its end, whatever half-done runs came before it,  *)
(* status finds nothing to do, but for one thing: a disabled job that was   *)
(* created or updated is now on, and its disabling is left to the next run. *)
ApplySettles ==
  \A c \in Procs : Done(c, "apply") =>
    LET plan == StatusPlan(run[c].want)
    IN  \A j \in Changing(plan) :
          plan[j] = "disable" /\ run[c].plan[j] \in {"create", "update"}

(* When prune has run to its end the project has no plist, and of a job    *)
(* that had one no wrapper, and no service but one whose bootout launchctl  *)
(* refused this prune.                                                      *)
PruneClears ==
  \A c \in Procs : Done(c, "prune") =>
    /\ \A j \in Jobs : plist[j] = Absent
    /\ \A j \in DOMAIN run[c].plan :
         wrapper[j] = Absent /\ (j \in loaded => j \in run[c].refused)

(* What SPEC.md:361 says of `enabled: false`: "desired state is present    *)
(* but should not be active", once an apply has run to its end.             *)
DisabledJobsAreOff ==
  \A c \in Procs : Done(c, "apply") =>
    \A j \in Present(run[c].want) :
      ~run[c].want[j].enabled => override[j] = "disabled"

(* What SPEC.md:460 says of apply: it "Converges managed machine state     *)
(* toward desired state", so that every enabled job is loaded at its end.   *)
ApplyLoads ==
  \A c \in Procs : Done(c, "apply") =>
    \A j \in Present(run[c].want) :
      run[c].want[j].enabled => j \in loaded
=============================================================================
