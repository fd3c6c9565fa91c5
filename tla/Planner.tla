------------------------------- MODULE Planner -------------------------------
(***************************************************************************)
(* The pure planner of the native scheduler (scheduler_native/domain.py):  *)
(* the difference between what a manifest wants and what a deployment      *)
(* holds, and the status derived from it.  Both backends use it, with the  *)
(* deployment read from the backend itself (status, apply) or from the     *)
(* project's own state file (plan).                                        *)
(*                                                                         *)
(* A manifest and a deployment are functions over one set of job           *)
(* identifiers; Absent marks an identifier they do not hold.  A wanted job *)
(* is [def, enabled]: def stands for everything the definition hash        *)
(* covers (schedule, command, directory, shell, environment, overlap).     *)
(***************************************************************************)
CONSTANT Absent

(* The two digests of a job: one leaves the enabled flag out, one has it. *)
DefinitionHash(job) == job.def
JobHash(job) == <<job.def, job.enabled>>

(* The identifiers a manifest or a deployment holds. *)
Present(jobs) == {id \in DOMAIN jobs : jobs[id] # Absent}

(* What a backend, or the state file, records of a job it was given. *)
Deployed(job, backend) ==
  [def      |-> DefinitionHash(job),
   enabled  |-> job.enabled,
   backend  |-> backend,
   hash     |-> JobHash(job),
   observed |-> JobHash(job)]

DeployedJobs(jobs, backend) ==
  [id \in DOMAIN jobs |->
     IF jobs[id] = Absent THEN Absent ELSE Deployed(jobs[id], backend)]

(* One job's change: the first test that tells the two sides apart. *)
PlanChange(desired, deployed, backend) ==
  IF desired = Absent THEN "remove"
  ELSE IF deployed = Absent THEN "create"
  ELSE IF deployed.observed # deployed.hash THEN "drift"
  ELSE IF \/ deployed.backend # backend
          \/ deployed.def # DefinitionHash(desired) THEN "update"
  ELSE IF desired.enabled = deployed.enabled THEN "noop"
  ELSE IF desired.enabled THEN "enable"
  ELSE "disable"

BuildPlan(desired, state, backend) ==
  [id \in Present(desired) \cup Present(state) |->
     PlanChange(desired[id], state[id], backend)]

(* A plan with nothing to do: every job is present on both sides and equal. *)
AllNoop(plan) == \A id \in DOMAIN plan : plan[id] = "noop"

(* The status shown for a change. *)
StatusKind(change, desired) ==
  CASE change = "remove" -> "extra"
    [] change \in {"drift", "update", "enable", "disable"} -> "drift"
    [] change = "create" -> IF desired.enabled THEN "missing" ELSE "disabled"
    [] change = "noop"   -> IF desired.enabled THEN "ok" ELSE "disabled"
=============================================================================
