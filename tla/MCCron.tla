------------------------------- MODULE MCCron --------------------------------
(***************************************************************************)
(* Values for checking CronControl.  Alone, project "app" moves between no *)
(* jobs, one job, a changed job with a disabled second one, and a job cron *)
(* cannot express, beside a neighbour with one job.  Overlapping           *)
(* invocations have one job a project.                                     *)
(***************************************************************************)
EXTENDS CronControl

CONSTANTS app, app2, j1, j2, d1, d2, d3, c1, c2

On(d)  == [def |-> d, enabled |-> TRUE]
Off(d) == [def |-> d, enabled |-> FALSE]

SerialManifests ==
  (app  :> {NoJobs,
            [NoJobs EXCEPT ![j1] = On(d1)],
            [NoJobs EXCEPT ![j1] = On(d2), ![j2] = Off(d1)],
            [NoJobs EXCEPT ![j1] = On(d3)]})
  @@
  (app2 :> {[NoJobs EXCEPT ![j1] = On(d1)]})

OverlapManifests ==
  [p \in Projects |-> {[NoJobs EXCEPT ![j1] = On(d1)]}]

(* Sound where both projects declare the same manifests. *)
Symmetry == Permutations({c1, c2}) \cup Permutations({app, app2})

Apart    == {<<app, app>>, <<app2, app2>>}
Prefixed == Apart \cup {<<app, app2>>}
=============================================================================
