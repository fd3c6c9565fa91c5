------------------------------ MODULE MCLaunchd -------------------------------
(***************************************************************************)
(* Values for checking LaunchdControl: a project that declares nothing,    *)
(* one job, that job changed beside a disabled second one, and the first   *)
(* job switched off.                                                       *)
(***************************************************************************)
EXTENDS LaunchdControl

CONSTANTS j1, j2, d1, d2

On(d)  == [def |-> d, enabled |-> TRUE]
Off(d) == [def |-> d, enabled |-> FALSE]

ProjectManifests ==
  {NoJobs,
   [NoJobs EXCEPT ![j1] = On(d1)],
   [NoJobs EXCEPT ![j1] = On(d2), ![j2] = Off(d1)],
   [NoJobs EXCEPT ![j1] = Off(d1), ![j2] = On(d1)]}
=============================================================================
