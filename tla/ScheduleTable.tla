---------------------------- MODULE ScheduleTable ----------------------------
(***************************************************************************)
(* What the scheduler promises of the user's native table, seen from       *)
(* outside: every project has a set of jobs installed, and beside them     *)
(* stand entries xcron does not manage.  A project's jobs are replaced     *)
(* only as a whole, by a complete manifest of that project (the empty one  *)
(* when it is pruned or deleted by hand), and never together with another  *)
(* project's jobs or an unmanaged entry.                                   *)
(***************************************************************************)
CONSTANTS
  Projects,    \* project identifiers
  Manifests,   \* the manifests each project may declare
  UserLines,   \* entries of the table that xcron does not manage
  NoJobs       \* the manifest of a project with nothing installed

VARIABLES
  installed,   \* the manifest each project has in the table
  unmanaged    \* the unmanaged entries in the table

vars == <<installed, unmanaged>>

Init ==
  /\ installed = [p \in Projects |-> NoJobs]
  /\ unmanaged \in SUBSET UserLines

(* One project's jobs become those of a complete manifest. *)
Install(p) ==
  /\ \E m \in Manifests[p] \cup {NoJobs} :
       installed' = [installed EXCEPT ![p] = m]
  /\ UNCHANGED unmanaged

(* The user adds or deletes an entry of their own. *)
EditUnmanaged ==
  /\ \E u \in UserLines :
       unmanaged' \in {unmanaged \cup {u}, unmanaged \ {u}}
  /\ UNCHANGED installed

Next == EditUnmanaged \/ \E p \in Projects : Install(p)

Spec == Init /\ [][Next]_vars
=============================================================================
