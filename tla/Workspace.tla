------------------------------- MODULE Workspace -------------------------------
(***************************************************************************)
(* capabilities/xcron-capability-workspace-local: `xcron init`             *)
(* (initializer.py), the marker that says a directory is a workspace       *)
(* (marker.py), and how an invocation finds its workspace (resolver.py).   *)
(*                                                                         *)
(* One directory is initialised, by any number of processes at once, with  *)
(* its owner creating files in it.  Every path is looked at first and      *)
(* written later; a text file is truncated first and filled later, so a    *)
(* death in between leaves it empty ("torn").                              *)
(***************************************************************************)
EXTENDS Naturals, Sequences, FiniteSets

CONSTANTS
  Inits,      \* processes that run `xcron init` on the directory
  MaxOwner    \* bound: files the directory's owner creates

ASSUME OwnerAssumption == MaxOwner \in Nat

VARIABLES
  fs,         \* [Paths -> Contents], the directory
  pc,         \* where each init stands
  blocked,    \* the init has adopted or been refused the schedules directory
  conflicts,  \* the paths the init reports as conflicts
  created,    \* the paths the init reports as created
  owner,      \* files the owner has created
  found,      \* history: what was there when the init began
  alone       \* history: the inits during which nobody else wrote

workspaceVars == <<fs, pc, blocked, conflicts, created, owner, found, alone>>
report == <<blocked, conflicts, created>>

Paths == {"schedules", "legacy", "manifest", "marker"}
Contents == {"absent", "directory", "text", "starter", "marked", "torn", "newer"}
InitPhases ==
  {"idle", "mkdir", "look", "write", "fill", "read", "check", "mark", "sign", "dead"}

\* What stands for a path: text is a file somebody else wrote.  A marker is the init's
\* own or an equal one ("marked"), of a schema this build does not know ("newer"), or
\* not a marker at all.
MayHold(p) ==
  CASE p = "schedules" -> {"absent", "directory", "text"}
    [] p = "legacy"    -> {"absent", "directory"}
    [] p = "manifest"  -> {"absent", "text", "starter", "torn"}
    [] p = "marker"    -> {"absent", "directory", "text", "marked", "torn", "newer"}

Exists(p) == fs[p] # "absent"

-----------------------------------------------------------------------------
(* Reading a workspace *)

\* read_marker: None when absent; a marker that is no file, does not parse, is of another
\* kind or another schema raises.
ReadMarker(d) ==
  CASE d["marker"] = "absent" -> "none"
    [] d["marker"] = "marked" -> "marker"
    [] OTHER -> "error"

\* is_workspace: a marker file of any content, or a schedules directory of either layout.
IsWorkspace(d) ==
  \/ d["marker"] \notin {"absent", "directory"}
  \/ d["schedules"] = "directory"
  \/ d["legacy"] = "directory"

\* find_workspace_root: the nearest workspace among a directory and its parents, 0 if none.
FindWorkspaceRoot(chain) ==
  LET hits == {i \in DOMAIN chain : IsWorkspace(chain[i])}
  IN  IF hits = {} THEN 0 ELSE CHOOSE i \in hits : \A j \in hits : i <= j

\* resolve_project_root: a path that is given (--project, then XCRON_PROJECT), else the
\* nearest workspace, else the home.
ResolveProjectRoot(given, project, chain, home) ==
  IF given # "none" THEN given
  ELSE IF project # "none" THEN project
  ELSE IF FindWorkspaceRoot(chain) # 0 THEN chain[FindWorkspaceRoot(chain)]
  ELSE home

\* resolve_manifest_dir: the current layout wins over the legacy one when both exist.
ResolveManifestDir(d) ==
  IF d["schedules"] # "absent" THEN "schedules"
  ELSE IF d["legacy"] # "absent" THEN "legacy" ELSE "schedules"

\* resolve_workspace of a directory: an unusable marker is an error, a missing one a warning.
ResolveWorkspace(d) ==
  [error |-> ReadMarker(d) = "error", marked |-> ReadMarker(d) = "marker",
   manifestDir |-> ResolveManifestDir(d)]

-----------------------------------------------------------------------------
(* initialize_workspace *)

At(i, phase) == pc[i] = phase
Goto(i, phase) == pc' = [pc EXCEPT ![i] = phase]
Working(i) == pc[i] \notin {"idle", "dead"}

WorkspaceInit ==
  /\ fs \in [Paths -> Contents]
  /\ \A p \in Paths : fs[p] \in MayHold(p) \ {"torn"}
  /\ Exists("manifest") => fs["schedules"] = "directory"
  /\ pc = [i \in Inits |-> "idle"]
  /\ blocked = [i \in Inits |-> FALSE]
  /\ conflicts = [i \in Inits |-> {}]
  /\ created = [i \in Inits |-> {}]
  /\ owner = 0
  /\ found = [i \in Inits |-> {}]
  /\ alone = {}

\* A write of i to path p; every other init underway is no longer alone.
Put(i, p, content) ==
  /\ fs' = [fs EXCEPT ![p] = content]
  /\ alone' = alone \cap {i}

\* The schedules directory: adopted where the legacy one stands, retained, refused, or
\* to be made.
LookForSchedules(i) ==
  LET adopts == ~Exists("schedules") /\ fs["legacy"] = "directory"
      refuses == Exists("schedules") /\ fs["schedules"] # "directory"
  IN
  /\ At(i, "idle")
  /\ Goto(i, IF Exists("schedules") \/ adopts THEN "look" ELSE "mkdir")
  /\ blocked' = [blocked EXCEPT ![i] = adopts \/ refuses]
  /\ conflicts' = [conflicts EXCEPT ![i] = IF refuses THEN {"schedules"} ELSE {}]
  /\ created' = [created EXCEPT ![i] = {}]
  /\ found' = [found EXCEPT ![i] = {p \in Paths : Exists(p)}]
  /\ alone' = alone \cup {i}
  /\ UNCHANGED <<fs, owner>>

\* schedules_dir.mkdir(parents=True)
MakeSchedules(i) ==
  /\ At(i, "mkdir")
  /\ ~Exists("schedules")
  /\ Put(i, "schedules", "directory")
  /\ created' = [created EXCEPT ![i] = @ \cup {"schedules"}]
  /\ Goto(i, "look")
  /\ UNCHANGED <<blocked, conflicts, owner, found>>

\* mkdir raises FileExistsError when somebody made it in the meantime: init fails.
MakeSchedulesFails(i) ==
  /\ At(i, "mkdir")
  /\ Exists("schedules")
  /\ Goto(i, "idle")
  /\ UNCHANGED <<fs, report, owner, found, alone>>

\* Mutant: nobody looks whether a manifest is there.
WriteManifestAnyway(i) ==
  /\ At(i, "look")
  /\ Goto(i, IF blocked[i] THEN "read" ELSE "write")
  /\ UNCHANGED <<fs, report, owner, found, alone>>

\* The starter manifest is retained, skipped, or to be written.
LookForManifest(i) ==
  /\ At(i, "look")
  /\ Goto(i, IF Exists("manifest") \/ blocked[i] THEN "read" ELSE "write")
  /\ UNCHANGED <<fs, report, owner, found, alone>>

\* manifest_path.write_text: the file is opened, and emptied if there is one by now, ...
OpenManifest(i) ==
  /\ At(i, "write")
  /\ Put(i, "manifest", "torn")
  /\ Goto(i, "fill")
  /\ UNCHANGED <<report, owner, found>>

\* ... then filled.
FillManifest(i) ==
  /\ At(i, "fill")
  /\ Put(i, "manifest", "starter")
  /\ created' = [created EXCEPT ![i] = @ \cup {"manifest"}]
  /\ Goto(i, "read")
  /\ UNCHANGED <<blocked, conflicts, owner, found>>

\* _apply_marker: an unusable marker is reported, a usable one retained, none added ...
ApplyMarker(i) ==
  /\ At(i, "read")
  /\ Goto(i, IF ReadMarker(fs) = "none" THEN "check" ELSE "idle")
  /\ conflicts' = [conflicts EXCEPT ![i] =
                     IF ReadMarker(fs) = "error" THEN @ \cup {"marker"} ELSE @]
  /\ UNCHANGED <<fs, blocked, created, owner, found, alone>>

\* ... unless something stands there by now.
CheckMarkerPath(i) ==
  /\ At(i, "check")
  /\ Goto(i, IF Exists("marker") THEN "idle" ELSE "mark")
  /\ conflicts' = [conflicts EXCEPT ![i] =
                     IF Exists("marker") THEN @ \cup {"marker"} ELSE @]
  /\ UNCHANGED <<fs, blocked, created, owner, found, alone>>

\* write_marker: "replacing any existing file", opened (which fails on a directory: DieInit) ...
OpenMarker(i) ==
  /\ At(i, "mark")
  /\ fs["marker"] # "directory"
  /\ Put(i, "marker", "torn")
  /\ Goto(i, "sign")
  /\ UNCHANGED <<report, owner, found>>

\* ... and filled: init returns.
FillMarker(i) ==
  /\ At(i, "sign")
  /\ Put(i, "marker", "marked")
  /\ created' = [created EXCEPT ![i] = @ \cup {"marker"}]
  /\ Goto(i, "idle")
  /\ UNCHANGED <<blocked, conflicts, owner, found>>

\* The process is killed, or an error of the file system ends it.
DieInit(i) ==
  /\ Working(i)
  /\ Goto(i, "dead")
  /\ UNCHANGED <<fs, report, owner, found, alone>>

\* The owner of the directory creates what is not there.
Create(p, content) ==
  /\ owner < MaxOwner
  /\ owner' = owner + 1
  /\ ~Exists(p)
  /\ p = "manifest" => fs["schedules"] = "directory"
  /\ content \in MayHold(p) \ {"absent", "torn", "starter"}
  /\ fs' = [fs EXCEPT ![p] = content]
  /\ alone' = {}
  /\ UNCHANGED <<pc, report, found>>

WorkspaceNext ==
  \/ \E i \in Inits :
       \/ LookForSchedules(i) \/ MakeSchedules(i) \/ MakeSchedulesFails(i)
       \/ LookForManifest(i) \/ OpenManifest(i) \/ FillManifest(i)
       \/ ApplyMarker(i) \/ CheckMarkerPath(i) \/ OpenMarker(i) \/ FillMarker(i)
       \/ DieInit(i)
  \/ \E p \in Paths, content \in Contents : Create(p, content)

WorkspaceSpec == WorkspaceInit /\ [][WorkspaceNext]_workspaceVars

-----------------------------------------------------------------------------
(* Properties *)

\* Every variable stays within what initialize_workspace handles.
WorkspaceTypeOK ==
  /\ fs \in [Paths -> Contents]
  /\ pc \in [Inits -> InitPhases]
  /\ blocked \in [Inits -> BOOLEAN]
  /\ conflicts \in [Inits -> SUBSET Paths]
  /\ created \in [Inits -> SUBSET Paths]
  /\ owner \in 0..MaxOwner
  /\ found \in [Inits -> SUBSET Paths]
  /\ alone \subseteq Inits

\* A directory another init would leave as it is, and only report on.
Settled(d) ==
  /\ d["schedules"] = "directory" => d["manifest"] # "absent"
  /\ d["schedules"] = "absent" => d["legacy"] = "directory"
  /\ d["marker"] # "absent"

Bare == [p \in Paths |-> "absent"]

\* "It never overwrites and never deletes ... Running it twice is the same as running it
\* once".  (1) Whatever else runs, an init changes no path that existed when it began: all
\* it can destroy is what appears between its look and its write.  (2) An init during which
\* nobody else wrote returns from a directory the next init leaves as it is; unless it
\* reported the conflict in the way, a command run below it resolves to it, marked, with its
\* manifest directory in place; and its manifest is cut short only where an init is writing it or
\* has died.
InitIsTimid ==
  [][\A i \in Inits : pc'[i] # pc[i] =>
       /\ \A p \in found[i] : fs'[p] = fs[p]
       /\ pc'[i] = "idle" /\ i \in alone =>
            /\ Settled(fs')
            /\ conflicts'[i] = {} =>
                 LET w == ResolveWorkspace(fs')
                 IN  ResolveProjectRoot("none", "none", <<Bare, fs'>>, Bare) = fs'
                     /\ w.marked /\ fs'[w.manifestDir] = "directory"
            /\ fs'["manifest"] = "torn" => \E j \in Inits : pc[j] \in {"fill", "dead"}
    ]_workspaceVars
=============================================================================
