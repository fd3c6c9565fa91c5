------------------------------- MODULE MCTooling -------------------------------
(* The operations tooling of the repository: `version.py set` in a working tree (a record,*)
(* two projects, two tools), and the release workflow (two versions and a release         *)
(* candidate's tag over commits good and bad).  They share no state; each behaviour runs  *)
(* one of them.                                                                           *)
EXTENDS VersionTool, Release
CONSTANTS t1, t2, record, p1, p2, v1, v2, rc, one, two, drifted, looped, failing

VARIABLE part
toolingVars == <<part, vars, releaseVars>>

MCTools == {t1, t2}
MCSources == <<record, p1, p2>>
MCProjects == {p1, p2}
MCVersions == {<<0, 9, 0>>, <<0, 10, 0>>}
MCSymmetry == Permutations(MCTools)

Cap(id, requires, owned, commands) ==
  [id |-> id, dir |-> id, provides |-> {id}, requires |-> requires,
   owns |-> {[glob |-> id, files |-> owned]}, ownsLocal |-> TRUE, reads |-> {}, generates |-> {},
   present |-> {"README.md", "justfile"}, skills |-> {},
   recipes |-> {"default", "check", "core", "wheel"}, commands |-> commands, peers |-> {}]

Check == [name |-> "check", aggregate |-> "check"]
Core == [name |-> "core", aggregate |-> "test"]
Wheel == [name |-> "wheel", aggregate |-> Nothing]

\* control before distribution before version, as discover sorts them.
Cat(controlRequires, versionRequires) ==
  [caps |-> <<Cap("control", controlRequires, {"control"}, <<Check>>),
              Cap("distribution", <<>>, {"distribution"}, <<Wheel>>),
              Cap("version", versionRequires, {"version"}, <<Check, Core>>)>>,
   active |-> [s \in {"control"} |-> "control"],
   assets |-> {"control", "distribution", "version"}, imports |-> FALSE]

GoodCatalogue == Cat(<<>>, <<"distribution", "control">>)
LoopedCatalogue == Cat(<<"version">>, <<"distribution", "control">>)

MCCommits == {one, two, drifted, looped, failing}
MCSays ==
  LET Two == [version |-> 2, converged |-> TRUE, cat |-> GoodCatalogue, broken |-> {}] IN
  one :> [Two EXCEPT !.version = 1] @@ two :> Two
  @@ drifted :> [Two EXCEPT !.converged = FALSE]
  @@ looped :> [Two EXCEPT !.cat = LoopedCatalogue]
  @@ failing :> [Two EXCEPT !.broken = {<<"version", "core">>}]

MCTagNames == {v1, v2, rc}
MCVersionOf ==
  [t \in MCTagNames |-> IF t = v1 THEN 1 ELSE IF t = v2 THEN 2 ELSE Nothing]

ToolingInit ==
  /\ Init /\ ReleaseInit
  /\ part \in {"version", "release"}
  /\ part = "release" => \A f \in Files : files[f].version = <<0, 9, 0>>

RunVersion == part = "version" /\ Next /\ UNCHANGED <<part, releaseVars>>
RunRelease == part = "release" /\ ReleaseNext /\ UNCHANGED <<part, vars>>

ToolingSpec == ToolingInit /\ [][RunVersion \/ RunRelease]_toolingVars
=============================================================================
