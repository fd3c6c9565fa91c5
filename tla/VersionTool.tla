----------------------------- MODULE VersionTool -----------------------------
(***************************************************************************)
(* src/ops/version/bin/version.py: the tool that owns xcron's one release  *)
(* version.  The version is written in many places (the record             *)
(* ops/version/current.yaml, every pyproject.toml with its internal pins,  *)
(* every provider's CapabilityDescriptor) and uv.lock repeats it for every *)
(* project.  `set` plans all new contents, reads the originals, replaces   *)
(* the files one at a time, runs `uv lock`, validates, and on any          *)
(* exception puts the originals back, one at a time.                       *)
(*                                                                         *)
(* A source's content is the version it states and a number for all its    *)
(* other text.  Every other diagnostic of validate (schema of the record,  *)
(* the release workflow's required steps) is taken to be absent: nothing   *)
(* here writes what they read.                                             *)
(***************************************************************************)
EXTENDS Integers, Sequences, FiniteSets

CONSTANTS
  Tools,      \* processes that may run `version.py set`
  Sources,    \* the files a version is written in, in the order set replaces them
  Record,     \* the authority, ops/version/current.yaml
  Projects,   \* the sources that are pyproject.toml files: uv.lock has a row for each
  Versions,   \* the stable versions considered, triples of naturals
  MaxEdits    \* bound: edits a developer makes to the sources

Files == {Sources[i] : i \in DOMAIN Sources}

ASSUME SourcesAssumption ==
  /\ Sources \in Seq(Files)
  /\ Sources # <<>>
  /\ \A i, j \in DOMAIN Sources : Sources[i] = Sources[j] => i = j
  /\ Record = Sources[1]
  /\ Projects \subseteq Files \ {Record}
ASSUME VersionsAssumption == Versions \subseteq Nat \X Nat \X Nat
ASSUME EditsAssumption == MaxEdits \in Nat

VARIABLES
  files,      \* [Files -> Content], the working tree
  lock,       \* [Projects -> Versions], uv.lock
  pc,         \* where each tool's `set` stands (dead: its process ended half way)
  at,         \* how many files its current loop has replaced
  target,     \* the version each set was given
  read,       \* the tree planned_updates read: the planned contents are made from it
  saved,      \* the originals set_version read
  edits,      \* edits made so far
  touched,    \* history: the sets during which somebody else wrote to the tree
  cause       \* history: what has happened that can leave the projections adrift

vars == <<files, lock, pc, at, target, read, saved, edits, touched, cause>>
tree == <<files, lock>>
locals == <<target, read, saved>>
history == <<touched, cause>>

Content == [version : Versions, text : 0..MaxEdits]
None == <<>>
Trees == [files : [Files -> Content], lock : [Projects -> Versions]]
Phases == {"idle", "planned", "replace", "lock", "check", "restore", "dead"}
Causes == {"death", "unrestored", "overlap", "hand"}

-----------------------------------------------------------------------------
(* Versions *)

\* _compare(a, b) < 0: the parts are compared as numbers, the first difference decides.
Precedes(a, b) ==
  \/ a[1] < b[1]
  \/ a[1] = b[1] /\ a[2] < b[2]
  \/ a[1] = b[1] /\ a[2] = b[2] /\ a[3] < b[3]

\* next_version: the bump of one part resets the parts after it.
NextVersion(part, v) ==
  CASE part = "major" -> <<v[1] + 1, 0, 0>>
    [] part = "minor" -> <<v[1], v[2] + 1, 0>>
    [] part = "patch" -> <<v[1], v[2], v[3] + 1>>

\* release_version: what the record states.
ReleaseVersion(fs) == fs[Record].version

\* validate, as far as versions go: every projection and every lock row states the
\* version of the record.
Converged(fs, lk) ==
  /\ \A f \in Files : fs[f].version = ReleaseVersion(fs)
  /\ \A p \in Projects : lk[p] = ReleaseVersion(fs)

\* planned_updates: each source with only its version replaced.
Planned(fs, v) == [f \in Files |-> [fs[f] EXCEPT !.version = v]]

Running(t) == pc[t] \notin {"idle", "dead"}

-----------------------------------------------------------------------------
(* set_version *)

Init ==
  \E v \in Versions :
    /\ files = [f \in Files |-> [version |-> v, text |-> 0]]
    /\ lock = [p \in Projects |-> v]
    /\ pc = [t \in Tools |-> "idle"]
    /\ at = [t \in Tools |-> 0]
    /\ target = [t \in Tools |-> None]
    /\ read = [t \in Tools |-> None]
    /\ saved = [t \in Tools |-> None]
    /\ edits = 0
    /\ touched = {}
    /\ cause = {}

\* The other sets underway.
Others(t) == {u \in Tools \ {t} : Running(u)}

\* The call returns or its process ends: its locals are gone.
Ends(t, phase) ==
  /\ pc' = [pc EXCEPT ![t] = phase]
  /\ at' = [at EXCEPT ![t] = 0]
  /\ target' = [target EXCEPT ![t] = None]
  /\ read' = [read EXCEPT ![t] = None]
  /\ saved' = [saved EXCEPT ![t] = None]

\* planned_updates(root, version): refused unless the version is newer and nothing drifts.
Plan(t, v) ==
  /\ pc[t] = "idle"
  /\ Precedes(ReleaseVersion(files), v)
  /\ Converged(files, lock)
  /\ target' = [target EXCEPT ![t] = v]
  /\ read' = [read EXCEPT ![t] = [files |-> files, lock |-> lock]]
  /\ pc' = [pc EXCEPT ![t] = "planned"]
  /\ cause' = cause \cup {c \in {"overlap"} : Others(t) # {}}
  /\ UNCHANGED <<tree, at, saved, edits, touched>>

\* original = {path: path.read_text() ...}: the originals are read after the plan.
Save(t) ==
  /\ pc[t] = "planned"
  /\ saved' = [saved EXCEPT ![t] = [files |-> files, lock |-> lock]]
  /\ pc' = [pc EXCEPT ![t] = "replace"]
  /\ at' = [at EXCEPT ![t] = 0]
  /\ UNCHANGED <<tree, target, read, edits, history>>

\* One _replace_file of the loop over the changes.
Replace(t) ==
  LET next == Sources[at[t] + 1] IN
  /\ pc[t] = "replace"
  /\ files' = [files EXCEPT ![next] = Planned(read[t].files, target[t])[next]]
  /\ at' = [at EXCEPT ![t] = @ + 1]
  /\ pc' = [pc EXCEPT ![t] = IF at'[t] = Len(Sources) THEN "lock" ELSE "replace"]
  /\ touched' = touched \cup Others(t)
  /\ UNCHANGED <<lock, locals, edits, cause>>

\* Mutant: the restoring loop skips the record.
AbandonLate(t) ==
  /\ pc' = [pc EXCEPT ![t] = "restore"]
  /\ at' = [at EXCEPT ![t] = 1]

\* An exception anywhere in the try block enters the restoring loop.
Abandon(t) ==
  /\ pc' = [pc EXCEPT ![t] = "restore"]
  /\ at' = [at EXCEPT ![t] = 0]

\* _replace_file raises.  The temporary file it may leave beside the source
\* (delete=False) is not kept here: only a release's clean-tree check looks at it.
ReplaceFails(t) ==
  /\ pc[t] = "replace"
  /\ Abandon(t)
  /\ UNCHANGED <<tree, locals, edits, history>>

\* `uv lock` writes a row per project, and cannot resolve pins that disagree.
RefreshLock(t) ==
  /\ pc[t] = "lock"
  /\ \A p, q \in Projects : files[p].version = files[q].version
  /\ lock' = [p \in Projects |-> files[p].version]
  /\ pc' = [pc EXCEPT ![t] = "check"]
  /\ touched' = touched \cup Others(t)
  /\ UNCHANGED <<files, at, locals, edits, cause>>

\* Mutant: a failed `uv lock` is reported, and the sources stay as they are.
LockFailsOnly(t) ==
  /\ pc[t] = "lock"
  /\ Ends(t, "idle")
  /\ touched' = touched \ {t}
  /\ UNCHANGED <<tree, edits, cause>>

\* `uv lock` exits non-zero, for a conflict or for any reason of its own.
LockFails(t) ==
  /\ pc[t] = "lock"
  /\ Abandon(t)
  /\ UNCHANGED <<tree, locals, edits, history>>

\* validate finds nothing: `set` reports the new version.
Confirm(t) ==
  /\ pc[t] = "check"
  /\ Converged(files, lock)
  /\ Ends(t, "idle")
  /\ touched' = touched \ {t}
  /\ UNCHANGED <<tree, edits, cause>>

\* "version update did not converge".
Reject(t) ==
  /\ pc[t] = "check"
  /\ ~Converged(files, lock)
  /\ Abandon(t)
  /\ UNCHANGED <<tree, locals, edits, history>>

\* One _replace_file of the restoring loop; the lock is the last original.
PutBack(t) ==
  LET next == Sources[at[t] + 1] IN
  /\ pc[t] = "restore"
  /\ at[t] < Len(Sources)
  /\ files' = [files EXCEPT ![next] = saved[t].files[next]]
  /\ at' = [at EXCEPT ![t] = @ + 1]
  /\ touched' = touched \cup Others(t)
  /\ UNCHANGED <<lock, pc, locals, edits, cause>>

PutBackLock(t) ==
  /\ pc[t] = "restore"
  /\ at[t] = Len(Sources)
  /\ lock' = saved[t].lock
  /\ Ends(t, "idle")
  /\ touched' = (touched \cup Others(t)) \ {t}
  /\ UNCHANGED <<files, edits, cause>>

\* A _replace_file of the restoring loop raises: nothing restores the rest.
PutBackFails(t) ==
  /\ pc[t] = "restore"
  /\ Ends(t, "dead")
  /\ cause' = cause \cup {"unrestored"}
  /\ touched' = touched \ {t}
  /\ UNCHANGED <<tree, edits>>

\* The process is killed, or interrupted: `except Exception` does not see
\* KeyboardInterrupt.
Die(t) ==
  /\ Running(t)
  /\ Ends(t, "dead")
  /\ cause' = cause \cup {"death"}
  /\ touched' = touched \ {t}
  /\ UNCHANGED <<tree, edits>>

-----------------------------------------------------------------------------
(* The developer *)

\* Somebody edits a source, and leaves its version alone.
EditText(f) ==
  /\ edits < MaxEdits
  /\ edits' = edits + 1
  /\ files' = [files EXCEPT ![f].text = edits']
  /\ touched' = touched \cup {t \in Tools : Running(t)}
  /\ UNCHANGED <<lock, pc, at, locals, cause>>

\* Somebody writes a version by hand.
EditVersion(f, v) ==
  /\ edits < MaxEdits
  /\ edits' = edits + 1
  /\ files' = [files EXCEPT ![f].version = v]
  /\ touched' = touched \cup {t \in Tools : Running(t)}
  /\ cause' = cause \cup {"hand"}
  /\ UNCHANGED <<lock, pc, at, locals>>

Next ==
  \/ \E t \in Tools :
       \/ \E v \in Versions : Plan(t, v)
       \/ Save(t) \/ Replace(t) \/ ReplaceFails(t)
       \/ RefreshLock(t) \/ LockFails(t)
       \/ Confirm(t) \/ Reject(t)
       \/ PutBack(t) \/ PutBackLock(t) \/ PutBackFails(t) \/ Die(t)
  \/ \E f \in Files :
       \/ EditText(f)
       \/ \E v \in Versions : EditVersion(f, v)

Spec == Init /\ [][Next]_vars

-----------------------------------------------------------------------------
(* Properties *)

\* Every variable stays within the data set_version handles.
TypeOK ==
  /\ files \in [Files -> Content]
  /\ lock \in [Projects -> Versions]
  /\ pc \in [Tools -> Phases]
  /\ at \in [Tools -> 0..Len(Sources)]
  /\ \A t \in Tools : pc[t] = "replace" => at[t] < Len(Sources)
  /\ target = [t \in Tools |-> target[t]]
  /\ read = [t \in Tools |-> read[t]]
  /\ saved = [t \in Tools |-> saved[t]]
  /\ \A t \in Tools : Running(t) => target[t] \in Versions /\ read[t] \in Trees
  /\ \A t \in Tools : Running(t) /\ pc[t] # "planned" => saved[t] \in Trees
  /\ edits \in 0..MaxEdits
  /\ touched \subseteq Tools
  /\ cause \subseteq Causes

Succeeds(t) == pc[t] = "check" /\ pc'[t] = "idle"
GivesUp(t) == pc[t] = "restore" /\ pc'[t] = "idle"

\* set_version's promise, "update sources, refresh uv.lock, or restore every changed
\* file", for a set that nobody disturbed: when it reports success every source is the
\* planned one and every lock row the new version, and when its restoring loop runs to
\* its end every source and the lock are as it found them.
SetIsAllOrNothing ==
  [][\A t \in Tools \ touched :
       /\ Succeeds(t) => /\ files = Planned(read[t].files, target[t])
                         /\ \A p \in Projects : lock[p] = target[t]
       /\ GivesUp(t) => [files |-> files', lock |-> lock'] = read[t]]_vars

\* Projections that drift while no set is running (every later set refuses: "cannot
\* change a drifting version") have one of four causes: a set died, a restore failed,
\* two sets overlapped, or somebody wrote a version by hand.  Neither a failed replace,
\* nor a failed `uv lock`, nor an edit racing a set is enough.
DriftHasACause ==
  (\A t \in Tools : ~Running(t)) /\ ~Converged(files, lock) => cause # {}
=============================================================================
