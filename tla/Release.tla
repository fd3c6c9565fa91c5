-------------------------------- MODULE Release --------------------------------
(***************************************************************************)
(* A release of xcron: the developer pushes tags to origin, every push of  *)
(* a v* tag starts .github/workflows/release.yml, and the workflow checks  *)
(* out, runs `version.py verify-release`, `just ops workflow ci` (the      *)
(* catalogue's check and test lanes and the wheel proof) and `version.py   *)
(* package`, and attaches the bundle to the GitHub Release named after the *)
(* tag.  Tags may be created, moved and deleted at any time, also while    *)
(* runs are underway.                                                      *)
(*                                                                         *)
(* Of a commit: version is what ops/version/current.yaml says; converged,  *)
(* whether every projection says so too; cat, its operations catalogue;    *)
(* broken, the commands that fail on it.  The checkout is fresh            *)
(* and nothing before the verification writes to it, so the clean-tree     *)
(* check is taken to pass.                                                 *)
(***************************************************************************)
EXTENDS OpsCatalogue

CONSTANTS
  Commits,    \* the commits a tag may be put on
  Says,       \* [Commits -> [version, converged, cat, broken]]
  TagNames,   \* the v* tags
  VersionOf,  \* [TagNames -> Nat \cup {Nothing}]: a tag's stable version, if it names one
  Nothing,       \* no tag, no commit, not a stable version
  MaxPushes,  \* bound: pushes of tags
  MaxRetries  \* bound: re-runs of failed workflow runs

ASSUME VersionOfAssumption == VersionOf \in [TagNames -> Nat \cup {Nothing}]

\* What the TOML of a catalogue says is a list is one.
ASSUME SaysAssumption ==
  \A c \in Commits : LET caps == Says[c].cat.caps IN
    /\ caps \in Seq(Range(caps))
    /\ \A cap \in Range(caps) : /\ cap.requires \in Seq(Range(cap.requires))
                               /\ cap.commands \in Seq(Range(cap.commands))

VARIABLES
  remote,     \* [TagNames -> tag object or Nothing], the tags of origin
  runs,       \* the workflow runs, in the order their pushes came
  release,    \* [TagNames -> the GitHub Release of the tag]
  retries,    \* re-runs so far
  pushed      \* history: the annotated tags ever pushed, with their commits

releaseVars == <<remote, runs, release, retries, pushed>>

\* A tag object: the push it came with tells two annotated objects on one commit apart.
TagObject(c, annotated, push) == [commit |-> c, annotated |-> annotated, push |-> push]
NoRelease == [exists |-> FALSE, wheels |-> Nothing, sums |-> Nothing]

Active == {"checkout", "fetch", "verify", "ci", "package", "create", "wheels", "sums"}
RunAt(r, phase) == r \in DOMAIN runs /\ runs[r].pc = phase
Advance(r, phase) == runs' = [runs EXCEPT ![r].pc = phase]

\* `just ops workflow ci` after its first two recipes: the lanes, then the wheel proof.
Proofs(cat) == Steps(cat, "check") \o Steps(cat, "test") \o <<<<"distribution", "wheel">>>>

ReleaseInit ==
  /\ remote = [t \in TagNames |-> Nothing]
  /\ runs = <<>>
  /\ release = [t \in TagNames |-> NoRelease]
  /\ retries = 0
  /\ pushed = {}

-----------------------------------------------------------------------------
(* The developer *)

\* A run that waits in a concurrency group is cancelled by a newer one of its group.
Superseded(rs, t) ==
  [r \in DOMAIN rs |->
     IF rs[r].tag = t /\ rs[r].pc = "queued" THEN [rs[r] EXCEPT !.pc = "cancelled"] ELSE rs[r]]

\* git push (--force) origin <tag>: the tag is new, or moves; a run is queued.
Push(t, c, annotated) ==
  LET object == TagObject(c, annotated, Len(runs) + 1) IN
  /\ Len(runs) < MaxPushes
  /\ remote' = [remote EXCEPT ![t] = object]
  /\ runs' = Append(Superseded(runs, t),
                    [tag |-> t, sha |-> c, pc |-> "queued", head |-> c,
                     local |-> [u \in TagNames |-> Nothing], todo |-> <<>>])
  /\ pushed' = IF annotated THEN pushed \cup {<<t, c>>} ELSE pushed
  /\ UNCHANGED <<release, retries>>

\* git push --delete origin <tag>
Delete(t) ==
  /\ remote[t] # Nothing
  /\ remote' = [remote EXCEPT ![t] = Nothing]
  /\ UNCHANGED <<runs, release, retries, pushed>>

\* The developer re-runs a failed run: same event, same commit.
Rerun(r) ==
  /\ RunAt(r, "failed")
  /\ retries < MaxRetries
  /\ retries' = retries + 1
  /\ runs' = [Superseded(runs, runs[r].tag) EXCEPT ![r].pc = "queued"]
  /\ UNCHANGED <<remote, release, pushed>>

-----------------------------------------------------------------------------
(* The workflow *)

\* concurrency: one run of a ref at a time, and none is cancelled once it runs.
Start(r) ==
  /\ RunAt(r, "queued")
  /\ \A s \in DOMAIN runs : runs[s].tag = runs[r].tag => runs[s].pc \notin Active
  /\ Advance(r, "checkout")
  /\ UNCHANGED <<remote, release, retries, pushed>>

\* actions/checkout with fetch-depth 0: the commit of the push, or the one the tag has
\* moved to since, with every tag of origin.
Checkout(r) ==
  /\ RunAt(r, "checkout")
  /\ \E c \in {runs[r].sha} \cup {o.commit : o \in {remote[runs[r].tag]} \ {Nothing}} :
       runs' = [runs EXCEPT ![r].pc = "fetch", ![r].head = c, ![r].local = remote]
  /\ UNCHANGED <<remote, release, retries, pushed>>

\* git fetch --force origin refs/tags/$TAG:refs/tags/$TAG; the tag must still be there.
FetchTag(r) ==
  LET t == runs[r].tag IN
  /\ RunAt(r, "fetch")
  /\ remote[t] # Nothing
  /\ runs' = [runs EXCEPT ![r].pc = "verify", ![r].local[t] = remote[t]]
  /\ UNCHANGED <<remote, release, retries, pushed>>

\* Mutant: a lightweight tag will do.
VerifiedAnyTag(c, local) ==
  /\ Says[c].converged
  /\ \E t \in TagNames :
       VersionOf[t] = Says[c].version /\ local[t] # Nothing
       /\ local[t].commit = c /\ remote[t] = local[t]
  /\ \A t \in TagNames :
       remote[t] # Nothing /\ VersionOf[t] # Nothing => VersionOf[t] <= Says[c].version

\* The local tag v<version of the record> is annotated and on HEAD, origin has the very
\* same object, and no stable tag of origin is higher.
Verified(c, local) ==
  /\ Says[c].converged
  /\ \E t \in TagNames :
       /\ VersionOf[t] = Says[c].version
       /\ local[t] # Nothing
       /\ local[t].annotated
       /\ local[t].commit = c
       /\ remote[t] = local[t]
  /\ \A t \in TagNames :
       remote[t] # Nothing /\ VersionOf[t] # Nothing => VersionOf[t] <= Says[c].version

\* just version verify-release
VerifyRelease(r) ==
  /\ RunAt(r, "verify")
  /\ Verified(runs[r].head, runs[r].local)
  /\ Advance(r, "ci")
  /\ UNCHANGED <<remote, release, retries, pushed>>

\* The first recipes of `just ops workflow ci`: version check and validate; then run_lane
\* reads its steps from the catalogue it has just validated.
Validated(r) ==
  LET c == runs[r].head IN
  /\ RunAt(r, "ci")
  /\ runs[r].todo = <<>>
  /\ Says[c].converged
  /\ Validate(Says[c].cat) = {}
  /\ runs' = [runs EXCEPT ![r].todo = Proofs(Says[c].cat)]
  /\ UNCHANGED <<remote, release, retries, pushed>>

\* Mutant: the lane runs its commands and forgets how they end.
ProofRuns(r) ==
  /\ RunAt(r, "ci")
  /\ runs[r].todo # <<>>
  /\ runs' = [runs EXCEPT ![r].todo = Tail(@),
                          ![r].pc = IF Tail(runs[r].todo) = <<>> THEN "package" ELSE "ci"]
  /\ UNCHANGED <<remote, release, retries, pushed>>

\* run_lane: `just ops <capability> <command>` exits 0; a lane stops at the first that
\* does not.
ProofPasses(r) ==
  LET c == runs[r].head
      step == Head(runs[r].todo)
      exit == IF step \in Says[c].broken THEN 1 ELSE 0
  IN
  /\ RunAt(r, "ci")
  /\ runs[r].todo # <<>>
  /\ Route(Says[c].cat, step[1], step[2], exit) = 0
  /\ runs' = [runs EXCEPT ![r].todo = Tail(@),
                          ![r].pc = IF Tail(runs[r].todo) = <<>> THEN "package" ELSE "ci"]
  /\ UNCHANGED <<remote, release, retries, pushed>>

\* just version package: every wheel of the commit, at its version.
Package(r) ==
  /\ RunAt(r, "package")
  /\ Says[runs[r].head].converged
  /\ Advance(r, "create")
  /\ UNCHANGED <<remote, release, retries, pushed>>

\* gh release view || gh release create --verify-tag
CreateRelease(r) ==
  LET t == runs[r].tag IN
  /\ RunAt(r, "create")
  /\ release[t].exists \/ remote[t] # Nothing
  /\ release' = [release EXCEPT ![t].exists = TRUE]
  /\ Advance(r, "wheels")
  /\ UNCHANGED <<remote, retries, pushed>>

\* gh release upload --clobber, one asset after another: the wheels ...
UploadWheels(r) ==
  /\ RunAt(r, "wheels")
  /\ release' = [release EXCEPT ![runs[r].tag].wheels = runs[r].head]
  /\ Advance(r, "sums")
  /\ UNCHANGED <<remote, retries, pushed>>

\* ... then the checksums and the release manifest.
UploadSums(r) ==
  /\ RunAt(r, "sums")
  /\ release' = [release EXCEPT ![runs[r].tag].sums = runs[r].head]
  /\ Advance(r, "done")
  /\ UNCHANGED <<remote, retries, pushed>>

\* A step fails: what it asks for is not so, or the runner, the network or the tool fails.
Fail(r) ==
  /\ r \in DOMAIN runs
  /\ runs[r].pc \in Active
  /\ runs' = [runs EXCEPT ![r].pc = "failed", ![r].todo = <<>>]
  /\ UNCHANGED <<remote, release, retries, pushed>>

ReleaseNext ==
  \/ \E t \in TagNames :
       \/ \E c \in Commits, annotated \in BOOLEAN : Push(t, c, annotated)
       \/ Delete(t)
  \/ \E r \in DOMAIN runs :
       \/ Rerun(r) \/ Start(r) \/ Checkout(r) \/ FetchTag(r) \/ VerifyRelease(r)
       \/ Validated(r) \/ ProofPasses(r) \/ Package(r)
       \/ CreateRelease(r) \/ UploadWheels(r) \/ UploadSums(r) \/ Fail(r)

ReleaseSpec == ReleaseInit /\ [][ReleaseNext]_releaseVars

-----------------------------------------------------------------------------
(* Properties *)

\* The commits something of which is attached to a release.
Published == {release[t].wheels : t \in TagNames} \cup {release[t].sums : t \in TagNames}

\* Sets of capabilities each of which requires one of the set: the reference for Cycles.
Circular(cat) ==
  \E S \in SUBSET Ids(cat) :
    S # {} /\ \A id \in S : \E d \in Range(ById(cat, id).requires) : d \in S

\* Whatever tags are moved, deleted or pushed again and whatever runs race or are re-run,
\* nothing is attached to a release that was not built from a commit whose projections
\* agree, whose capabilities do not depend on one another in a circle, and on which every
\* command that declares itself part of the check or the test lane succeeds, as does the
\* wheel proof.
OnlyProvenIsPublished ==
  \A c \in Published \ {Nothing} :
    /\ Says[c].converged
    /\ ~Circular(Says[c].cat)
    /\ <<"distribution", "wheel">> \notin Says[c].broken
    /\ \A cap \in Range(Says[c].cat.caps) : \A k \in Range(cap.commands) :
         k.aggregate \in {"check", "test"} => <<cap.id, k.name>> \notin Says[c].broken

\* The workflow never compares the tag it runs for with the version it verifies, so a
\* release can carry wheels of another version (a v1 tag left on the commit of v2, a
\* release candidate's tag); but only when the annotated tag of that other version has
\* been pushed on the same commit.
MislabelNeedsTwin ==
  \A t \in TagNames : LET c == release[t].wheels IN
    c # Nothing /\ VersionOf[t] # Says[c].version =>
      \E u \in TagNames : VersionOf[u] = Says[c].version /\ <<u, c>> \in pushed
=============================================================================
