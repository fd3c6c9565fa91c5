----------------------------- MODULE CronControl -----------------------------
(***************************************************************************)
(* The control plane over the user's crontab: xcron invocations that       *)
(* apply, prune and report the schedules of projects.                      *)
(*                                                                         *)
(* All projects of a user share ONE crontab, which an invocation reads     *)
(* whole, edits in memory and writes back whole, with no lock between the  *)
(* two.  The wrapper scripts its entries run and the state file are plain  *)
(* files, rewritten in place.  An invocation may die between any two of    *)
(* its steps (a kill, an exception from a failed read, write or            *)
(* `crontab -`): nothing is rolled back.                                   *)
(***************************************************************************)
EXTENDS Planner, Naturals, Sequences, SequencesExt

CONSTANTS
  Procs,          \* xcron invocations that may be alive at once
  Projects,       \* project identifiers
  Jobs,           \* job identifiers, unique within their project
  Defs,           \* job definitions, told apart by their definition hash
  Untranslatable, \* definitions whose schedule cron cannot express
  Manifests,      \* the manifests each project may declare
  UserLines,      \* crontab lines that xcron does not manage
  MarkerPrefix,   \* <<p, q>>: the block markers of q begin with those of p
  ManageChoices,  \* values the manage_crontab option may take
  Exclusive,      \* TRUE: nobody touches the crontab while an invocation runs
  HandEdits,      \* TRUE: its user edits the crontab too
  Torn            \* a file whose rewriting was cut short

JobSpec  == [def : Defs, enabled : BOOLEAN]
Manifest == [Jobs -> JobSpec \cup {Absent}]
NoJobs   == [j \in Jobs |-> Absent]
Ids      == Projects \X Jobs          \* qualified identifiers, project.job

(* The crontab: managed blocks and unmanaged lines, in order.  A line is    *)
(* a segment of its own, with a user line as its owner and no jobs.         *)
Segment   == [owner : Projects \cup UserLines, jobs : Manifest]
Block(p, m) == [owner |-> p, jobs |-> m]
Line(u)     == [owner |-> u, jobs |-> NoJobs]

ASSUME AbsentIsNoJob ==
  /\ Absent \notin JobSpec \cup Manifest
  /\ Torn \notin Defs \cup Manifest \cup {Absent}
  /\ Absent \notin Defs \cup Projects \cup Jobs
  /\ \A job \in JobSpec : Deployed(job, "cron") # Absent
ASSUME ManifestsAssumption == Manifests \in [Projects -> SUBSET Manifest]
ASSUME OwnersAreApart      == Projects \cap UserLines = {}
ASSUME OptionsAssumption   == ManageChoices \subseteq BOOLEAN
                              /\ Exclusive \in BOOLEAN /\ HandEdits \in BOOLEAN
ASSUME PrefixIsReflexive   ==
  /\ MarkerPrefix \subseteq Projects \X Projects
  /\ \A p \in Projects : <<p, p>> \in MarkerPrefix

VARIABLES
  manifest,   \* what each project's schedule file declares
  crontab,    \* the user's crontab
  wrapper,    \* wrapper file of each job: the definition it runs, or none
  record,     \* each project's project-state.json
  pc,         \* the step each invocation is at
  run         \* what each invocation holds in memory

vars == <<manifest, crontab, wrapper, record, pc, run>>

(* What an invocation holds: the project and manifest it loaded, the       *)
(* crontab it read, the jobs left to handle and the one whose wrapper is    *)
(* open, manage_crontab, and whether the plan it reports is all no-ops.     *)
Idle == [proj |-> Absent, want |-> NoJobs, tab |-> <<>>, todo |-> {},
         open |-> Absent, manages |-> TRUE, quiet |-> FALSE]

----------------------------------------------------------------------------
(* Reading and editing the table.  A block is found by comparing the       *)
(* start of its marker line with the project's marker.                     *)
(* Wrong on purpose (mutants): a marker without the project's identifier.  *)
AnyBlock(seg, p) == seg.owner \in Projects

IsBlockFor(seg, p) == seg.owner \in Projects /\ <<p, seg.owner>> \in MarkerPrefix

BlocksFor(tab, p) == {i \in 1 .. Len(tab) : IsBlockFor(tab[i], p)}

FirstBlock(tab, p) ==
  CHOOSE i \in BlocksFor(tab, p) : \A k \in BlocksFor(tab, p) : i <= k

(* Wrong on purpose (mutants): the new block always goes last; the old one *)
(* stays; its removed jobs stay; the line after the end marker goes too.    *)
MoveBlockToEnd(tab, p, m) ==
  LET rest == SelectSeq(tab, LAMBDA seg : ~IsBlockFor(seg, p))
  IN  IF m = NoJobs THEN rest ELSE Append(rest, Block(p, m))

AppendBlock(tab, p, m) ==
  IF m = NoJobs THEN MoveBlockToEnd(tab, p, m) ELSE Append(tab, Block(p, m))

MergeBlock(tab, p, m) ==
  [i \in DOMAIN MoveBlockToEnd(tab, p, m) |->
     IF i = Len(tab) /\ BlocksFor(tab, p) # {} /\ m # NoJobs
     THEN Block(p, [j \in Jobs |->
            IF m[j] = Absent THEN tab[FirstBlock(tab, p)].jobs[j] ELSE m[j]])
     ELSE MoveBlockToEnd(tab, p, m)[i]]

CutOneMore(tab, p, m) ==
  LET i == FirstBlock(tab, p)
  IN  IF BlocksFor(tab, p) = {} THEN AppendBlock(tab, p, m)
      ELSE SubSeq(tab, 1, i - 1)
             \o (IF m = NoJobs THEN <<>> ELSE <<Block(p, m)>>)
             \o SubSeq(tab, i + 2, Len(tab))

(* The table with p's block replaced by m's, in place, or appended at the  *)
(* end, or deleted when m has no jobs.                                      *)
ReplaceBlock(tab, p, m) ==
  IF BlocksFor(tab, p) = {}
  THEN IF m = NoJobs THEN tab ELSE Append(tab, Block(p, m))
  ELSE IF m = NoJobs
       THEN RemoveAt(tab, FirstBlock(tab, p))
       ELSE ReplaceAt(tab, FirstBlock(tab, p), Block(p, m))

(* The jobs p's block lists.  They carry the identifiers written in it. *)
InspectedJobs(tab, p) ==
  [id \in Ids |->
     IF BlocksFor(tab, p) = {} THEN Absent
     ELSE LET seg == tab[FirstBlock(tab, p)]
          IN  IF id[1] = seg.owner THEN seg.jobs[id[2]] ELSE Absent]

DesiredJobs(p, m) ==
  [id \in Ids |-> IF id[1] = p THEN m[id[2]] ELSE Absent]

(* The plan that status shows and apply reports: against the crontab. *)
StatusPlan(p, m, tab) ==
  BuildPlan(DesiredJobs(p, m), DeployedJobs(InspectedJobs(tab, p), "cron"), "cron")

(* The jobs of the state file; a project never applied has none. *)
RecordedJobs(p) ==
  DesiredJobs(p, IF record[p] \in {Absent, Torn} THEN NoJobs ELSE record[p])

(* The plan command: against the state file, which must parse. *)
RecordPlan(p, m) ==
  BuildPlan(DesiredJobs(p, m), DeployedJobs(RecordedJobs(p), "cron"), "cron")

ScheduleErrors(m) == {j \in Jobs : m[j] # Absent /\ m[j].def \in Untranslatable}

----------------------------------------------------------------------------
Init ==
  /\ manifest \in {f \in [Projects -> Manifest] :
                     \A p \in Projects : f[p] \in Manifests[p]}
  /\ crontab \in {<<>>} \cup {<<Line(u)>> : u \in UserLines}
  /\ wrapper = [id \in Ids |-> Absent]
  /\ record = [p \in Projects |-> Absent]
  /\ pc = [c \in Procs |-> "idle"]
  /\ run = [c \in Procs |-> Idle]

AllIdle == \A c \in Procs : pc[c] = "idle"
MayTouchCrontab == Exclusive => AllIdle

(* The environment: schedule files are edited at any time, the crontab by  *)
(* its user, who may also delete a managed block by hand.                   *)
EditManifest(p) ==
  /\ \E m \in Manifests[p] : manifest' = [manifest EXCEPT ![p] = m]
  /\ UNCHANGED <<crontab, wrapper, record, pc, run>>

AddLine(u) ==
  /\ HandEdits
  /\ MayTouchCrontab
  /\ \A i \in 1 .. Len(crontab) : crontab[i].owner # u
  /\ crontab' = Append(crontab, Line(u))
  /\ UNCHANGED <<manifest, wrapper, record, pc, run>>

DeleteSegment(i) ==
  /\ HandEdits
  /\ MayTouchCrontab
  /\ crontab' = RemoveAt(crontab, i)
  /\ UNCHANGED <<manifest, wrapper, record, pc, run>>

(* Start of an invocation: the schedule file is loaded and validated. *)
Start(c, p, m, first) ==
  /\ pc[c] = "idle"
  /\ MayTouchCrontab
  /\ pc' = [pc EXCEPT ![c] = first]
  /\ \E b \in ManageChoices :
       run' = [run EXCEPT ![c] = [Idle EXCEPT !.proj = p, !.want = m,
                                              !.manages = b]]
  /\ UNCHANGED <<manifest, crontab, wrapper, record>>

StartApply(c, p) == Start(c, p, manifest[p], "status")
StartPrune(c, p) == Start(c, p, NoJobs, "inspect")

Leave(c) ==
  /\ pc' = [pc EXCEPT ![c] = "idle"]
  /\ run' = [run EXCEPT ![c] = Idle]

(* An exception or a kill, anywhere: what was written stays written. *)
Abort(c) ==
  /\ pc[c] # "idle"
  /\ Leave(c)
  /\ UNCHANGED <<manifest, crontab, wrapper, record>>

----------------------------------------------------------------------------
(* apply: read the actual state and plan against it ... *)
CollectStatus(c) ==
  /\ pc[c] = "status"
  /\ IF ScheduleErrors(run[c].want) # {}
     THEN Leave(c)
     ELSE /\ pc' = [pc EXCEPT ![c] = "read"]
          /\ run' = [run EXCEPT ![c].quiet =
                       AllNoop(StatusPlan(run[c].proj, run[c].want, crontab))]
  /\ UNCHANGED <<manifest, crontab, wrapper, record>>

(* ... read the crontab again, for writing; unmanaged, it is taken as empty. *)
RenderChangedJobs(c) ==       \* a mutant: jobs whose entry is right are skipped
  LET plan == StatusPlan(run[c].proj, run[c].want, crontab)
  IN  /\ pc[c] = "read"
      /\ pc' = [pc EXCEPT ![c] = "render"]
      /\ run' = [run EXCEPT ![c].tab = crontab,
                   ![c].todo = {j \in Present(run[c].want) :
                                  plan[<<run[c].proj, j>>] # "noop"}]
      /\ UNCHANGED <<manifest, crontab, wrapper, record>>

ReadCrontab(c) ==
  /\ pc[c] = "read"
  /\ pc' = [pc EXCEPT ![c] = "render"]
  /\ run' = [run EXCEPT ![c].tab = IF run[c].manages THEN crontab ELSE <<>>,
                        ![c].todo = Present(run[c].want)]
  /\ UNCHANGED <<manifest, crontab, wrapper, record>>

(* ... rewrite every job's wrapper while rendering the block: the file is  *)
(* truncated first, then filled ... *)
OpenWrapper(c, j) ==
  /\ pc[c] = "render"
  /\ run[c].open = Absent
  /\ j \in run[c].todo
  /\ wrapper' = [wrapper EXCEPT ![<<run[c].proj, j>>] = Torn]
  /\ run' = [run EXCEPT ![c].open = j]
  /\ UNCHANGED <<manifest, crontab, record, pc>>

FillWrapper(c, j) ==
  /\ pc[c] = "render"
  /\ run[c].open = j
  /\ wrapper' = [wrapper EXCEPT ![<<run[c].proj, j>>] = run[c].want[j].def]
  /\ run' = [run EXCEPT ![c].open = Absent, ![c].todo = @ \ {j}]
  /\ UNCHANGED <<manifest, crontab, record, pc>>

(* ... install the table with the new block, every job in it ... *)
WriteCrontabFirst(c) ==       \* a mutant: entries installed before wrappers
  /\ pc[c] = "render"
  /\ crontab' = ReplaceBlock(run[c].tab, run[c].proj, run[c].want)
  /\ pc' = [pc EXCEPT ![c] = "save"]
  /\ UNCHANGED <<manifest, wrapper, record, run>>

WriteCrontab(c) ==
  /\ pc[c] = "render"
  /\ run[c].todo = {}
  /\ crontab' = IF run[c].manages
                THEN ReplaceBlock(run[c].tab, run[c].proj, run[c].want)
                ELSE crontab
  /\ pc' = [pc EXCEPT ![c] = "save"]
  /\ run' = [run EXCEPT ![c].tab = <<>>, ![c].quiet = FALSE]
  /\ UNCHANGED <<manifest, wrapper, record>>

(* ... and record what was applied, again in place. *)
OpenRecord(c) ==
  /\ pc[c] = "save"
  /\ record' = [record EXCEPT ![run[c].proj] = Torn]
  /\ pc' = [pc EXCEPT ![c] = "saving"]
  /\ UNCHANGED <<manifest, crontab, wrapper, run>>

FillRecord(c) ==
  /\ pc[c] = "saving"
  /\ record' = [record EXCEPT ![run[c].proj] = run[c].want]
  /\ Leave(c)
  /\ UNCHANGED <<manifest, crontab, wrapper>>

----------------------------------------------------------------------------
(* prune: list the jobs of the block ... *)
InspectBlock(c) ==
  /\ pc[c] = "inspect"
  /\ run' = [run EXCEPT ![c].todo = Present(InspectedJobs(crontab, run[c].proj))]
  /\ pc' = [pc EXCEPT ![c] = "reread"]
  /\ UNCHANGED <<manifest, crontab, wrapper, record>>

(* ... read the crontab again, for writing ... *)
RereadCrontab(c) ==
  /\ pc[c] = "reread"
  /\ run' = [run EXCEPT ![c].tab = crontab]
  /\ pc' = [pc EXCEPT ![c] = "remove"]
  /\ UNCHANGED <<manifest, crontab, wrapper, record>>

(* ... install the table without the block ... *)
RemoveBlock(c) ==
  /\ pc[c] = "remove"
  /\ crontab' = IF run[c].manages
                THEN ReplaceBlock(run[c].tab, run[c].proj, NoJobs)
                ELSE crontab
  /\ pc' = [pc EXCEPT ![c] = "unlink"]
  /\ run' = [run EXCEPT ![c].tab = <<>>]
  /\ UNCHANGED <<manifest, wrapper, record>>

(* ... delete the wrappers of the jobs it listed ... *)
UnlinkWrapper(c) ==
  /\ pc[c] = "unlink"
  /\ \E id \in run[c].todo :
       /\ wrapper' = [wrapper EXCEPT ![id] = Absent]
       /\ run' = [run EXCEPT ![c].todo = @ \ {id}]
  /\ UNCHANGED <<manifest, crontab, record, pc>>

(* ... and then the record. *)
DeleteRecord(c) ==
  /\ pc[c] = "unlink"
  /\ run[c].todo = {}
  /\ record' = [record EXCEPT ![run[c].proj] = Absent]
  /\ Leave(c)
  /\ UNCHANGED <<manifest, crontab, wrapper>>

----------------------------------------------------------------------------
ApplyStep(c) ==
  \/ CollectStatus(c)
  \/ ReadCrontab(c)
  \/ \E j \in Jobs : OpenWrapper(c, j) \/ FillWrapper(c, j)
  \/ WriteCrontab(c)
  \/ OpenRecord(c)
  \/ FillRecord(c)

PruneStep(c) ==
  \/ InspectBlock(c)
  \/ RereadCrontab(c)
  \/ RemoveBlock(c)
  \/ UnlinkWrapper(c)
  \/ DeleteRecord(c)

Step(c) == ApplyStep(c) \/ PruneStep(c)

Environment ==
  \/ \E p \in Projects : EditManifest(p)
  \/ \E u \in UserLines : AddLine(u)
  \/ \E i \in 1 .. Len(crontab) : DeleteSegment(i)

Next ==
  \/ Environment
  \/ \E c \in Procs :
       \/ \E p \in Projects : StartApply(c, p) \/ StartPrune(c, p)
       \/ Abort(c)
       \/ Step(c)

Spec == Init /\ [][Next]_vars

----------------------------------------------------------------------------
Run == [proj : Projects \cup {Absent}, want : Manifest, tab : Seq(Segment),
        todo : SUBSET (Jobs \cup Ids), open : Jobs \cup {Absent},
        manages : BOOLEAN, quiet : BOOLEAN]

Labels == {"idle", "status", "read", "render", "save", "saving",
           "inspect", "reread", "remove", "unlink"}

TypeOK ==
  /\ manifest \in [Projects -> Manifest]
  /\ crontab \in Seq(Segment)
  /\ wrapper \in [Ids -> Defs \cup {Absent, Torn}]
  /\ record \in [Projects -> Manifest \cup {Absent, Torn}]
  /\ pc \in [Procs -> Labels]
  /\ run \in [Procs -> Run]

(* An entry of the crontab always has a wrapper file to run: apply writes  *)
(* the wrappers before the entries that name them, prune removes the       *)
(* entries before the wrappers, and dying between the two keeps that.      *)
NoDanglingEntry ==
  \A i \in 1 .. Len(crontab) : crontab[i].owner \in Projects =>
    \A j \in Present(crontab[i].jobs) :
      wrapper[<<crontab[i].owner, j>>] # Absent

(* No project, and no unmanaged line, is in the crontab twice: a job never *)
(* fires twice for one tick, whatever invocations overlap.                  *)
OneBlockPerProject ==
  \A i, k \in 1 .. Len(crontab) : crontab[i].owner = crontab[k].owner => i = k

(* The step in which an invocation puts the crontab back. *)
WritesTable(c) ==
  \/ pc[c] = "render" /\ pc'[c] = "save"
  \/ pc[c] = "remove" /\ pc'[c] = "unlink"

(* What others than p have in two tables is the same, in the same order:   *)
(* `at` says where each of their segments went.                            *)
OthersOf(tab, p) == {i \in 1 .. Len(tab) : tab[i].owner # p}

KeepsOthers(old, new, p) ==
  \E at \in [OthersOf(old, p) -> OthersOf(new, p)] :
    /\ \A i \in OthersOf(old, p) : new[at[i]] = old[i]
    /\ \A i, k \in OthersOf(old, p) : i < k => at[i] < at[k]
    /\ \A k \in OthersOf(new, p) : \E i \in OthersOf(old, p) : at[i] = k

(* Writing one project's block leaves every other project's block and      *)
(* every unmanaged line where it was.                                       *)
WriteKeepsOthers ==
  [][\A c \in Procs : WritesTable(c) =>
       KeepsOthers(crontab, crontab', run[c].proj)]_vars

(* The same among overlapping invocations, as long as the crontab still is *)
(* what the writer had read: only a stale write can lose an entry.          *)
FreshWriteKeepsOthers ==
  [][\A c \in Procs : WritesTable(c) /\ run[c].tab = crontab =>
       KeepsOthers(crontab, crontab', run[c].proj)]_vars

(* When apply has run to its end, whatever half-done runs came before it:  *)
(* status shows nothing to do, plan agrees, and every wrapper runs the     *)
(* definition its entry was written for.                                    *)
Converged(p, m) ==
  /\ AllNoop(StatusPlan(p, m, crontab))
  /\ AllNoop(RecordPlan(p, m))
  /\ \A j \in Present(m) : wrapper[<<p, j>>] = m[j].def

ApplyConverges ==
  [][\A c \in Procs, p \in Projects :
       \A m \in Manifests[p] :
         /\ pc[c] = "saving"
         /\ run[c].proj = p /\ run[c].want = m /\ run[c].manages
         /\ record'[p] # record[p]
         => Converged(p, m)']_vars

(* An apply that reports nothing to do leaves the crontab as it was, line  *)
(* for line: repeated applies are idempotent.                               *)
NoopApplyIsInert ==
  [][\A c \in Procs : run[c].quiet /\ WritesTable(c) => UNCHANGED crontab]_vars

(* Each step that changes the crontab replaces one project's jobs, as a    *)
(* whole, or one unmanaged line: the promise of ScheduleTable.              *)
JobsInTable(tab, p) ==
  LET own == {i \in 1 .. Len(tab) : tab[i].owner = p}
  IN  IF own = {} THEN NoJobs ELSE tab[CHOOSE i \in own : TRUE].jobs

LinesIn(tab) == {u \in UserLines : \E i \in 1 .. Len(tab) : tab[i].owner = u}

Table == INSTANCE ScheduleTable WITH
  installed <- [p \in Projects |-> JobsInTable(crontab, p)],
  unmanaged <- LinesIn(crontab)

ImplementsTable == Table!Spec
=============================================================================
