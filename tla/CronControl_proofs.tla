-------------------------- MODULE CronControl_proofs --------------------------
(***************************************************************************)
(* Theorems about the control plane over the crontab, for any number of    *)
(* invocations, projects, jobs and unmanaged lines, and about the planner  *)
(* that both backends use.                                                 *)
(***************************************************************************)
EXTENDS CronControl, SequenceTheorems, WellFoundedInduction, TLAPS

----------------------------------------------------------------------------
(* The pure planner: what its verdicts mean for a job whose deployment a   *)
(* backend read back.                                                      *)

(* A job read back from a backend is never reported as drifted by hash:    *)
(* the backend's own hash is taken for the observed one, so the drift      *)
(* branch of the planner is dead there.                                    *)
LEMMA ReadBackNeverDrifts ==
  ASSUME NEW D, NEW desired, NEW backend,
         NEW job \in [def : D, enabled : BOOLEAN]
  PROVE  PlanChange(desired, Deployed(job, backend), backend) # "drift"
  BY DEF PlanChange, Deployed, JobHash

(* The plan has nothing to do for a job exactly when what is deployed is   *)
(* what is wanted, flag and definition both.                               *)
THEOREM NoopIsInSync ==
  ASSUME NEW D, NEW backend,
         NEW desired \in [def : D, enabled : BOOLEAN],
         NEW job \in [def : D, enabled : BOOLEAN],
         desired # Absent, Deployed(job, backend) # Absent
  PROVE  PlanChange(desired, Deployed(job, backend), backend) = "noop"
           <=> desired = job
<1> DEFINE change == PlanChange(desired, Deployed(job, backend), backend)
<1>1. /\ Deployed(job, backend).def = job.def
      /\ Deployed(job, backend).enabled = job.enabled
      /\ Deployed(job, backend).backend = backend
      /\ Deployed(job, backend).observed = Deployed(job, backend).hash
  BY DEF Deployed, DefinitionHash
<1>2. change = "noop" <=> desired.def = job.def /\ desired.enabled = job.enabled
  BY <1>1 DEF PlanChange, DefinitionHash
<1>3. desired = job <=> desired.def = job.def /\ desired.enabled = job.enabled
  OBVIOUS
<1> QED
  BY <1>2, <1>3

(* status says "ok" exactly for a wanted, enabled job that is in sync.     *)
THEOREM OkIsInstalled ==
  ASSUME NEW D, NEW backend,
         NEW desired \in [def : D, enabled : BOOLEAN],
         NEW job \in [def : D, enabled : BOOLEAN],
         desired # Absent, Deployed(job, backend) # Absent
  PROVE  StatusKind(PlanChange(desired, Deployed(job, backend), backend),
                    desired) = "ok"
           <=> desired = job /\ desired.enabled
<1> DEFINE change == PlanChange(desired, Deployed(job, backend), backend)
<1>1. change \in {"drift", "update", "noop", "enable", "disable"}
  BY DEF PlanChange
<1>2. change = "noop" <=> desired = job
  BY NoopIsInSync
<1> HIDE DEF change
<1>3. StatusKind(change, desired) = "ok" <=> change = "noop" /\ desired.enabled
  BY <1>1 DEF StatusKind
<1> QED
  BY <1>2, <1>3 DEF change

----------------------------------------------------------------------------
(* No project's markers begin with another's. *)
IdsApart == \A p, q \in Projects : <<p, q>> \in MarkerPrefix => p = q

(* No owner twice, and what a table holds, order aside. *)
Unique(tab) == \A i, k \in 1 .. Len(tab) : tab[i].owner = tab[k].owner => i = k
Holds(tab)  == {tab[i] : i \in 1 .. Len(tab)}

LEMMA NoJobsIsManifest == NoJobs \in Manifest
  BY DEF NoJobs, Manifest

----------------------------------------------------------------------------
(* The edits of a table, one sequence operation at a time. *)
LEMMA FirstBlockIsBlock ==
  ASSUME NEW tab \in Seq(Segment), NEW p \in Projects, BlocksFor(tab, p) # {}
  PROVE  FirstBlock(tab, p) \in BlocksFor(tab, p)
<1> DEFINE R == OpToRel(<, Nat)
<1>1. BlocksFor(tab, p) \subseteq Nat
  BY DEF BlocksFor
<1>2. IsWellFoundedOn(R, Nat)
  BY NatLessThanWellFounded, Zenon
<1>3. \A i, k \in Nat : k < i => <<k, i>> \in R
  BY DEF OpToRel
<1> HIDE DEF R
<1>4. PICK i \in BlocksFor(tab, p) :
        \A k \in BlocksFor(tab, p) : <<k, i>> \notin R
  BY <1>1, <1>2, WFMin
<1>5. ASSUME NEW k \in BlocksFor(tab, p) PROVE i <= k
  <2>1. i \in Nat /\ k \in Nat
    BY <1>1
  <2>2. ~ (k < i)
    BY <2>1, <1>3, <1>4
  <2> QED
    BY <2>1, <2>2
<1> QED
  BY <1>5 DEF FirstBlock

LEMMA RemoveAtFacts ==
  ASSUME NEW tab \in Seq(Segment), NEW i \in 1 .. Len(tab)
  PROVE  /\ RemoveAt(tab, i) \in Seq(Segment)
         /\ Len(RemoveAt(tab, i)) = Len(tab) - 1
         /\ \A k \in 1 .. Len(tab) - 1 :
              RemoveAt(tab, i)[k] = IF k < i THEN tab[k] ELSE tab[k + 1]
<1> DEFINE before == SubSeq(tab, 1, i - 1)
           after  == SubSeq(tab, i + 1, Len(tab))
<1>1. /\ before \in Seq(Segment) /\ Len(before) = i - 1
      /\ \A k \in 1 .. i - 1 : before[k] = tab[k]
  OBVIOUS
<1>2. /\ after \in Seq(Segment) /\ Len(after) = Len(tab) - i
      /\ \A k \in 1 .. Len(tab) - i : after[k] = tab[i + k]
  OBVIOUS
<1>3. RemoveAt(tab, i) = before \o after
  BY DEF RemoveAt
<1> HIDE DEF before, after
<1>4. /\ before \o after \in Seq(Segment)
      /\ Len(before \o after) = Len(tab) - 1
      /\ \A k \in 1 .. Len(tab) - 1 :
           (before \o after)[k] = IF k <= i - 1 THEN before[k]
                                              ELSE after[k - (i - 1)]
  BY <1>1, <1>2, ConcatProperties
<1>5. ASSUME NEW k \in 1 .. Len(tab) - 1
      PROVE  (before \o after)[k] = IF k < i THEN tab[k] ELSE tab[k + 1]
  <2>1. CASE k < i
    BY <1>1, <1>4, <2>1
  <2>2. CASE ~(k < i)
    <3>1. k - (i - 1) \in 1 .. Len(tab) - i /\ i + (k - (i - 1)) = k + 1
      BY <2>2
    <3> QED
      BY <1>2, <1>4, <2>2, <3>1
  <2> QED
    BY <2>1, <2>2
<1> QED
  BY <1>3, <1>4, <1>5

LEMMA ReplaceBlockType ==
  ASSUME NEW tab \in Seq(Segment), NEW p \in Projects, NEW m \in Manifest
  PROVE  ReplaceBlock(tab, p, m) \in Seq(Segment)
<1>1. Block(p, m) \in Segment
  BY DEF Block, Segment
<1>2. CASE BlocksFor(tab, p) = {}
  BY <1>1, <1>2 DEF ReplaceBlock
<1>3. CASE BlocksFor(tab, p) # {}
  <2>1. FirstBlock(tab, p) \in 1 .. Len(tab)
    BY <1>3, FirstBlockIsBlock DEF BlocksFor
  <2> QED
    BY <1>1, <1>3, <2>1, RemoveAtFacts DEF ReplaceBlock, ReplaceAt
<1> QED
  BY <1>2, <1>3

LEMMA RemoveKeepsUnique ==
  ASSUME NEW tab \in Seq(Segment), Unique(tab), NEW i \in 1 .. Len(tab)
  PROVE  /\ Unique(RemoveAt(tab, i))
         /\ Holds(RemoveAt(tab, i)) = Holds(tab) \ {tab[i]}
<1> DEFINE new == RemoveAt(tab, i)
<1>1. /\ Len(new) = Len(tab) - 1
      /\ \A k \in 1 .. Len(tab) - 1 :
           new[k] = IF k < i THEN tab[k] ELSE tab[k + 1]
  BY RemoveAtFacts
<1> HIDE DEF new
<1>2. Unique(new)
  <2> SUFFICES ASSUME NEW k \in 1 .. Len(new), NEW l \in 1 .. Len(new),
                      new[k].owner = new[l].owner
               PROVE  k = l
    BY DEF Unique
  <2> DEFINE at(x) == IF x < i THEN x ELSE x + 1
  <2>1. /\ at(k) \in 1 .. Len(tab) /\ new[k] = tab[at(k)]
        /\ at(l) \in 1 .. Len(tab) /\ new[l] = tab[at(l)]
    BY <1>1
  <2>2. at(k) = at(l)
    BY <2>1 DEF Unique
  <2> QED
    BY <2>2
<1>3. ASSUME NEW k \in 1 .. Len(new)
      PROVE  new[k] \in Holds(tab) \ {tab[i]}
  BY <1>1, <1>3 DEF Holds, Unique
<1>4. ASSUME NEW k \in 1 .. Len(tab), tab[k] # tab[i]
      PROVE  tab[k] \in Holds(new)
  <2>1. CASE k < i
    <3>1. k \in 1 .. Len(new) /\ new[k] = tab[k]
      BY <1>1, <2>1
    <3> QED
      BY <3>1 DEF Holds
  <2>2. CASE k > i
    <3>1. k - 1 \in 1 .. Len(new) /\ new[k - 1] = tab[k]
      BY <1>1, <2>2
    <3> QED
      BY <3>1 DEF Holds
  <2> QED
    BY <1>4, <2>1, <2>2
<1>5. Holds(new) = Holds(tab) \ {tab[i]}
  BY <1>3, <1>4 DEF Holds
<1> QED
  BY <1>2, <1>5 DEF new

LEMMA AppendKeepsUnique ==
  ASSUME NEW tab \in Seq(Segment), Unique(tab), NEW seg \in Segment,
         \A s \in Holds(tab) : s.owner # seg.owner
  PROVE  /\ Unique(Append(tab, seg))
         /\ Holds(Append(tab, seg)) = Holds(tab) \cup {seg}
<1> DEFINE new == Append(tab, seg)
<1>1. /\ Len(new) = Len(tab) + 1
      /\ \A k \in 1 .. Len(tab) : new[k] = tab[k]
      /\ new[Len(tab) + 1] = seg
  OBVIOUS
<1> HIDE DEF new
<1>2. \A k \in 1 .. Len(tab) : tab[k].owner # seg.owner
  BY DEF Holds
<1>3. Unique(new)
  BY <1>1, <1>2 DEF Unique
<1>4. Holds(new) = Holds(tab) \cup {seg}
  <2>1. \A k \in 1 .. Len(new) : new[k] \in Holds(tab) \cup {seg}
    BY <1>1 DEF Holds
  <2>2. \A k \in 1 .. Len(tab) : tab[k] \in Holds(new)
    BY <1>1 DEF Holds
  <2>3. seg \in Holds(new)
    BY <1>1 DEF Holds
  <2> QED
    BY <2>1, <2>2, <2>3 DEF Holds
<1> QED
  BY <1>3, <1>4 DEF new

LEMMA BlockIsOwned ==
  ASSUME IdsApart, NEW tab, NEW p \in Projects
  PROVE  BlocksFor(tab, p) = {i \in 1 .. Len(tab) : tab[i].owner = p}
BY PrefixIsReflexive DEF BlocksFor, IsBlockFor, IdsApart

(* ReplaceBlock changes what the table holds of one project and no more. *)
LEMMA ReplaceBlockFacts ==
  ASSUME IdsApart, NEW tab \in Seq(Segment), Unique(tab),
         NEW p \in Projects, NEW m \in Manifest
  PROVE  /\ Unique(ReplaceBlock(tab, p, m))
         /\ Holds(ReplaceBlock(tab, p, m)) =
              {seg \in Holds(tab) : seg.owner # p}
                \cup IF m = NoJobs THEN {} ELSE {Block(p, m)}
<1> DEFINE i == FirstBlock(tab, p)
<1>1. Block(p, m) \in Segment /\ Block(p, m).owner = p
  BY DEF Block, Segment
<1>2. CASE BlocksFor(tab, p) = {}
  <2>1. \A seg \in Holds(tab) : seg.owner # p
    BY <1>2, BlockIsOwned DEF Holds
  <2>2. CASE m = NoJobs
    BY <1>2, <2>1, <2>2 DEF ReplaceBlock
  <2>3. CASE m # NoJobs
    <3>1. ReplaceBlock(tab, p, m) = Append(tab, Block(p, m))
      BY <1>2, <2>3 DEF ReplaceBlock
    <3> QED
      BY <1>1, <2>1, <2>3, <3>1, AppendKeepsUnique
  <2> QED
    BY <2>2, <2>3
<1>3. CASE BlocksFor(tab, p) # {}
  <2>1. i \in 1 .. Len(tab) /\ tab[i].owner = p
    BY <1>3, FirstBlockIsBlock, BlockIsOwned
  <2> HIDE DEF i
  <2>2. {seg \in Holds(tab) : seg.owner # p} = Holds(tab) \ {tab[i]}
    BY <2>1 DEF Holds, Unique
  <2>3. CASE m = NoJobs
    <3>1. ReplaceBlock(tab, p, m) = RemoveAt(tab, i)
      BY <1>3, <2>3 DEF ReplaceBlock, i
    <3> QED
      BY <2>1, <2>2, <2>3, <3>1, RemoveKeepsUnique
  <2>4. CASE m # NoJobs
    <3> DEFINE new == [tab EXCEPT ![i] = Block(p, m)]
    <3>1. ReplaceBlock(tab, p, m) = new
      BY <1>3, <2>4 DEF ReplaceBlock, ReplaceAt, i
    <3>2. /\ Len(new) = Len(tab) /\ new[i] = Block(p, m)
          /\ \A k \in 1 .. Len(tab) : k # i => new[k] = tab[k]
      BY <1>1, <2>1
    <3> HIDE DEF new
    <3>3. Unique(new)
      BY <1>1, <2>1, <3>2 DEF Unique
    <3>4. Holds(new) = (Holds(tab) \ {tab[i]}) \cup {Block(p, m)}
      BY <1>1, <2>1, <3>2 DEF Holds, Unique
    <3> QED
      BY <2>2, <2>4, <3>1, <3>3, <3>4
  <2> QED
    BY <2>3, <2>4
<1> QED
  BY <1>2, <1>3

----------------------------------------------------------------------------
(* Types.  An invocation works for a project of the user's and, while it   *)
(* renders, on jobs its manifest has.                                      *)
Works(r, label) ==
  /\ label # "idle" => r.proj \in Projects
  /\ label \in {"status", "read"} => r.open = Absent
  /\ label = "render" =>
       /\ r.todo \subseteq Present(r.want)
       /\ r.open \in Present(r.want) \cup {Absent}

Working == \A c \in Procs : Works(run[c], pc[c])

Types == TypeOK /\ Working

Files ==
  /\ manifest \in [Projects -> Manifest]
  /\ crontab \in Seq(Segment)
  /\ wrapper \in [Ids -> Defs \cup {Absent, Torn}]
  /\ record \in [Projects -> Manifest \cup {Absent, Torn}]

LEMMA PresentAreJobs ==
  ASSUME NEW m \in Manifest
  PROVE  /\ Present(m) \subseteq Jobs
         /\ \A j \in Present(m) : m[j].def \in Defs
  BY DEF Present, Manifest, JobSpec

LEMMA EmptyIsTable == <<>> \in Seq(Segment) /\ Unique(<<>>)
  BY DEF Unique

LEMMA IdleIsRun == Idle \in Run
  BY NoJobsIsManifest DEF Idle, Run

LEMMA OneStep ==
  ASSUME Types, NEW c \in Procs, NEW r \in Run, NEW l \in Labels,
         run' = [run EXCEPT ![c] = r], pc' = [pc EXCEPT ![c] = l],
         Files', Works(r, l)
  PROVE  Types'
<1>1. TypeOK'
  BY DEF Types, TypeOK, Files
<1>2. ASSUME NEW d \in Procs PROVE Works(run'[d], pc'[d])
  <2>1. CASE d = c
    BY <2>1 DEF Types, TypeOK
  <2>2. CASE d # c
    BY <2>2 DEF Types, TypeOK, Working
  <2> QED
    BY <2>1, <2>2
<1> QED
  BY <1>1, <1>2 DEF Types, Working, Works

LEMMA InitTypes == Init => Types
<1> SUFFICES ASSUME Init PROVE Types
  OBVIOUS
<1>1. manifest \in [Projects -> Manifest]
  BY DEF Init
<1>2. ASSUME NEW u \in UserLines PROVE <<Line(u)>> \in Seq(Segment)
  <2>1. Line(u) \in Segment
    BY NoJobsIsManifest DEF Line, Segment
  <2> QED
    BY <2>1
<1>3. crontab \in Seq(Segment)
  <2>1. crontab = <<>> \/ \E u \in UserLines : crontab = <<Line(u)>>
    BY DEF Init
  <2>2. <<>> \in Seq(Segment)
    OBVIOUS
  <2> QED
    BY <1>2, <2>1, <2>2
<1>4. TypeOK
  BY <1>1, <1>3, IdleIsRun DEF Init, TypeOK, Labels
<1>5. Working
  BY DEF Init, Working, Works
<1> QED
  BY <1>4, <1>5 DEF Types

LEMMA StepTypes == Types /\ [Next]_vars => Types'
<1> SUFFICES ASSUME Types, [Next]_vars PROVE Types'
  OBVIOUS
<1>0. Files /\ \A c \in Procs : run[c] \in Run /\ pc[c] \in Labels
  BY DEF Files, Types, TypeOK
<1>1. CASE UNCHANGED vars
  BY <1>1 DEF vars, Types, TypeOK, Working
<1>2. ASSUME NEW p \in Projects, EditManifest(p) PROVE Types'
  BY <1>2, ManifestsAssumption DEF EditManifest, Types, TypeOK, Working
<1>3. ASSUME NEW u \in UserLines, AddLine(u) PROVE Types'
  <2>1. Line(u) \in Segment
    BY NoJobsIsManifest DEF Line, Segment
  <2> QED
    BY <1>3, <2>1 DEF AddLine, Types, TypeOK, Working
<1>4. ASSUME NEW i \in 1 .. Len(crontab), DeleteSegment(i) PROVE Types'
  <2>1. crontab' \in Seq(Segment)
    BY <1>4, RemoveAtFacts DEF DeleteSegment, Types, TypeOK
  <2> QED
    BY <1>4, <2>1 DEF DeleteSegment, Types, TypeOK, Working
<1>5. ASSUME NEW c \in Procs, NEW p \in Projects, NEW m \in Manifest,
             NEW l \in Labels, l # "render", Start(c, p, m, l)
      PROVE  Types'
  <2>1. PICK b \in ManageChoices :
          run' = [run EXCEPT ![c] = [Idle EXCEPT !.proj = p, !.want = m,
                                                 !.manages = b]]
    BY <1>5 DEF Start
  <2> DEFINE r == [Idle EXCEPT !.proj = p, !.want = m, !.manages = b]
  <2>2. r \in Run /\ r.proj = p
    BY IdleIsRun, OptionsAssumption DEF Run
  <2>6. Idle.open = Absent /\ r.open = Idle.open
    BY IdleIsRun DEF Idle, Run
  <2>3. pc' = [pc EXCEPT ![c] = l]
    BY <1>5 DEF Start
  <2>4. Files'
    BY <1>5, <1>0 DEF Start, Files
  <2>5. Works(r, l)
    BY <1>5, <2>2, <2>6 DEF Works
  <2> HIDE DEF r
  <2> QED
    BY <2>1, <2>2, <2>3, <2>4, <2>5, OneStep DEF r
<1>6. ASSUME NEW c \in Procs, NEW p \in Projects, StartApply(c, p)
      PROVE  Types'
  <2>1. manifest[p] \in Manifest
    BY DEF Types, TypeOK
  <2> QED
    BY <1>5, <1>6, <2>1 DEF StartApply, Labels
<1>7. ASSUME NEW c \in Procs, NEW p \in Projects, StartPrune(c, p)
      PROVE  Types'
  BY <1>5, <1>7, NoJobsIsManifest DEF StartPrune, Labels
<1>8. ASSUME NEW c \in Procs, Abort(c)
      PROVE  Types'
  <2> DEFINE r == Idle
  <2>1. r \in Run
    BY IdleIsRun
  <2>2. run' = [run EXCEPT ![c] = r] /\ pc' = [pc EXCEPT ![c] = "idle"]
    BY <1>8, <1>0 DEF Abort, Leave, Types, TypeOK, Run
  <2>3. Files'
    BY <1>8, <1>0 DEF Abort, Files, Types, TypeOK
  <2>4. Works(r, "idle")
    BY DEF Works
  <2> QED
    BY <2>1, <2>2, <2>3, <2>4, OneStep DEF Labels
<1>9. ASSUME NEW c \in Procs, CollectStatus(c) PROVE Types'
  <2>1. CASE ScheduleErrors(run[c].want) # {}
    BY <1>9, <1>0, <2>1, IdleIsRun, OneStep
    DEF CollectStatus, Leave, Files, Works, Labels
  <2>2. CASE ScheduleErrors(run[c].want) = {}
    <3> DEFINE b == AllNoop(StatusPlan(run[c].proj, run[c].want, crontab))
               r == [run[c] EXCEPT !.quiet = b]
    <3>1. b \in BOOLEAN
      BY DEF AllNoop
    <3>2. run' = [run EXCEPT ![c].quiet = b] /\ pc' = [pc EXCEPT ![c] = "read"]
      BY <1>9, <2>2 DEF CollectStatus
    <3>3. Files' /\ pc[c] = "status"
      BY <1>9, <1>0 DEF CollectStatus, Files
    <3> HIDE DEF b
    <3>4. r \in Run /\ r.proj = run[c].proj
      BY <1>0, <3>1 DEF Run
    <3>5. run' = [run EXCEPT ![c] = r]
      BY <3>2 DEF Types, TypeOK, Run
    <3>6. Works(r, "read")
      BY <3>3, <3>4 DEF Works, Types, Working
    <3> HIDE DEF r
    <3> QED
      BY <3>2, <3>3, <3>4, <3>5, <3>6, OneStep DEF Labels
  <2> QED
    BY <2>1, <2>2
<1>10. ASSUME NEW c \in Procs, ReadCrontab(c)
      PROVE  Types'
  <2> DEFINE r == [run[c] EXCEPT
                   !.tab = IF run[c].manages THEN crontab ELSE <<>>,
                   !.todo = Present(run[c].want)]
  <2>1. r \in Run
    <3>1. Present(run[c].want) \in SUBSET (Jobs \cup Ids)
      BY <1>0, PresentAreJobs DEF Run
    <3>2. (IF run[c].manages THEN crontab ELSE <<>>) \in Seq(Segment)
      BY DEF Types, TypeOK
    <3> QED
      BY <1>0, <3>1, <3>2 DEF Run
  <2>2. run' = [run EXCEPT ![c] = r] /\ pc' = [pc EXCEPT ![c] = "render"]
    BY <1>10, <1>0 DEF ReadCrontab, Types, TypeOK, Run
  <2>3. Files'
    BY <1>10, <1>0 DEF ReadCrontab, Files, Types, TypeOK
  <2>4. Works(r, "render")
    <3>1. /\ r.proj = run[c].proj /\ r.todo = Present(run[c].want)
          /\ r.want = run[c].want /\ r.open = run[c].open
      BY <1>0 DEF Run
    <3> QED
      BY <1>10, <3>1 DEF ReadCrontab, Works, Types, Working
  <2> QED
    BY <2>1, <2>2, <2>3, <2>4, OneStep DEF Labels
<1>11. ASSUME NEW c \in Procs, NEW j \in Jobs, OpenWrapper(c, j)
      PROVE  Types'
  <2> DEFINE r == [run[c] EXCEPT !.open = j]
  <2>1. r \in Run
    BY <1>0 DEF Run
  <2>2. run' = [run EXCEPT ![c] = r] /\ pc' = [pc EXCEPT ![c] = "render"]
    BY <1>11, <1>0 DEF OpenWrapper, Types, TypeOK, Run
  <2>3. Files'
    BY <1>11, <1>0 DEF OpenWrapper, Files, Types, TypeOK
  <2>4. Works(r, "render")
    <3>1. /\ r.open = j /\ r.proj = run[c].proj
          /\ r.want = run[c].want /\ r.todo = run[c].todo
      BY <1>0 DEF Run
    <3> QED
      BY <1>11, <3>1 DEF OpenWrapper, Works, Types, Working
  <2> QED
    BY <2>1, <2>2, <2>3, <2>4, OneStep DEF Labels
<1>12. ASSUME NEW c \in Procs, NEW j \in Jobs, FillWrapper(c, j)
      PROVE  Types'
  <2> DEFINE r == [run[c] EXCEPT !.open = Absent, !.todo = run[c].todo \ {j}]
  <2>1. r \in Run
    BY <1>0 DEF Run
  <2>2. run' = [run EXCEPT ![c] = r] /\ pc' = [pc EXCEPT ![c] = "render"]
    BY <1>12, <1>0 DEF FillWrapper, Types, TypeOK, Run
  <2>3. Files'
    <3>1. run[c].want \in Manifest /\ j \in Present(run[c].want)
      BY <1>12, <1>0, AbsentIsNoJob DEF FillWrapper, Run, Types, Working, Works
    <3>2. run[c].want[j].def \in Defs
      BY <3>1, PresentAreJobs
    <3> QED
      BY <1>12, <1>0, <3>2 DEF FillWrapper, Files
  <2>4. Works(r, "render")
    <3>1. /\ r.open = Absent /\ r.todo = run[c].todo \ {j}
          /\ r.proj = run[c].proj /\ r.want = run[c].want
      BY <1>0 DEF Run
    <3> QED
      BY <1>12, <3>1 DEF FillWrapper, Works, Types, Working
  <2> QED
    BY <2>1, <2>2, <2>3, <2>4, OneStep DEF Labels
<1>13. ASSUME NEW c \in Procs, WriteCrontab(c)
      PROVE  Types'
  <2> DEFINE r == [run[c] EXCEPT !.tab = <<>>, !.quiet = FALSE]
  <2>1. r \in Run
    BY <1>0, EmptyIsTable DEF Run
  <2>2. run' = [run EXCEPT ![c] = r] /\ pc' = [pc EXCEPT ![c] = "save"]
    BY <1>13, <1>0 DEF WriteCrontab, Types, TypeOK, Run
  <2>3. Files'
    <3>1. /\ run[c].tab \in Seq(Segment) /\ run[c].want \in Manifest
          /\ run[c].proj \in Projects
      BY <1>13, <1>0 DEF WriteCrontab, Run, Types, Working, Works
    <3>2. ReplaceBlock(run[c].tab, run[c].proj, run[c].want) \in Seq(Segment)
      BY <3>1, ReplaceBlockType
    <3> QED
      BY <1>13, <1>0, <3>2 DEF WriteCrontab, Files
  <2>4. Works(r, "save")
    <3>1. r.proj = run[c].proj
      BY <1>0 DEF Run
    <3> QED
      BY <1>13, <3>1 DEF WriteCrontab, Works, Types, Working
  <2> QED
    BY <2>1, <2>2, <2>3, <2>4, OneStep DEF Labels
<1>14. ASSUME NEW c \in Procs, OpenRecord(c)
      PROVE  Types'
  <2> DEFINE r == run[c]
  <2>1. r \in Run
    BY <1>0
  <2>2. run' = [run EXCEPT ![c] = r] /\ pc' = [pc EXCEPT ![c] = "saving"]
    BY <1>14, <1>0 DEF OpenRecord, Types, TypeOK, Run
  <2>3. Files'
    BY <1>14, <1>0 DEF OpenRecord, Files, Types, TypeOK
  <2>4. Works(r, "saving")
    BY <1>14 DEF OpenRecord, Works, Types, Working
  <2> QED
    BY <2>1, <2>2, <2>3, <2>4, OneStep DEF Labels
<1>15. ASSUME NEW c \in Procs, FillRecord(c)
      PROVE  Types'
  <2> DEFINE r == Idle
  <2>1. r \in Run
    BY IdleIsRun
  <2>2. run' = [run EXCEPT ![c] = r] /\ pc' = [pc EXCEPT ![c] = "idle"]
    BY <1>15, <1>0 DEF FillRecord, Leave, Types, TypeOK, Run
  <2>3. Files'
    <3>1. run[c].want \in Manifest
      BY <1>0 DEF Run
    <3> QED
      BY <1>15, <1>0, <3>1 DEF FillRecord, Files
  <2>4. Works(r, "idle")
    BY DEF Works
  <2> QED
    BY <2>1, <2>2, <2>3, <2>4, OneStep DEF Labels
<1>16. ASSUME NEW c \in Procs, InspectBlock(c)
      PROVE  Types'
  <2> DEFINE r == [run[c] EXCEPT
                   !.todo = Present(InspectedJobs(crontab, run[c].proj))]
  <2>1. r \in Run
    <3>1. Present(InspectedJobs(crontab, run[c].proj)) \subseteq Ids
      BY DEF Present, InspectedJobs
    <3> QED
      BY <1>0, <3>1 DEF Run
  <2>2. run' = [run EXCEPT ![c] = r] /\ pc' = [pc EXCEPT ![c] = "reread"]
    BY <1>16, <1>0 DEF InspectBlock, Types, TypeOK, Run
  <2>3. Files'
    BY <1>16, <1>0 DEF InspectBlock, Files, Types, TypeOK
  <2>4. Works(r, "reread")
    <3>1. r.proj = run[c].proj
      BY <1>0 DEF Run
    <3> QED
      BY <1>16, <3>1 DEF InspectBlock, Works, Types, Working
  <2> QED
    BY <2>1, <2>2, <2>3, <2>4, OneStep DEF Labels
<1>17. ASSUME NEW c \in Procs, RereadCrontab(c)
      PROVE  Types'
  <2> DEFINE r == [run[c] EXCEPT !.tab = crontab]
  <2>1. r \in Run
    BY <1>0 DEF Run, Files
  <2>2. run' = [run EXCEPT ![c] = r] /\ pc' = [pc EXCEPT ![c] = "remove"]
    BY <1>17, <1>0 DEF RereadCrontab, Types, TypeOK, Run
  <2>3. Files'
    BY <1>17, <1>0 DEF RereadCrontab, Files, Types, TypeOK
  <2>4. Works(r, "remove")
    <3>1. r.proj = run[c].proj
      BY <1>0 DEF Run
    <3> QED
      BY <1>17, <3>1 DEF RereadCrontab, Works, Types, Working
  <2> QED
    BY <2>1, <2>2, <2>3, <2>4, OneStep DEF Labels
<1>18. ASSUME NEW c \in Procs, RemoveBlock(c)
      PROVE  Types'
  <2> DEFINE r == [run[c] EXCEPT !.tab = <<>>]
  <2>1. r \in Run
    BY <1>0, EmptyIsTable DEF Run
  <2>2. run' = [run EXCEPT ![c] = r] /\ pc' = [pc EXCEPT ![c] = "unlink"]
    BY <1>18, <1>0 DEF RemoveBlock, Types, TypeOK, Run
  <2>3. Files'
    <3>1. /\ run[c].tab \in Seq(Segment) /\ run[c].want \in Manifest
          /\ run[c].proj \in Projects
      BY <1>18, <1>0 DEF RemoveBlock, Run, Types, Working, Works
    <3>2. ReplaceBlock(run[c].tab, run[c].proj, NoJobs) \in Seq(Segment)
      BY <3>1, ReplaceBlockType, NoJobsIsManifest
    <3> QED
      BY <1>18, <1>0, <3>2 DEF RemoveBlock, Files
  <2>4. Works(r, "unlink")
    <3>1. r.proj = run[c].proj
      BY <1>0 DEF Run
    <3> QED
      BY <1>18, <3>1 DEF RemoveBlock, Works, Types, Working
  <2> QED
    BY <2>1, <2>2, <2>3, <2>4, OneStep DEF Labels
<1>19. ASSUME NEW c \in Procs, UnlinkWrapper(c)
      PROVE  Types'
  <2>1. PICK id \in run[c].todo :
          /\ wrapper' = [wrapper EXCEPT ![id] = Absent]
          /\ run' = [run EXCEPT ![c].todo = run[c].todo \ {id}]
    BY <1>19, <1>0 DEF UnlinkWrapper, Types, TypeOK
  <2> DEFINE r == [run[c] EXCEPT !.todo = run[c].todo \ {id}]
  <2>2. r \in Run /\ r.proj = run[c].proj
    BY <1>0 DEF Run
  <2>3. run' = [run EXCEPT ![c] = r] /\ pc' = [pc EXCEPT ![c] = "unlink"]
    BY <1>19, <1>0, <2>1 DEF UnlinkWrapper, Types, TypeOK, Run
  <2>4. Files'
    BY <1>19, <1>0, <2>1 DEF UnlinkWrapper, Files
  <2>5. Works(r, "unlink")
    BY <1>19, <2>2 DEF UnlinkWrapper, Works, Types, Working
  <2> QED
    BY <2>2, <2>3, <2>4, <2>5, OneStep DEF Labels
<1>20. ASSUME NEW c \in Procs, DeleteRecord(c)
      PROVE  Types'
  <2> DEFINE r == Idle
  <2>1. r \in Run
    BY IdleIsRun
  <2>2. run' = [run EXCEPT ![c] = r] /\ pc' = [pc EXCEPT ![c] = "idle"]
    BY <1>20, <1>0 DEF DeleteRecord, Leave, Types, TypeOK, Run
  <2>3. Files'
    BY <1>20, <1>0 DEF DeleteRecord, Files, Types, TypeOK
  <2>4. Works(r, "idle")
    BY DEF Works
  <2> QED
    BY <2>1, <2>2, <2>3, <2>4, OneStep DEF Labels
<1> QED
  BY <1>1, <1>2, <1>3, <1>4, <1>6, <1>7, <1>8, <1>9, <1>10, <1>11, <1>12,
     <1>13, <1>14, <1>15, <1>16, <1>17, <1>18, <1>19, <1>20
  DEF Next, Environment, Step, ApplyStep, PruneStep

LEMMA AlwaysTypes == Spec => []Types
  BY InitTypes, StepTypes, PTL DEF Spec

(* Every variable of the control plane keeps its type.                     *)
THEOREM TypeCorrect == Spec => []TypeOK
<1>1. Types => TypeOK
  BY DEF Types
<1> QED
  BY <1>1, AlwaysTypes, PTL

----------------------------------------------------------------------------
(* One block per project.  Not the crontab alone: every copy an invocation *)
(* holds, however stale, has its owners once, and so has the table it      *)
(* writes back.                                                            *)
OwnersOnce ==
  /\ Unique(crontab)
  /\ \A c \in Procs : Unique(run[c].tab)

LEMMA InitOwners == Init => OwnersOnce
<1> SUFFICES ASSUME Init PROVE OwnersOnce
  OBVIOUS
<1>1. \A u \in UserLines : Unique(<<Line(u)>>)
  BY DEF Unique
<1>2. Unique(crontab)
  BY <1>1, EmptyIsTable DEF Init
<1>3. \A c \in Procs : run[c].tab = <<>>
  BY DEF Init, Idle
<1> QED
  BY <1>2, <1>3, EmptyIsTable DEF OwnersOnce

(* How a step treats the copies and the crontab. *)
Copied ==
  \A c \in Procs : run'[c].tab \in {run[c].tab, crontab, <<>>}

Written ==
  \E c \in Procs, p \in Projects, m \in Manifest :
    crontab' = ReplaceBlock(run[c].tab, p, m)

LEMMA StepOwners ==
  ASSUME IdsApart
  PROVE  Types /\ OwnersOnce /\ [Next]_vars => OwnersOnce'
<1> SUFFICES ASSUME Types, OwnersOnce, [Next]_vars PROVE OwnersOnce'
  OBVIOUS
<1>0. /\ crontab \in Seq(Segment) /\ Unique(crontab)
      /\ run \in [Procs -> Run]
      /\ \A c \in Procs : /\ run[c].tab \in Seq(Segment)
                           /\ Unique(run[c].tab)
                           /\ run[c].want \in Manifest
  BY DEF Types, TypeOK, OwnersOnce, Run
<1>1. ASSUME UNCHANGED <<crontab, run>> PROVE OwnersOnce'
  BY <1>1 DEF OwnersOnce
<1>2. ASSUME NEW u \in UserLines, AddLine(u) PROVE OwnersOnce'
  <2>1. Line(u) \in Segment /\ Line(u).owner = u
    BY NoJobsIsManifest DEF Line, Segment
  <2>2. \A seg \in Holds(crontab) : seg.owner # u
    BY <1>2 DEF AddLine, Holds
  <2>3. Unique(crontab')
    BY <1>0, <1>2, <2>1, <2>2, AppendKeepsUnique DEF AddLine
  <2> QED
    BY <1>2, <2>3 DEF AddLine, OwnersOnce
<1>3. ASSUME NEW i \in 1 .. Len(crontab), DeleteSegment(i) PROVE OwnersOnce'
  BY <1>0, <1>3, RemoveKeepsUnique DEF DeleteSegment, OwnersOnce
<1>4. ASSUME Copied, crontab' = crontab \/ Written PROVE OwnersOnce'
  <2>1. Unique(crontab')
    BY <1>0, <1>4, ReplaceBlockFacts DEF Written
  <2> QED
    BY <1>0, <1>4, <2>1, EmptyIsTable DEF OwnersOnce, Copied
<1>5. ASSUME NEW c \in Procs, NEW p \in Projects,
             StartApply(c, p) \/ StartPrune(c, p)
      PROVE  OwnersOnce'
  <2>1. PICK m, l : Start(c, p, m, l)
    BY <1>5 DEF StartApply, StartPrune
  <2>2. PICK b : run' = [run EXCEPT ![c] = [Idle EXCEPT !.proj = p, !.want = m,
                                                        !.manages = b]]
    BY <2>1 DEF Start
  <2>3. [Idle EXCEPT !.proj = p, !.want = m, !.manages = b].tab = <<>>
    BY DEF Idle
  <2>4. Copied
    BY <1>0, <2>2, <2>3 DEF Copied
  <2> QED
    BY <1>4, <2>1, <2>4 DEF Start
<1>6. ASSUME NEW c \in Procs, ReadCrontab(c) PROVE OwnersOnce'
  BY <1>0, <1>4, <1>6 DEF ReadCrontab, Copied, Run
<1>7. ASSUME NEW c \in Procs, NEW j \in Jobs, OpenWrapper(c, j) PROVE OwnersOnce'
  BY <1>0, <1>4, <1>7 DEF OpenWrapper, Copied, Run
<1>8. ASSUME NEW c \in Procs, NEW j \in Jobs, FillWrapper(c, j) PROVE OwnersOnce'
  BY <1>0, <1>4, <1>8 DEF FillWrapper, Copied, Run
<1>9. ASSUME NEW c \in Procs, WriteCrontab(c) PROVE OwnersOnce'
  <2>1. run[c].proj \in Projects
    BY <1>9 DEF WriteCrontab, Types, Working, Works
  <2>2. Copied
    BY <1>0, <1>9 DEF WriteCrontab, Copied, Run
  <2>3. crontab' = crontab \/ Written
    BY <1>0, <1>9, <2>1, NoJobsIsManifest DEF WriteCrontab, Written
  <2> QED
    BY <1>4, <2>2, <2>3
<1>10. ASSUME NEW c \in Procs, OpenRecord(c) PROVE OwnersOnce'
  BY <1>0, <1>4, <1>10 DEF OpenRecord, Copied, Run
<1>11. ASSUME NEW c \in Procs, FillRecord(c) PROVE OwnersOnce'
  BY <1>0, <1>4, <1>11 DEF FillRecord, Leave, Idle, Copied, Run
<1>12. ASSUME NEW c \in Procs, InspectBlock(c) PROVE OwnersOnce'
  BY <1>0, <1>4, <1>12 DEF InspectBlock, Copied, Run
<1>13. ASSUME NEW c \in Procs, RereadCrontab(c) PROVE OwnersOnce'
  BY <1>0, <1>4, <1>13 DEF RereadCrontab, Copied, Run
<1>14. ASSUME NEW c \in Procs, RemoveBlock(c) PROVE OwnersOnce'
  <2>1. run[c].proj \in Projects
    BY <1>14 DEF RemoveBlock, Types, Working, Works
  <2>2. Copied
    BY <1>0, <1>14 DEF RemoveBlock, Copied, Run
  <2>3. crontab' = crontab \/ Written
    BY <1>0, <1>14, <2>1, NoJobsIsManifest DEF RemoveBlock, Written
  <2> QED
    BY <1>4, <2>2, <2>3
<1>15. ASSUME NEW c \in Procs, UnlinkWrapper(c) PROVE OwnersOnce'
  BY <1>0, <1>4, <1>15 DEF UnlinkWrapper, Copied, Run
<1>16. ASSUME NEW c \in Procs, DeleteRecord(c) PROVE OwnersOnce'
  BY <1>0, <1>4, <1>16 DEF DeleteRecord, Leave, Idle, Copied, Run
<1>17. ASSUME NEW c \in Procs, Abort(c) PROVE OwnersOnce'
  BY <1>0, <1>4, <1>17 DEF Abort, Leave, Idle, Copied, Run
<1>18. ASSUME NEW c \in Procs, CollectStatus(c) PROVE OwnersOnce'
  BY <1>0, <1>4, <1>18 DEF CollectStatus, Leave, Idle, Copied, Run
<1>19. ASSUME NEW p \in Projects, EditManifest(p) PROVE OwnersOnce'
  BY <1>1, <1>19 DEF EditManifest
<1> QED
  BY <1>1, <1>2, <1>3, <1>5, <1>6, <1>7, <1>8, <1>9, <1>10, <1>11, <1>12,
     <1>13, <1>14, <1>15, <1>16, <1>17, <1>18, <1>19
  DEF Next, Environment, Step, ApplyStep, PruneStep, vars

(* No project and no unmanaged line is ever in the crontab twice, whatever *)
(* invocations overlap, die or write back a stale copy, provided that no   *)
(* project's markers begin with another's.                                 *)
THEOREM OneBlock ==
  ASSUME IdsApart
  PROVE  Spec => []OneBlockPerProject
<1>1. OwnersOnce => OneBlockPerProject
  BY DEF OwnersOnce, OneBlockPerProject, Unique
<1>2. Types /\ OwnersOnce /\ [Next]_vars => OwnersOnce'
  BY StepOwners
<1> QED
  BY <1>1, <1>2, AlwaysTypes, InitOwners, PTL DEF Spec


----------------------------------------------------------------------------
(* What others have in the table.  Writing a block moves nobody else's     *)
(* segment past another, loses none and adds none.                         *)
LEMMA ReplaceKeepsOthers ==
  ASSUME IdsApart, NEW tab \in Seq(Segment),
         NEW p \in Projects, NEW m \in Manifest
  PROVE  KeepsOthers(tab, ReplaceBlock(tab, p, m), p)
<1> DEFINE new == ReplaceBlock(tab, p, m)
           i == FirstBlock(tab, p)
           same == [k \in OthersOf(tab, p) |-> k]
<1> SUFFICES KeepsOthers(tab, new, p)
  OBVIOUS
<1>n. new = ReplaceBlock(tab, p, m) /\ i = FirstBlock(tab, p)
  OBVIOUS
<1> HIDE DEF new, i
<1>1. Block(p, m) \in Segment /\ Block(p, m).owner = p
  BY DEF Block, Segment
<1>2. ASSUME OthersOf(new, p) = OthersOf(tab, p),
             \A k \in OthersOf(tab, p) : new[k] = tab[k]
      PROVE  KeepsOthers(tab, new, p)
  <2>1. same \in [OthersOf(tab, p) -> OthersOf(new, p)]
    BY <1>2
  <2>2. /\ \A k \in OthersOf(tab, p) : new[same[k]] = tab[k]
        /\ \A k, l \in OthersOf(tab, p) : k < l => same[k] < same[l]
        /\ \A l \in OthersOf(new, p) : \E k \in OthersOf(tab, p) : same[k] = l
    BY <1>2
  <2> HIDE DEF same, new
  <2> QED
    BY <2>1, <2>2 DEF KeepsOthers
<1>3. CASE BlocksFor(tab, p) = {} /\ m = NoJobs
  <2>1. new = tab
    BY <1>n, <1>3 DEF ReplaceBlock
  <2> QED
    BY <1>2, <2>1
<1>4. CASE BlocksFor(tab, p) = {} /\ m # NoJobs
  <2>1. new = Append(tab, Block(p, m))
    BY <1>n, <1>4 DEF ReplaceBlock
  <2>2. /\ Len(new) = Len(tab) + 1
        /\ \A k \in 1 .. Len(tab) : new[k] = tab[k]
        /\ new[Len(tab) + 1] = Block(p, m)
    BY <1>1, <2>1
  <2> QED
    BY <1>1, <1>2, <2>2 DEF OthersOf
<1>5. ASSUME BlocksFor(tab, p) # {}
      PROVE  i \in 1 .. Len(tab) /\ tab[i].owner = p
  BY <1>n, <1>5, FirstBlockIsBlock, BlockIsOwned
<1>6. CASE BlocksFor(tab, p) # {} /\ m # NoJobs
  <2>1. new = [tab EXCEPT ![i] = Block(p, m)]
    BY <1>n, <1>6 DEF ReplaceBlock, ReplaceAt
  <2>2. i \in 1 .. Len(tab) /\ tab[i].owner = p
    BY <1>5, <1>6
  <2>3. /\ Len(new) = Len(tab) /\ new[i] = Block(p, m)
        /\ \A k \in 1 .. Len(tab) : k # i => new[k] = tab[k]
    BY <1>1, <2>1, <2>2
  <2> QED
    BY <1>1, <1>2, <2>2, <2>3 DEF OthersOf
<1>7. CASE BlocksFor(tab, p) # {} /\ m = NoJobs
  <2> DEFINE at == [k \in OthersOf(tab, p) |-> IF k < i THEN k ELSE k - 1]
  <2>1. new = RemoveAt(tab, i) /\ i \in 1 .. Len(tab) /\ tab[i].owner = p
    BY <1>n, <1>5, <1>7 DEF ReplaceBlock
  <2>2. /\ Len(new) = Len(tab) - 1
        /\ \A k \in 1 .. Len(tab) - 1 :
             new[k] = IF k < i THEN tab[k] ELSE tab[k + 1]
    BY <2>1, RemoveAtFacts
  <2>n. Len(tab) \in Nat
    BY LenProperties
  <2>3. ASSUME NEW k \in OthersOf(tab, p)
        PROVE  at[k] \in OthersOf(new, p) /\ new[at[k]] = tab[k]
    <3>1. k \in 1 .. Len(tab) /\ tab[k].owner # p /\ k # i
      BY <2>1 DEF OthersOf
    <3>2. at[k] \in 1 .. Len(tab) - 1 /\ new[at[k]] = tab[k]
      BY <2>1, <2>2, <2>n, <3>1
    <3> QED
      BY <2>2, <3>1, <3>2 DEF OthersOf
  <2>4. ASSUME NEW l \in OthersOf(new, p)
        PROVE  \E k \in OthersOf(tab, p) : at[k] = l
    <3> DEFINE k == IF l < i THEN l ELSE l + 1
    <3>1. l \in 1 .. Len(tab) - 1 /\ new[l].owner # p
      BY <2>2 DEF OthersOf
    <3>2. k \in 1 .. Len(tab) /\ tab[k] = new[l]
      BY <2>1, <2>2, <2>n, <3>1
    <3>3. k \in OthersOf(tab, p)
      BY <3>1, <3>2 DEF OthersOf
    <3>4. at[k] = l
      BY <2>1, <3>1, <3>3
    <3> QED
      BY <3>3, <3>4
  <2>5. \A k, l \in OthersOf(tab, p) : k < l => at[k] < at[l]
    <3>1. \A k \in OthersOf(tab, p) : k \in 1 .. Len(tab) /\ k # i
      BY <2>1 DEF OthersOf
    <3> QED
      BY <2>1, <2>n, <3>1
  <2>6. at \in [OthersOf(tab, p) -> OthersOf(new, p)]
    BY <2>3
  <2> HIDE DEF at
  <2> QED
    BY <2>3, <2>4, <2>5, <2>6 DEF KeepsOthers
<1> QED
  BY <1>3, <1>4, <1>6, <1>7

LEMMA UnchangedKeepsOthers ==
  ASSUME NEW tab \in Seq(Segment), NEW p
  PROVE  KeepsOthers(tab, tab, p)
<1> DEFINE same == [k \in OthersOf(tab, p) |-> k]
<1>1. same \in [OthersOf(tab, p) -> OthersOf(tab, p)]
  OBVIOUS
<1>2. /\ \A k \in OthersOf(tab, p) : tab[same[k]] = tab[k]
      /\ \A k, l \in OthersOf(tab, p) : k < l => same[k] < same[l]
      /\ \A l \in OthersOf(tab, p) : \E k \in OthersOf(tab, p) : same[k] = l
  OBVIOUS
<1> HIDE DEF same
<1> QED
  BY <1>1, <1>2 DEF KeepsOthers

----------------------------------------------------------------------------
(* The plan against what a backend, or the state file, holds of a project: *)
(* it has nothing to do exactly when that is the manifest.                 *)
Entries(tab, p) == {seg \in Holds(tab) : seg.owner = p}
Own(p, m)       == IF m = NoJobs THEN {} ELSE {Block(p, m)}
NoEmpty(tab)    == \A seg \in Holds(tab) : seg.owner \in Projects => seg.jobs # NoJobs

LEMMA NoopIsSame ==
  ASSUME NEW d \in JobSpec \cup {Absent}, NEW e \in JobSpec,
         NEW b, b = "cron", Deployed(e, b) # Absent
  PROVE  PlanChange(d, Deployed(e, b), b) = "noop" <=> d = e
<1>1. CASE d = Absent
  BY <1>1, AbsentIsNoJob DEF PlanChange
<1>2. CASE d # Absent
  BY <1>2, NoopIsInSync DEF JobSpec
<1> QED
  BY <1>1, <1>2

LEMMA AllNoopIsSame ==
  ASSUME NEW p \in Projects, NEW m \in Manifest, NEW held \in Manifest
  PROVE  AllNoop(BuildPlan(DesiredJobs(p, m),
                           DeployedJobs(DesiredJobs(p, held), "cron"), "cron"))
           <=> m = held
<1> DEFINE D == DesiredJobs(p, m)
           S == DeployedJobs(DesiredJobs(p, held), "cron")
           P == BuildPlan(D, S, "cron")
<1>1. /\ DOMAIN D = Ids /\ DOMAIN S = Ids
      /\ \A id \in Ids : D[id] = IF id[1] = p THEN m[id[2]] ELSE Absent
      /\ \A id \in Ids : S[id] = IF id[1] = p /\ held[id[2]] # Absent
                                 THEN Deployed(held[id[2]], "cron") ELSE Absent
  BY DEF DesiredJobs, DeployedJobs
<1>2. \A j \in Jobs : <<p, j>> \in Ids /\ <<p, j>>[1] = p /\ <<p, j>>[2] = j
  BY DEF Ids
<1>3. \A j \in Jobs : /\ m[j] \in JobSpec \cup {Absent}
                      /\ held[j] \in JobSpec \cup {Absent}
  BY DEF Manifest
<1>4. /\ DOMAIN P = Present(D) \cup Present(S)
      /\ \A id \in DOMAIN P : P[id] = PlanChange(D[id], S[id], "cron")
  BY DEF BuildPlan
<1> HIDE DEF D, S, P
<1>5. ASSUME NEW j \in Jobs, held[j] = Absent
      PROVE  /\ <<p, j>> \in DOMAIN P <=> m[j] # Absent
             /\ PlanChange(D[<<p, j>>], S[<<p, j>>], "cron") # "noop"
  BY <1>1, <1>2, <1>4, <1>5 DEF Present, PlanChange
<1>6. ASSUME NEW j \in Jobs, held[j] # Absent
      PROVE  /\ <<p, j>> \in DOMAIN P
             /\ PlanChange(D[<<p, j>>], S[<<p, j>>], "cron") = "noop" <=> m[j] = held[j]
  <2>1. Deployed(held[j], "cron") # Absent /\ held[j] \in JobSpec
    BY <1>3, <1>6, AbsentIsNoJob
  <2>2. D[<<p, j>>] = m[j] /\ S[<<p, j>>] = Deployed(held[j], "cron")
    BY <1>1, <1>2, <1>6
  <2>3. <<p, j>> \in DOMAIN P
    BY <1>1, <1>2, <1>4, <2>1, <2>2 DEF Present
  <2> QED
    BY <1>3, <2>1, <2>2, <2>3, NoopIsSame
<1>7. ASSUME AllNoop(P) PROVE m = held
  <2>1. \A j \in Jobs : m[j] = held[j]
    BY <1>4, <1>5, <1>6, <1>7 DEF AllNoop
  <2> QED
    BY <2>1 DEF Manifest
<1>8. ASSUME m = held PROVE AllNoop(P)
  <2> SUFFICES ASSUME NEW id \in DOMAIN P PROVE P[id] = "noop"
    BY DEF AllNoop
  <2>1. id \in Ids /\ (D[id] # Absent \/ S[id] # Absent)
    BY <1>1, <1>4 DEF Present
  <2>2. id[1] = p /\ id[2] \in Jobs /\ id = <<p, id[2]>> /\ held[id[2]] # Absent
    BY <1>1, <1>8, <2>1 DEF Ids
  <2> QED
    BY <1>4, <1>6, <1>8, <2>2
<1> QED
  BY <1>7, <1>8 DEF P, D, S

(* What is read back of a project is the jobs of its one entry.            *)
LEMMA InspectedIsHeld ==
  ASSUME IdsApart, NEW tab \in Seq(Segment), Unique(tab),
         NEW p \in Projects, NEW held \in Manifest, Entries(tab, p) = Own(p, held)
  PROVE  InspectedJobs(tab, p) = DesiredJobs(p, held)
<1>1. CASE BlocksFor(tab, p) = {}
  <2>1. Entries(tab, p) = {}
    BY <1>1, BlockIsOwned DEF Entries, Holds
  <2>2. held = NoJobs
    BY <2>1 DEF Own
  <2>3. \A id \in Ids : NoJobs[id[2]] = Absent
    BY DEF NoJobs, Ids
  <2> QED
    BY <1>1, <2>2, <2>3 DEF InspectedJobs, DesiredJobs
<1>2. CASE BlocksFor(tab, p) # {}
  <2> DEFINE i == FirstBlock(tab, p)
  <2>1. i \in 1 .. Len(tab) /\ tab[i].owner = p
    BY <1>2, FirstBlockIsBlock, BlockIsOwned
  <2> HIDE DEF i
  <2>2. tab[i] \in Entries(tab, p)
    BY <2>1 DEF Entries, Holds
  <2>3. tab[i] = Block(p, held)
    BY <2>2 DEF Own
  <2>4. tab[i].jobs = held
    BY <2>3 DEF Block
  <2> QED
    BY <1>2, <2>1, <2>4 DEF InspectedJobs, DesiredJobs, i
<1> QED
  BY <1>1, <1>2

LEMMA OneEntry ==
  ASSUME IdsApart, NEW tab \in Seq(Segment), Unique(tab), NoEmpty(tab),
         NEW p \in Projects
  PROVE  \E held \in Manifest : Entries(tab, p) = Own(p, held)
<1>1. CASE BlocksFor(tab, p) = {}
  <2>1. Entries(tab, p) = {}
    BY <1>1, BlockIsOwned DEF Entries, Holds
  <2> QED
    BY <2>1, NoJobsIsManifest DEF Own
<1>2. CASE BlocksFor(tab, p) # {}
  <2> DEFINE i == FirstBlock(tab, p)
  <2>1. i \in 1 .. Len(tab) /\ tab[i].owner = p /\ tab[i] \in Segment
    BY <1>2, FirstBlockIsBlock, BlockIsOwned
  <2> HIDE DEF i
  <2>2. Entries(tab, p) = {tab[i]}
    BY <2>1 DEF Entries, Holds, Unique
  <2>3. tab[i] = Block(p, tab[i].jobs) /\ tab[i].jobs \in Manifest
    BY <2>1 DEF Block, Segment
  <2>4. tab[i].jobs # NoJobs
    BY <2>1 DEF NoEmpty, Holds
  <2> QED
    BY <2>2, <2>3, <2>4 DEF Own
<1> QED
  BY <1>1, <1>2

(* A plan with nothing to do means a write that changes nothing.           *)
LEMMA NoopWritesSame ==
  ASSUME IdsApart, NEW tab \in Seq(Segment), Unique(tab), NoEmpty(tab),
         NEW p \in Projects, NEW m \in Manifest, AllNoop(StatusPlan(p, m, tab))
  PROVE  ReplaceBlock(tab, p, m) = tab
<1>1. PICK held \in Manifest : Entries(tab, p) = Own(p, held)
  BY OneEntry
<1>2. InspectedJobs(tab, p) = DesiredJobs(p, held)
  BY <1>1, InspectedIsHeld
<1>3. m = held
  BY <1>2, AllNoopIsSame DEF StatusPlan
<1>4. CASE BlocksFor(tab, p) = {}
  <2>1. Entries(tab, p) = {}
    BY <1>4, BlockIsOwned DEF Entries, Holds
  <2> QED
    BY <1>1, <1>3, <1>4, <2>1 DEF Own, ReplaceBlock
<1>5. CASE BlocksFor(tab, p) # {}
  <2> DEFINE i == FirstBlock(tab, p)
  <2>1. i \in 1 .. Len(tab) /\ tab[i].owner = p
    BY <1>5, FirstBlockIsBlock, BlockIsOwned
  <2>2. tab[i] \in Entries(tab, p)
    BY <2>1 DEF Entries, Holds
  <2>3. m # NoJobs /\ tab[i] = Block(p, m)
    BY <1>1, <1>3, <2>2 DEF Own
  <2> HIDE DEF i
  <2>4. [tab EXCEPT ![i] = Block(p, m)] = tab
    BY <2>1, <2>3
  <2> QED
    BY <1>5, <2>3, <2>4 DEF ReplaceBlock, ReplaceAt, i
<1> QED
  BY <1>4, <1>5


----------------------------------------------------------------------------
(* Overlapping invocations.  A write from a copy that is still the crontab *)
(* loses nothing of anybody else.                                          *)
LEMMA WhoWrites ==
  ASSUME Types, [Next]_vars, NEW c \in Procs, WritesTable(c)
  PROVE  /\ run[c].proj \in Projects /\ run[c].want \in Manifest
         /\ WriteCrontab(c) \/ RemoveBlock(c)
<1>0. /\ pc \in [Procs -> Labels] /\ run \in [Procs -> Run] /\ run[c].want \in Manifest
  BY DEF Types, TypeOK, Run
<1>1. run[c].proj \in Projects
  BY DEF WritesTable, Types, Working, Works
<1>2. CASE UNCHANGED vars
  BY <1>2 DEF vars, WritesTable
<1>3. CASE Environment
  BY <1>3 DEF Environment, EditManifest, AddLine, DeleteSegment, WritesTable
<1>4. ASSUME NEW d \in Procs,
             \/ \E p \in Projects : StartApply(d, p) \/ StartPrune(d, p)
             \/ Abort(d)
      PROVE  FALSE
  BY <1>0, <1>4 DEF StartApply, StartPrune, Start, Abort, Leave, WritesTable, Labels
<1>5. ASSUME NEW d \in Procs, Step(d)
      PROVE  WriteCrontab(c) \/ RemoveBlock(c)
  BY <1>0, <1>5 DEF Step, ApplyStep, PruneStep, CollectStatus, Leave, ReadCrontab,
     OpenWrapper, FillWrapper, WriteCrontab, OpenRecord, FillRecord, InspectBlock,
     RereadCrontab, RemoveBlock, UnlinkWrapper, DeleteRecord, WritesTable
<1> QED
  BY <1>0, <1>1, <1>2, <1>3, <1>4, <1>5 DEF Next

LEMMA WriteFromCopy ==
  ASSUME Types, [Next]_vars, NEW c \in Procs, WritesTable(c)
  PROVE  \/ crontab' = crontab
         \/ /\ run[c].manages
            /\ \E m \in Manifest :
                 crontab' = ReplaceBlock(run[c].tab, run[c].proj, m)
  BY WhoWrites, NoJobsIsManifest DEF WriteCrontab, RemoveBlock

(* Among any overlapping invocations, an invocation that writes the table  *)
(* it had read loses no entry of another project and no unmanaged line:    *)
(* only a stale copy can.                                                  *)
THEOREM FreshWritesKeep ==
  ASSUME IdsApart
  PROVE  Spec => FreshWriteKeepsOthers
<1> DEFINE Kept == \A c \in Procs : WritesTable(c) /\ run[c].tab = crontab =>
                     KeepsOthers(crontab, crontab', run[c].proj)
<1>1. Types /\ [Next]_vars => [Kept]_vars
  <2> SUFFICES ASSUME Types, [Next]_vars, NEW c \in Procs,
                      WritesTable(c), run[c].tab = crontab
               PROVE  KeepsOthers(crontab, crontab', run[c].proj)
    OBVIOUS
  <2>1. crontab \in Seq(Segment) /\ run[c].proj \in Projects
    BY WhoWrites DEF Types, TypeOK
  <2>2. CASE crontab' = crontab
    BY <2>1, <2>2, UnchangedKeepsOthers
  <2>3. CASE \E m \in Manifest : crontab' = ReplaceBlock(run[c].tab, run[c].proj, m)
    BY <2>1, <2>3, ReplaceKeepsOthers
  <2> QED
    BY <2>2, <2>3, WriteFromCopy
<1>2. []Types /\ [][Next]_vars => [][Kept]_vars
  BY <1>1, PTL
<1> QED
  BY <1>2, AlwaysTypes, PTL DEF Spec, FreshWriteKeepsOthers


----------------------------------------------------------------------------
(* Invocations one at a time, each alone with the crontab until it ends or *)
(* dies.  What the one at work holds, and what it has done to the files:   *)
(*   - its copy is still the crontab;                                      *)
(*   - a plan found empty stays a write that changes nothing;              *)
(*   - the wrappers it has rendered are filled, all before it writes;      *)
(*   - after the write its entry is the manifest's, or gone;               *)
(*   - prune unlinks wrappers of its own project alone.                    *)
Alone == \A c, d \in Procs : pc[c] # "idle" /\ pc[d] # "idle" => c = d

Holding(r, l, tab, wr) ==
  /\ l # "idle" => /\ r.want \in Manifests[r.proj] \cup {NoJobs}
                   /\ r.manages \in ManageChoices
  /\ l \in {"render", "remove"} /\ r.manages => r.tab = tab
  /\ l \in {"inspect", "reread", "remove"} => ~r.quiet
  /\ l \in {"read", "render"} /\ r.quiet => ReplaceBlock(tab, r.proj, r.want) = tab
  /\ l \in {"render", "save", "saving"} =>
       \A j \in Present(r.want) \ r.todo : wr[<<r.proj, j>>] = r.want[j].def
  /\ l \in {"save", "saving"} =>
       r.todo = {} /\ (r.manages => Entries(tab, r.proj) = Own(r.proj, r.want))
  /\ l \in {"reread", "remove", "unlink"} => r.todo \subseteq {r.proj} \X Jobs
  /\ l = "unlink" /\ r.manages => Entries(tab, r.proj) = {}

NoDangling(tab, wr) ==
  \A seg \in Holds(tab) : seg.owner \in Projects =>
    \A j \in Present(seg.jobs) : wr[<<seg.owner, j>>] # Absent

Sane(tab, wr) == /\ NoEmpty(tab)
                 /\ ManageChoices \subseteq {TRUE} => NoDangling(tab, wr)

SerialInv ==
  /\ \A p \in Projects : manifest[p] \in Manifests[p]
  /\ Alone
  /\ Sane(crontab, wrapper)
  /\ \A c \in Procs : Holding(run[c], pc[c], crontab, wrapper)

Invs == Types /\ OwnersOnce /\ SerialInv

LEMMA IdleHolds ==
  ASSUME NEW r, NEW tab, NEW wr
  PROVE  Holding(r, "idle", tab, wr)
  BY DEF Holding

LEMMA SerialInit == Init => SerialInv
<1> SUFFICES ASSUME Init PROVE SerialInv
  OBVIOUS
<1>1. \A seg \in Holds(crontab) : seg.owner \notin Projects
  <2>1. CASE crontab = <<>>
    BY <2>1 DEF Holds
  <2>2. ASSUME NEW u \in UserLines, crontab = <<Line(u)>>
        PROVE  \A seg \in Holds(crontab) : seg.owner \notin Projects
    BY <2>2, OwnersAreApart DEF Holds, Line
  <2> QED
    BY <2>1, <2>2 DEF Init
<1>2. /\ \A c \in Procs : pc[c] = "idle"
      /\ \A p \in Projects : manifest[p] \in Manifests[p]
  BY DEF Init
<1> QED
  BY <1>1, <1>2, IdleHolds DEF SerialInv, Alone, Sane, NoEmpty, NoDangling

(* A step of the one invocation at work.                                   *)
LEMMA SoloStep ==
  ASSUME Types, NEW c \in Procs, \A d \in Procs \ {c} : pc[d] = "idle",
         SerialInv, UNCHANGED manifest,
         NEW r, NEW l, pc' = [pc EXCEPT ![c] = l], run' = [run EXCEPT ![c] = r],
         Holding(r, l, crontab', wrapper'), Sane(crontab', wrapper')
  PROVE  SerialInv'
<1>1. /\ pc'[c] = l /\ run'[c] = r
      /\ \A d \in Procs \ {c} : pc'[d] = "idle"
  BY DEF Types, TypeOK
<1>2. Alone'
  BY <1>1 DEF Alone
<1>3. ASSUME NEW d \in Procs PROVE Holding(run'[d], pc'[d], crontab', wrapper')
  BY <1>1, IdleHolds
<1> QED
  BY <1>2, <1>3 DEF SerialInv

(* What is known of the one at work before its step.                       *)
LEMMA AtWork ==
  ASSUME Invs, NEW c \in Procs, pc[c] # "idle"
  PROVE  /\ \A d \in Procs \ {c} : pc[d] = "idle"
         /\ run[c] \in Run /\ run[c].want \in Manifest /\ run[c].proj \in Projects
         /\ run \in [Procs -> Run] /\ pc \in [Procs -> Labels]
         /\ wrapper \in [Ids -> Defs \cup {Absent, Torn}]
         /\ crontab \in Seq(Segment) /\ Unique(crontab) /\ Unique(run[c].tab)
         /\ Sane(crontab, wrapper) /\ NoEmpty(crontab)
         /\ Holding(run[c], pc[c], crontab, wrapper)
<1>1. run[c] \in Run /\ run[c].want \in Manifest /\ run[c].proj \in Projects
  BY DEF Invs, Types, TypeOK, Run, Working, Works
<1> QED
  BY <1>1 DEF Invs, Types, TypeOK, OwnersOnce, SerialInv, Alone, Sane

(* Leaving, at the end or in death, leaves nothing to be known.            *)
LEMMA LeaveSerial ==
  ASSUME Invs, NEW c \in Procs, pc[c] # "idle", Leave(c),
         UNCHANGED <<manifest, crontab, wrapper>>
  PROVE  SerialInv'
  BY AtWork, IdleHolds, SoloStep DEF Leave, Invs

(* What a write leaves in the crontab.                                     *)
LEMMA WriteFacts ==
  ASSUME IdsApart, NEW tab \in Seq(Segment), Unique(tab), NoEmpty(tab),
         NEW p \in Projects, NEW m \in Manifest
  PROVE  LET new == ReplaceBlock(tab, p, m)
         IN  /\ NoEmpty(new)
             /\ Entries(new, p) = Own(p, m)
             /\ \A seg \in Holds(new) : seg.owner = p \/ seg \in Holds(tab)
<1>1. Block(p, m).owner = p /\ Block(p, m).jobs = m
  BY DEF Block
<1> QED
  BY <1>1, ReplaceBlockFacts DEF NoEmpty, Entries, Own

LEMMA StartSerial ==
  ASSUME Invs, Exclusive, NEW c \in Procs, NEW p \in Projects,
         StartApply(c, p) \/ StartPrune(c, p)
  PROVE  SerialInv'
<1>1. PICK m \in Manifests[p] \cup {NoJobs}, l \in {"status", "inspect"} :
        Start(c, p, m, l)
  <2>1. \A q \in Projects : manifest[q] \in Manifests[q]
    BY DEF Invs, SerialInv
  <2> QED
    BY <2>1 DEF StartApply, StartPrune
<1>2. PICK b \in ManageChoices :
        run' = [run EXCEPT ![c] = [Idle EXCEPT !.proj = p, !.want = m, !.manages = b]]
  BY <1>1 DEF Start
<1> DEFINE r == [Idle EXCEPT !.proj = p, !.want = m, !.manages = b]
<1>3. r.proj = p /\ r.want = m /\ r.manages = b /\ ~r.quiet
  BY DEF Idle
<1>4. Holding(r, l, crontab, wrapper)
  BY <1>3 DEF Holding
<1>5. /\ \A d \in Procs : pc[d] = "idle"
      /\ pc' = [pc EXCEPT ![c] = l] /\ UNCHANGED <<manifest, crontab, wrapper>>
  BY <1>1 DEF Start, MayTouchCrontab, AllIdle
<1> HIDE DEF r
<1> QED
  BY <1>2, <1>4, <1>5, SoloStep DEF r, Invs, SerialInv


LEMMA CollectSerial ==
  ASSUME IdsApart, Invs, NEW c \in Procs, CollectStatus(c)
  PROVE  SerialInv'
<1>1. pc[c] = "status" /\ UNCHANGED <<manifest, crontab, wrapper>>
  BY DEF CollectStatus
<1>2. CASE ScheduleErrors(run[c].want) # {}
  BY <1>1, <1>2, LeaveSerial DEF CollectStatus
<1>3. CASE ScheduleErrors(run[c].want) = {}
  <2> DEFINE b == AllNoop(StatusPlan(run[c].proj, run[c].want, crontab))
             r == [run[c] EXCEPT !.quiet = b]
  <2>1. /\ run' = [run EXCEPT ![c].quiet = b]
        /\ pc' = [pc EXCEPT ![c] = "read"]
    BY <1>3 DEF CollectStatus
  <2>2. b => ReplaceBlock(crontab, run[c].proj, run[c].want) = crontab
    BY <1>1, AtWork, NoopWritesSame
  <2> HIDE DEF b
  <2>3. /\ r.proj = run[c].proj /\ r.want = run[c].want /\ r.manages = run[c].manages
        /\ r.quiet = b /\ run' = [run EXCEPT ![c] = r]
    BY <1>1, <2>1, AtWork DEF Run
  <2> HIDE DEF r
  <2>4. Holding(r, "read", crontab, wrapper)
    BY <1>1, <2>2, <2>3, AtWork DEF Holding
  <2> QED
    BY <1>1, <2>1, <2>3, <2>4, AtWork, SoloStep DEF Invs
<1> QED
  BY <1>2, <1>3

LEMMA ReadSerial ==
  ASSUME Invs, NEW c \in Procs, ReadCrontab(c)
  PROVE  SerialInv'
<1> DEFINE r == [run[c] EXCEPT !.tab = IF run[c].manages THEN crontab ELSE <<>>,
                               !.todo = Present(run[c].want)]
<1>1. /\ pc[c] = "read" /\ pc' = [pc EXCEPT ![c] = "render"]
      /\ UNCHANGED <<manifest, crontab, wrapper>>
  BY DEF ReadCrontab
<1>2. /\ r.proj = run[c].proj /\ r.want = run[c].want /\ r.manages = run[c].manages
      /\ r.quiet = run[c].quiet /\ r.todo = Present(r.want)
      /\ (r.manages => r.tab = crontab) /\ run' = [run EXCEPT ![c] = r]
  BY <1>1, AtWork DEF Run, ReadCrontab
<1> HIDE DEF r
<1>3. Holding(r, "render", crontab, wrapper)
  BY <1>1, <1>2, AtWork DEF Holding
<1> QED
  BY <1>1, <1>2, <1>3, AtWork, SoloStep DEF Invs

LEMMA PutWrapper ==
  ASSUME NEW tab \in Seq(Segment), NEW wr \in [Ids -> Defs \cup {Absent, Torn}],
         Sane(tab, wr), NEW id, NEW v, v # Absent
  PROVE  Sane(tab, [wr EXCEPT ![id] = v])
<1>1. ASSUME NEW seg \in Holds(tab), seg.owner \in Projects, NEW j \in Present(seg.jobs)
      PROVE  <<seg.owner, j>> \in Ids
  <2>1. seg \in Segment
    BY DEF Holds
  <2> QED
    BY <1>1, <2>1, PresentAreJobs DEF Ids, Segment
<1> QED
  BY <1>1 DEF Sane, NoDangling

(* A wrapper that is truncated, or filled, is no longer absent, and is one *)
(* of the project's own: what was filled before stays filled.              *)
LEMMA OpenSerial ==
  ASSUME Invs, NEW c \in Procs, NEW j \in Jobs, OpenWrapper(c, j)
  PROVE  SerialInv'
<1> DEFINE r == [run[c] EXCEPT !.open = j]
<1>1. /\ pc[c] = "render" /\ pc' = [pc EXCEPT ![c] = "render"] /\ j \in run[c].todo
      /\ wrapper' = [wrapper EXCEPT ![<<run[c].proj, j>>] = Torn]
      /\ UNCHANGED <<manifest, crontab>>
  BY DEF OpenWrapper, Invs, Types, TypeOK
<1>2. /\ r.proj = run[c].proj /\ r.want = run[c].want /\ r.manages = run[c].manages
      /\ r.quiet = run[c].quiet /\ r.todo = run[c].todo /\ r.tab = run[c].tab
      /\ run' = [run EXCEPT ![c] = r]
  BY <1>1, AtWork DEF Run, OpenWrapper
<1> HIDE DEF r
<1>3. \A k \in Present(r.want) \ r.todo : wrapper'[<<r.proj, k>>] = wrapper[<<r.proj, k>>]
  BY <1>1, <1>2, AtWork
<1>4. Holding(r, "render", crontab', wrapper')
  BY <1>1, <1>2, <1>3, AtWork DEF Holding
<1>5. Sane(crontab', wrapper')
  BY <1>1, AtWork, PutWrapper, AbsentIsNoJob
<1> QED
  BY <1>1, <1>2, <1>4, <1>5, AtWork, SoloStep DEF Invs

LEMMA FillSerial ==
  ASSUME Invs, NEW c \in Procs, NEW j \in Jobs, FillWrapper(c, j)
  PROVE  SerialInv'
<1> DEFINE r == [run[c] EXCEPT !.open = Absent, !.todo = @ \ {j}]
           w == run[c].want[j].def
<1>1. /\ pc[c] = "render" /\ pc' = [pc EXCEPT ![c] = "render"] /\ run[c].open = j
      /\ wrapper' = [wrapper EXCEPT ![<<run[c].proj, j>>] = w]
      /\ UNCHANGED <<manifest, crontab>>
  BY DEF FillWrapper, Invs, Types, TypeOK
<1>2. /\ r.proj = run[c].proj /\ r.want = run[c].want /\ r.manages = run[c].manages
      /\ r.quiet = run[c].quiet /\ r.todo = run[c].todo \ {j} /\ r.tab = run[c].tab
      /\ run' = [run EXCEPT ![c] = r]
  BY <1>1, AtWork DEF Run, FillWrapper
<1> HIDE DEF r
<1>3. j \in Present(run[c].want) /\ w \in Defs
  <2>1. j \in Present(run[c].want) \cup {Absent}
    BY <1>1 DEF Invs, Types, Working, Works
  <2> QED
    BY <1>1, <2>1, AtWork, PresentAreJobs, AbsentIsNoJob
<1>4. \A k \in Present(r.want) \ r.todo :
        wrapper'[<<r.proj, k>>] = r.want[k].def
  <2>1. \A k \in Present(run[c].want) \ run[c].todo :
          wrapper[<<run[c].proj, k>>] = run[c].want[k].def
    BY <1>1, AtWork DEF Holding
  <2>2. \A k \in Jobs : <<run[c].proj, k>> \in Ids
    BY <1>1, AtWork DEF Ids
  <2>3. Present(run[c].want) \subseteq Jobs
    BY <1>1, AtWork, PresentAreJobs
  <2> QED
    BY <1>1, <1>2, <2>1, <2>2, <2>3, AtWork
<1>5. Holding(r, "render", crontab', wrapper')
  BY <1>1, <1>2, <1>4, AtWork DEF Holding
<1>6. Sane(crontab', wrapper')
  <2>1. w # Absent
    BY <1>3, AbsentIsNoJob
  <2> HIDE DEF w
  <2> QED
    BY <1>1, <2>1, AtWork, PutWrapper
<1> QED
  BY <1>1, <1>2, <1>5, <1>6, AtWork, SoloStep DEF Invs

LEMMA WriteSerial ==
  ASSUME IdsApart, Invs, NEW c \in Procs, WriteCrontab(c)
  PROVE  SerialInv'
<1> DEFINE r == [run[c] EXCEPT !.tab = <<>>, !.quiet = FALSE]
           p == run[c].proj
           m == run[c].want
<1>1. /\ pc[c] = "render" /\ pc' = [pc EXCEPT ![c] = "save"] /\ run[c].todo = {}
      /\ UNCHANGED <<manifest, wrapper>>
  BY DEF WriteCrontab
<1>2. /\ r.proj = p /\ r.want = m /\ r.manages = run[c].manages
      /\ r.todo = {} /\ run' = [run EXCEPT ![c] = r]
  BY <1>1, AtWork DEF Run, WriteCrontab
<1> HIDE DEF r
<1>3. \A j \in Present(m) : wrapper[<<p, j>>] = m[j].def /\ m[j].def \in Defs
  BY <1>1, AtWork, PresentAreJobs DEF Holding
<1>4. CASE ~run[c].manages
  <2>1. crontab' = crontab
    BY <1>4 DEF WriteCrontab
  <2>2. Holding(r, "save", crontab', wrapper')
    BY <1>1, <1>2, <1>3, <1>4, AtWork DEF Holding
  <2>3. Sane(crontab', wrapper')
    BY <1>1, <2>1, AtWork
  <2> QED
    BY <1>1, <1>2, <2>2, <2>3, AtWork, SoloStep DEF Invs
<1>5. CASE run[c].manages
  <2>1. crontab' = ReplaceBlock(crontab, p, m)
    BY <1>1, <1>5, AtWork DEF WriteCrontab, Holding
  <2>2. /\ NoEmpty(crontab') /\ Entries(crontab', p) = Own(p, m)
        /\ \A seg \in Holds(crontab') : seg.owner = p \/ seg \in Holds(crontab)
    BY <1>1, <2>1, AtWork, WriteFacts
  <2>3. Holding(r, "save", crontab', wrapper')
    BY <1>1, <1>2, <1>3, <1>5, <2>2, AtWork DEF Holding
  <2>4. ASSUME NEW seg \in Holds(crontab'), seg.owner = p, NEW j \in Present(seg.jobs)
        PROVE  wrapper'[<<seg.owner, j>>] # Absent
    <3>1. seg \in Own(p, m)
      BY <2>2, <2>4 DEF Entries
    <3>2. seg.jobs = m
      BY <3>1 DEF Own, Block
    <3> QED
      BY <1>1, <1>3, <2>4, <3>2, AbsentIsNoJob
  <2>5. ManageChoices \subseteq {TRUE} => NoDangling(crontab', wrapper')
    BY <1>1, <2>2, <2>4, AtWork DEF Sane, NoDangling
  <2> QED
    BY <1>1, <1>2, <2>2, <2>3, <2>5, AtWork, SoloStep DEF Invs, Sane
<1> QED
  BY <1>4, <1>5

LEMMA OpenRecordSerial ==
  ASSUME Invs, NEW c \in Procs, OpenRecord(c)
  PROVE  SerialInv'
<1>1. /\ pc[c] = "save" /\ pc' = [pc EXCEPT ![c] = "saving"]
      /\ UNCHANGED <<manifest, crontab, wrapper, run>>
  BY DEF OpenRecord
<1>2. run' = [run EXCEPT ![c] = run[c]]
  BY <1>1, AtWork
<1>3. Holding(run[c], "saving", crontab, wrapper)
  BY <1>1, AtWork DEF Holding
<1> QED
  BY <1>1, <1>2, <1>3, AtWork, SoloStep DEF Invs

(* Prune reads the table twice, to list its jobs and to write.             *)
LEMMA InspectSerial ==
  ASSUME IdsApart, Invs, NEW c \in Procs, InspectBlock(c)
  PROVE  SerialInv'
<1> DEFINE p == run[c].proj
           listed == Present(InspectedJobs(crontab, p))
           r == [run[c] EXCEPT !.todo = listed]
<1>1. /\ pc[c] = "inspect" /\ pc' = [pc EXCEPT ![c] = "reread"]
      /\ run' = [run EXCEPT ![c].todo = listed]
      /\ UNCHANGED <<manifest, crontab, wrapper>>
  BY DEF InspectBlock
<1>2. listed \subseteq {p} \X Jobs
  <2>1. PICK held \in Manifest : Entries(crontab, p) = Own(p, held)
    BY <1>1, AtWork, OneEntry
  <2>2. InspectedJobs(crontab, p) = DesiredJobs(p, held)
    BY <1>1, <2>1, AtWork, InspectedIsHeld
  <2>3. \A id \in Present(DesiredJobs(p, held)) : id \in Ids /\ id[1] = p
    BY DEF Present, DesiredJobs
  <2> QED
    BY <2>2, <2>3 DEF Ids
<1> HIDE DEF listed
<1>3. /\ r.proj = p /\ r.want = run[c].want /\ r.manages = run[c].manages
      /\ r.quiet = run[c].quiet /\ r.todo = listed /\ run' = [run EXCEPT ![c] = r]
  BY <1>1, AtWork DEF Run
<1> HIDE DEF r
<1>4. Holding(r, "reread", crontab, wrapper)
  BY <1>1, <1>2, <1>3, AtWork DEF Holding
<1> QED
  BY <1>1, <1>3, <1>4, AtWork, SoloStep DEF Invs

LEMMA RereadSerial ==
  ASSUME Invs, NEW c \in Procs, RereadCrontab(c)
  PROVE  SerialInv'
<1> DEFINE r == [run[c] EXCEPT !.tab = crontab]
<1>1. /\ pc[c] = "reread" /\ pc' = [pc EXCEPT ![c] = "remove"]
      /\ UNCHANGED <<manifest, crontab, wrapper>>
  BY DEF RereadCrontab
<1>2. /\ r.proj = run[c].proj /\ r.want = run[c].want /\ r.manages = run[c].manages
      /\ r.quiet = run[c].quiet /\ r.todo = run[c].todo /\ r.tab = crontab
      /\ run' = [run EXCEPT ![c] = r]
  BY <1>1, AtWork DEF Run, RereadCrontab
<1> HIDE DEF r
<1>3. Holding(r, "remove", crontab, wrapper)
  BY <1>1, <1>2, AtWork DEF Holding
<1> QED
  BY <1>1, <1>2, <1>3, AtWork, SoloStep DEF Invs

LEMMA RemoveSerial ==
  ASSUME IdsApart, Invs, NEW c \in Procs, RemoveBlock(c)
  PROVE  SerialInv'
<1> DEFINE r == [run[c] EXCEPT !.tab = <<>>]
           p == run[c].proj
<1>1. /\ pc[c] = "remove" /\ pc' = [pc EXCEPT ![c] = "unlink"]
      /\ UNCHANGED <<manifest, wrapper>>
  BY DEF RemoveBlock
<1>2. /\ r.proj = p /\ r.want = run[c].want /\ r.manages = run[c].manages
      /\ r.todo = run[c].todo /\ run' = [run EXCEPT ![c] = r]
  BY <1>1, AtWork DEF Run, RemoveBlock
<1> HIDE DEF r
<1>3. CASE ~run[c].manages
  <2>1. crontab' = crontab
    BY <1>3 DEF RemoveBlock
  <2>2. Holding(r, "unlink", crontab', wrapper')
    BY <1>1, <1>2, <1>3, AtWork DEF Holding
  <2> QED
    BY <1>1, <1>2, <2>1, <2>2, AtWork, SoloStep DEF Invs
<1>4. CASE run[c].manages
  <2>1. crontab' = ReplaceBlock(crontab, p, NoJobs)
    BY <1>1, <1>4, AtWork DEF RemoveBlock, Holding
  <2>2. /\ NoEmpty(crontab') /\ Entries(crontab', p) = {}
        /\ \A seg \in Holds(crontab') : seg.owner = p \/ seg \in Holds(crontab)
    BY <1>1, <2>1, AtWork, WriteFacts, NoJobsIsManifest DEF Own
  <2>3. Holding(r, "unlink", crontab', wrapper')
    BY <1>1, <1>2, <1>4, <2>2, AtWork DEF Holding
  <2>4. Holds(crontab') \subseteq Holds(crontab)
    BY <2>2 DEF Entries
  <2>5. Sane(crontab', wrapper')
    BY <1>1, <2>2, <2>4, AtWork DEF Sane, NoDangling
  <2> QED
    BY <1>1, <1>2, <2>3, <2>5, AtWork, SoloStep DEF Invs
<1> QED
  BY <1>3, <1>4

LEMMA UnlinkSerial ==
  ASSUME Invs, NEW c \in Procs, UnlinkWrapper(c)
  PROVE  SerialInv'
<1>1. /\ pc[c] = "unlink" /\ pc' = [pc EXCEPT ![c] = "unlink"]
      /\ UNCHANGED <<manifest, crontab>>
  BY DEF UnlinkWrapper, Invs, Types, TypeOK
<1>2. PICK id \in run[c].todo :
        /\ wrapper' = [wrapper EXCEPT ![id] = Absent]
        /\ run' = [run EXCEPT ![c].todo = run[c].todo \ {id}]
  BY <1>1, AtWork DEF UnlinkWrapper
<1> DEFINE r == [run[c] EXCEPT !.todo = run[c].todo \ {id}]
<1>3. /\ r.proj = run[c].proj /\ r.want = run[c].want /\ r.manages = run[c].manages
      /\ r.todo \subseteq run[c].todo /\ run' = [run EXCEPT ![c] = r]
  BY <1>1, <1>2, AtWork DEF Run
<1> HIDE DEF r
<1>4. id[1] = run[c].proj
  BY <1>1, <1>2, AtWork DEF Holding
<1>5. Holding(r, "unlink", crontab', wrapper')
  BY <1>1, <1>3, AtWork DEF Holding
<1>6. ASSUME ManageChoices \subseteq {TRUE} PROVE NoDangling(crontab', wrapper')
  <2>1. Entries(crontab, run[c].proj) = {}
    BY <1>1, <1>6, AtWork DEF Holding
  <2>2. ASSUME NEW seg \in Holds(crontab), seg.owner \in Projects,
               NEW j \in Present(seg.jobs)
        PROVE  wrapper'[<<seg.owner, j>>] # Absent
    <3>1. seg.owner # id[1]
      BY <1>4, <2>1 DEF Entries
    <3>2. <<seg.owner, j>> # id
      BY <3>1
    <3>3. wrapper[<<seg.owner, j>>] # Absent
      BY <1>1, <1>6, <2>2, AtWork DEF Sane, NoDangling
    <3>4. seg \in Segment
      BY <1>1, AtWork DEF Holds
    <3>5. <<seg.owner, j>> \in Ids
      BY <2>2, <3>4, PresentAreJobs DEF Ids, Segment
    <3> QED
      BY <1>1, <1>2, <3>2, <3>3, <3>5, AtWork
  <2> QED
    BY <1>1, <2>2 DEF NoDangling
<1> QED
  BY <1>1, <1>3, <1>5, <1>6, AtWork, SoloStep DEF Invs, Sane


(* A table edited by its user, between invocations.                        *)
LEMMA TableEdited ==
  ASSUME Invs, Exclusive, MayTouchCrontab, UNCHANGED <<manifest, wrapper, pc, run>>,
         NoEmpty(crontab'),
         \A seg \in Holds(crontab') : seg.owner \notin Projects \/ seg \in Holds(crontab)
  PROVE  SerialInv'
<1>1. \A c \in Procs : pc[c] = "idle"
  BY DEF MayTouchCrontab, AllIdle
<1>2. Sane(crontab', wrapper')
  BY DEF Invs, SerialInv, Sane, NoDangling
<1>3. Alone' /\ \A p \in Projects : manifest'[p] \in Manifests[p]
  BY DEF Invs, SerialInv, Alone
<1>4. \A c \in Procs : Holding(run'[c], pc'[c], crontab', wrapper')
  BY <1>1, IdleHolds
<1> QED
  BY <1>2, <1>3, <1>4 DEF SerialInv

LEMMA SerialNext ==
  ASSUME IdsApart, Exclusive
  PROVE  Invs /\ [Next]_vars => SerialInv'
<1> SUFFICES ASSUME Invs, [Next]_vars PROVE SerialInv'
  OBVIOUS
<1>0. /\ crontab \in Seq(Segment) /\ Unique(crontab) /\ NoEmpty(crontab)
      /\ SerialInv /\ manifest \in [Projects -> Manifest]
  BY DEF Invs, Types, TypeOK, OwnersOnce, SerialInv, Sane
<1>1. CASE UNCHANGED vars
  BY <1>0, <1>1 DEF vars, SerialInv, Alone
<1>2. ASSUME NEW p \in Projects, EditManifest(p) PROVE SerialInv'
  <2>1. PICK m \in Manifests[p] : manifest' = [manifest EXCEPT ![p] = m]
    BY <1>2 DEF EditManifest
  <2>2. \A q \in Projects : manifest'[q] \in Manifests[q]
    BY <1>0, <2>1 DEF SerialInv
  <2> QED
    BY <1>0, <1>2, <2>2 DEF EditManifest, SerialInv, Alone
<1>3. ASSUME NEW u \in UserLines, AddLine(u) PROVE SerialInv'
  <2>1. Line(u) \in Segment /\ Line(u).owner = u /\ u \notin Projects
    BY NoJobsIsManifest, OwnersAreApart DEF Line, Segment
  <2>2. \A seg \in Holds(crontab) : seg.owner # u
    BY <1>3 DEF AddLine, Holds
  <2>3. Holds(crontab') = Holds(crontab) \cup {Line(u)}
    BY <1>0, <1>3, <2>1, <2>2, AppendKeepsUnique DEF AddLine
  <2>4. NoEmpty(crontab')
    BY <1>0, <2>1, <2>3 DEF NoEmpty
  <2> QED
    BY <1>3, <2>1, <2>3, <2>4, TableEdited DEF AddLine
<1>4. ASSUME NEW i \in 1 .. Len(crontab), DeleteSegment(i) PROVE SerialInv'
  <2>1. Holds(crontab') = Holds(crontab) \ {crontab[i]}
    BY <1>0, <1>4, RemoveKeepsUnique DEF DeleteSegment
  <2>2. NoEmpty(crontab')
    BY <1>0, <2>1 DEF NoEmpty
  <2> QED
    BY <1>4, <2>1, <2>2, TableEdited DEF DeleteSegment
<1>5. ASSUME NEW c \in Procs, NEW p \in Projects,
             StartApply(c, p) \/ StartPrune(c, p)
      PROVE  SerialInv'
  BY <1>5, StartSerial
<1>6. ASSUME NEW c \in Procs, Abort(c) \/ FillRecord(c) \/ DeleteRecord(c)
      PROVE  SerialInv'
  BY <1>6, LeaveSerial DEF Abort, FillRecord, DeleteRecord
<1>7. ASSUME NEW c \in Procs, Step(c) PROVE SerialInv'
  BY <1>6, <1>7, CollectSerial, ReadSerial, OpenSerial, FillSerial, WriteSerial,
     OpenRecordSerial, InspectSerial, RereadSerial, RemoveSerial, UnlinkSerial
  DEF Step, ApplyStep, PruneStep
<1> QED
  BY <1>1, <1>2, <1>3, <1>4, <1>5, <1>6, <1>7 DEF Next, Environment

LEMMA AlwaysSerial ==
  ASSUME IdsApart, Exclusive
  PROVE  Spec => []Invs
<1>1. Init => Invs
  BY InitTypes, InitOwners, SerialInit DEF Invs
<1>2. Invs /\ [Next]_vars => Invs'
  BY StepTypes, StepOwners, SerialNext DEF Invs
<1> QED
  BY <1>1, <1>2, PTL DEF Spec

(* With the crontab to itself, and managing it, an invocation leaves no    *)
(* entry without a wrapper file to run, wherever it dies: wrappers come    *)
(* before entries in apply (cron.py), entries go before wrappers in prune. *)
THEOREM EntriesHaveWrappers ==
  ASSUME IdsApart, Exclusive, ManageChoices = {TRUE}
  PROVE  Spec => []NoDanglingEntry
<1>1. Invs => NoDanglingEntry
  BY DEF Invs, SerialInv, Sane, NoDangling, NoDanglingEntry, Holds
<1>2. Spec => []Invs
  BY AlwaysSerial
<1> QED
  BY <1>1, <1>2, PTL

(* With the crontab to itself, an invocation that writes one project's     *)
(* block keeps every other project's and every unmanaged line in place.    *)
THEOREM WritesKeep ==
  ASSUME IdsApart, Exclusive
  PROVE  Spec => WriteKeepsOthers
<1> DEFINE Kept == \A c \in Procs : WritesTable(c) =>
                     KeepsOthers(crontab, crontab', run[c].proj)
<1>1. Invs /\ [Next]_vars => [Kept]_vars
  <2> SUFFICES ASSUME Invs, [Next]_vars, NEW c \in Procs, WritesTable(c)
               PROVE  KeepsOthers(crontab, crontab', run[c].proj)
    OBVIOUS
  <2>1. Types /\ pc[c] \in {"render", "remove"}
    BY DEF Invs, WritesTable
  <2>2. crontab \in Seq(Segment) /\ run[c].proj \in Projects
    BY <2>1, AtWork
  <2>3. CASE crontab' = crontab
    BY <2>2, <2>3, UnchangedKeepsOthers
  <2>4. ASSUME run[c].manages, NEW m \in Manifest,
               crontab' = ReplaceBlock(run[c].tab, run[c].proj, m)
        PROVE  KeepsOthers(crontab, crontab', run[c].proj)
    <3>1. run[c].tab = crontab
      BY <2>1, <2>4, AtWork DEF Holding
    <3> QED
      BY <2>2, <2>4, <3>1, ReplaceKeepsOthers
  <2> QED
    BY <2>1, <2>3, <2>4, WriteFromCopy
<1>2. []Invs /\ [][Next]_vars => [][Kept]_vars
  BY <1>1, PTL
<1>3. Spec => []Invs
  BY AlwaysSerial
<1> QED
  BY <1>2, <1>3, PTL DEF Spec, WriteKeepsOthers


(* With the crontab to itself, an apply whose plan was found empty writes  *)
(* back the very table it read: repeated applies are idempotent.           *)
THEOREM NoopsAreInert ==
  ASSUME IdsApart, Exclusive
  PROVE  Spec => NoopApplyIsInert
<1> DEFINE Inert == \A c \in Procs : run[c].quiet /\ WritesTable(c) => UNCHANGED crontab
<1>1. Invs /\ [Next]_vars => [Inert]_vars
  <2> SUFFICES ASSUME Invs, [Next]_vars, NEW c \in Procs, run[c].quiet, WritesTable(c)
               PROVE  crontab' = crontab
    OBVIOUS
  <2>1. pc[c] \in {"render", "remove"}
    BY DEF WritesTable
  <2>2. Holding(run[c], pc[c], crontab, wrapper)
    BY <2>1, AtWork
  <2>3. pc[c] = "render" /\ ReplaceBlock(crontab, run[c].proj, run[c].want) = crontab
    BY <2>1, <2>2 DEF Holding
  <2>4. run[c].manages => run[c].tab = crontab
    BY <2>2, <2>3 DEF Holding
  <2>5. WriteCrontab(c)
    BY <2>3, WhoWrites DEF Invs, RemoveBlock
  <2> QED
    BY <2>3, <2>4, <2>5 DEF WriteCrontab
<1>2. []Invs /\ [][Next]_vars => [][Inert]_vars
  BY <1>1, PTL
<1>3. Spec => []Invs
  BY AlwaysSerial
<1> QED
  BY <1>2, <1>3, PTL DEF Spec, NoopApplyIsInert

(* The step that completes the record of an apply is the last one of it.   *)
LEMMA WhoRecords ==
  ASSUME Invs, [Next]_vars, NEW c \in Procs, pc[c] = "saving", record' # record
  PROVE  FillRecord(c)
<1>1. \A d \in Procs : pc[d] # "idle" => d = c
  BY AtWork
<1>2. record' # record => \E d \in Procs : OpenRecord(d) \/ FillRecord(d) \/ DeleteRecord(d)
  BY DEF Next, vars, Environment, EditManifest, AddLine, DeleteSegment,
     StartApply, StartPrune, Start, Abort, Leave, Step, ApplyStep, PruneStep,
     CollectStatus, ReadCrontab, OpenWrapper, FillWrapper, WriteCrontab,
     InspectBlock, RereadCrontab, RemoveBlock, UnlinkWrapper
<1> QED
  BY <1>1, <1>2 DEF OpenRecord, FillRecord, DeleteRecord

(* An apply that has the crontab to itself and runs to its end leaves      *)
(* nothing to do, whatever half-done invocations came before it: the       *)
(* crontab, the state file and the wrappers all are its manifest's.        *)
THEOREM AppliesConverge ==
  ASSUME IdsApart, Exclusive
  PROVE  Spec => ApplyConverges
<1> DEFINE Settles ==
      \A c \in Procs, p \in Projects :
        \A m \in Manifests[p] :
          /\ pc[c] = "saving"
          /\ run[c].proj = p /\ run[c].want = m /\ run[c].manages
          /\ record'[p] # record[p]
          => Converged(p, m)'
<1>1. Invs /\ [Next]_vars => [Settles]_vars
  <2> SUFFICES ASSUME Invs, [Next]_vars, NEW c \in Procs, NEW p \in Projects,
                      NEW m \in Manifests[p], pc[c] = "saving",
                      run[c].proj = p, run[c].want = m, run[c].manages,
                      record'[p] # record[p]
               PROVE  Converged(p, m)'
    OBVIOUS
  <2>1. /\ m \in Manifest /\ record \in [Projects -> Manifest \cup {Absent, Torn}]
        /\ crontab \in Seq(Segment) /\ Unique(crontab)
    BY AtWork, ManifestsAssumption DEF Invs, Types, TypeOK
  <2>2. FillRecord(c)
    BY WhoRecords
  <2>3. UNCHANGED <<crontab, wrapper>> /\ record'[p] = m
    BY <2>1, <2>2 DEF FillRecord
  <2>4. /\ Entries(crontab, p) = Own(p, m)
        /\ \A j \in Present(m) : wrapper[<<p, j>>] = m[j].def
    BY AtWork DEF Holding
  <2>5. AllNoop(StatusPlan(p, m, crontab))
    BY <2>1, <2>4, InspectedIsHeld, AllNoopIsSame DEF StatusPlan
  <2>6. RecordedJobs(p)' = DesiredJobs(p, m)
    BY <2>1, <2>3, AbsentIsNoJob DEF RecordedJobs, DesiredJobs
  <2>7. AllNoop(RecordPlan(p, m))'
    <3> DEFINE plan == BuildPlan(DesiredJobs(p, m),
                                 DeployedJobs(DesiredJobs(p, m), "cron"), "cron")
    <3>1. AllNoop(plan)
      BY <2>1, AllNoopIsSame
    <3>2. RecordPlan(p, m)' = plan
      BY <2>6 DEF RecordPlan
    <3> HIDE DEF plan
    <3> QED
      BY <3>1, <3>2 DEF AllNoop
  <2> QED
    BY <2>3, <2>4, <2>5, <2>7 DEF Converged, StatusPlan, InspectedJobs, DesiredJobs
<1>2. []Invs /\ [][Next]_vars => [][Settles]_vars
  BY <1>1, PTL
<1>3. Spec => []Invs
  BY AlwaysSerial
<1> QED
  BY <1>2, <1>3, PTL DEF Spec, ApplyConverges


----------------------------------------------------------------------------
(* The promise of ScheduleTable: of a table without an owner twice, the    *)
(* jobs of a project are those of its one entry.                           *)
Installed(tab) == [p \in Projects |-> JobsInTable(tab, p)]

LEMMA JobsAreHeld ==
  ASSUME NEW tab \in Seq(Segment), Unique(tab), NEW p \in Projects,
         NEW held \in Manifest, Entries(tab, p) = Own(p, held)
  PROVE  JobsInTable(tab, p) = held
<1> DEFINE own == {i \in 1 .. Len(tab) : tab[i].owner = p}
<1>1. \A i \in own : tab[i] \in Own(p, held)
  BY DEF Entries, Holds
<1>2. CASE own = {}
  <2>1. Own(p, held) = {}
    BY <1>2 DEF Entries, Holds
  <2> QED
    BY <1>2, <2>1 DEF Own, JobsInTable
<1>3. CASE own # {}
  <2>1. (CHOOSE i \in own : TRUE) \in own
    BY <1>3
  <2>2. \A i \in own : tab[i].jobs = held
    BY <1>1 DEF Own, Block
  <2> HIDE DEF own
  <2>3. tab[CHOOSE i \in own : TRUE].jobs = held
    BY <2>1, <2>2
  <2> QED
    BY <1>3, <2>3 DEF JobsInTable, own
<1> QED
  BY <1>2, <1>3

LEMMA SameEntriesSameJobs ==
  ASSUME IdsApart, NEW tab \in Seq(Segment), Unique(tab), NoEmpty(tab),
         NEW new \in Seq(Segment), Unique(new), NEW p \in Projects,
         Entries(new, p) = Entries(tab, p)
  PROVE  JobsInTable(new, p) = JobsInTable(tab, p)
<1>1. PICK held \in Manifest : Entries(tab, p) = Own(p, held)
  BY OneEntry
<1> QED
  BY <1>1, JobsAreHeld

LEMMA LinesAreHeld ==
  ASSUME NEW tab
  PROVE  LinesIn(tab) = {u \in UserLines : \E seg \in Holds(tab) : seg.owner = u}
  BY DEF LinesIn, Holds

(* A table in which one project's block is replaced, or gone: that project *)
(* is reinstalled as a whole, and nobody else is touched.                  *)
LEMMA InstallsOne ==
  ASSUME IdsApart, NEW tab \in Seq(Segment), Unique(tab), NoEmpty(tab),
         NEW new \in Seq(Segment), Unique(new), NEW p \in Projects, NEW m \in Manifest,
         Holds(new) = {seg \in Holds(tab) : seg.owner # p} \cup Own(p, m)
  PROVE  /\ Installed(new) = [Installed(tab) EXCEPT ![p] = m]
         /\ LinesIn(new) = LinesIn(tab)
<1>1. \A seg \in Own(p, m) : seg.owner = p
  BY DEF Own, Block
<1>2. JobsInTable(new, p) = m
  <2>1. Entries(new, p) = Own(p, m)
    BY <1>1 DEF Entries
  <2> QED
    BY <2>1, JobsAreHeld
<1>3. ASSUME NEW q \in Projects, q # p PROVE JobsInTable(new, q) = JobsInTable(tab, q)
  <2>1. Entries(new, q) = Entries(tab, q)
    BY <1>1, <1>3 DEF Entries
  <2> QED
    BY <2>1, SameEntriesSameJobs
<1>4. LinesIn(new) = LinesIn(tab)
  <2>1. p \notin UserLines
    BY OwnersAreApart
  <2> QED
    BY <1>1, <2>1, LinesAreHeld
<1> QED
  BY <1>2, <1>3, <1>4 DEF Installed

(* A table with one more, or one less, unmanaged line. *)
LEMMA EditsUnmanaged ==
  ASSUME IdsApart, NEW tab \in Seq(Segment), Unique(tab), NoEmpty(tab),
         NEW new \in Seq(Segment), Unique(new), NEW seg, seg.owner \in UserLines,
         Holds(new) \in {Holds(tab) \cup {seg}, Holds(tab) \ {seg}}
  PROVE  Installed(new) = Installed(tab)
<1>1. ASSUME NEW q \in Projects PROVE JobsInTable(new, q) = JobsInTable(tab, q)
  <2>1. seg.owner # q
    BY OwnersAreApart
  <2>2. Entries(new, q) = Entries(tab, q)
    BY <2>1 DEF Entries
  <2> QED
    BY <2>2, SameEntriesSameJobs
<1> QED
  BY <1>1 DEF Installed

LEMMA WriteInstalls ==
  ASSUME IdsApart, NEW tab \in Seq(Segment), Unique(tab), NoEmpty(tab),
         NEW p \in Projects, NEW m \in Manifest
  PROVE  LET new == ReplaceBlock(tab, p, m)
         IN  /\ Installed(new) = [Installed(tab) EXCEPT ![p] = m]
             /\ LinesIn(new) = LinesIn(tab)
<1> DEFINE new == ReplaceBlock(tab, p, m)
<1>1. /\ new \in Seq(Segment) /\ Unique(new)
      /\ Holds(new) = {seg \in Holds(tab) : seg.owner # p} \cup Own(p, m)
  BY ReplaceBlockType, ReplaceBlockFacts DEF Own
<1> HIDE DEF new
<1>2. /\ Installed(new) = [Installed(tab) EXCEPT ![p] = m]
      /\ LinesIn(new) = LinesIn(tab)
  BY <1>1, InstallsOne
<1> QED
  BY <1>2 DEF new

(* Every step is a step of the table, or none. *)
LEMMA InitTable == Init => Table!Init
<1> SUFFICES ASSUME Init PROVE Table!Init
  OBVIOUS
<1>1. \A i \in 1 .. Len(crontab) : crontab[i].owner \notin Projects
  <2>1. CASE crontab = <<>>
    BY <2>1
  <2>2. ASSUME NEW u \in UserLines, crontab = <<Line(u)>>
        PROVE  \A i \in 1 .. Len(crontab) : crontab[i].owner \notin Projects
    BY <2>2, OwnersAreApart DEF Line
  <2> QED
    BY <2>1, <2>2 DEF Init
<1>2. \A p \in Projects : JobsInTable(crontab, p) = NoJobs
  BY <1>1 DEF JobsInTable
<1>3. LinesIn(crontab) \in SUBSET UserLines
  BY DEF LinesIn
<1> QED
  BY <1>2, <1>3 DEF Table!Init

LEMMA InstallStep ==
  ASSUME NEW p \in Projects, NEW m \in Manifests[p] \cup {NoJobs},
         Installed(crontab)' = [Installed(crontab) EXCEPT ![p] = m],
         LinesIn(crontab)' = LinesIn(crontab)
  PROVE  Table!Next
  BY DEF Installed, Table!Next, Table!Install

LEMMA UnmanagedStep ==
  ASSUME NEW u \in UserLines, Installed(crontab)' = Installed(crontab),
         LinesIn(crontab)' \in {LinesIn(crontab) \cup {u}, LinesIn(crontab) \ {u}}
  PROVE  Table!Next
  BY DEF Installed, Table!Next, Table!EditUnmanaged

LEMMA NextTable ==
  ASSUME IdsApart, Exclusive
  PROVE  Invs /\ [Next]_vars => [Table!Next]_(Table!vars)
<1> SUFFICES ASSUME Invs, [Next]_vars, crontab' # crontab PROVE Table!Next
  BY DEF Table!vars
<1>0. /\ crontab \in Seq(Segment) /\ Unique(crontab) /\ NoEmpty(crontab)
      /\ manifest \in [Projects -> Manifest]
  BY DEF Invs, Types, TypeOK, OwnersOnce, SerialInv, Sane
<1>1. ASSUME NEW u \in UserLines, AddLine(u) PROVE Table!Next
  <2>1. Line(u) \in Segment /\ Line(u).owner = u
    BY NoJobsIsManifest DEF Line, Segment
  <2>2. \A seg \in Holds(crontab) : seg.owner # u
    BY <1>1 DEF AddLine, Holds
  <2>3. /\ crontab' \in Seq(Segment) /\ Unique(crontab')
        /\ Holds(crontab') = Holds(crontab) \cup {Line(u)}
    BY <1>0, <1>1, <2>1, <2>2, AppendKeepsUnique DEF AddLine
  <2>4. Installed(crontab') = Installed(crontab)
    BY <1>0, <2>1, <2>3, EditsUnmanaged
  <2>5. LinesIn(crontab') = LinesIn(crontab) \cup {u}
    BY <2>1, <2>3, LinesAreHeld
  <2> QED
    BY <2>4, <2>5, UnmanagedStep DEF Installed, LinesIn
<1>2. ASSUME NEW i \in 1 .. Len(crontab), DeleteSegment(i) PROVE Table!Next
  <2> DEFINE seg == crontab[i]
  <2>1. /\ crontab' \in Seq(Segment) /\ Unique(crontab')
        /\ Holds(crontab') = Holds(crontab) \ {seg}
    BY <1>0, <1>2, RemoveKeepsUnique, RemoveAtFacts DEF DeleteSegment
  <2>2. seg \in Segment /\ \A s \in Holds(crontab) : s.owner = seg.owner => s = seg
    BY <1>0 DEF Unique, Holds
  <2> HIDE DEF seg
  <2>3. CASE seg.owner \in UserLines
    <3>1. Installed(crontab') = Installed(crontab)
      BY <1>0, <2>1, <2>3, EditsUnmanaged
    <3>2. LinesIn(crontab') = LinesIn(crontab) \ {seg.owner}
      BY <2>1, <2>2, LinesAreHeld
    <3> QED
      BY <2>3, <3>1, <3>2, UnmanagedStep DEF Installed, LinesIn
  <2>4. CASE seg.owner \in Projects
    <3>1. Holds(crontab') = {s \in Holds(crontab) : s.owner # seg.owner}
                              \cup Own(seg.owner, NoJobs)
      BY <2>1, <2>2 DEF Own
    <3>2. /\ Installed(crontab') = [Installed(crontab) EXCEPT ![seg.owner] = NoJobs]
          /\ LinesIn(crontab') = LinesIn(crontab)
      BY <1>0, <2>1, <2>4, <3>1, InstallsOne, NoJobsIsManifest
    <3> QED
      BY <2>4, <3>2, InstallStep DEF Installed, LinesIn
  <2> QED
    BY <2>2, <2>3, <2>4 DEF Segment
<1>3. ASSUME NEW c \in Procs, WriteCrontab(c) \/ RemoveBlock(c) PROVE Table!Next
  <2> DEFINE p == run[c].proj
  <2>1. PICK m \in Manifests[p] \cup {NoJobs} : crontab' = ReplaceBlock(crontab, p, m)
    BY <1>3, AtWork DEF WriteCrontab, RemoveBlock, Holding
  <2>2. p \in Projects /\ m \in Manifest
    BY <1>3, AtWork, NoJobsIsManifest, ManifestsAssumption DEF WriteCrontab, RemoveBlock
  <2> HIDE DEF p
  <2>3. /\ Installed(crontab') = [Installed(crontab) EXCEPT ![p] = m]
        /\ LinesIn(crontab') = LinesIn(crontab)
    BY <1>0, <2>1, <2>2, WriteInstalls
  <2> QED
    BY <2>2, <2>3, InstallStep DEF Installed, LinesIn
<1>4. \/ \E u \in UserLines : AddLine(u)
      \/ \E i \in 1 .. Len(crontab) : DeleteSegment(i)
      \/ \E c \in Procs : WriteCrontab(c) \/ RemoveBlock(c)
  BY DEF Next, vars, Environment, EditManifest, StartApply, StartPrune, Start,
     Abort, Leave, Step, ApplyStep, PruneStep, CollectStatus, ReadCrontab,
     OpenWrapper, FillWrapper, OpenRecord, FillRecord, InspectBlock,
     RereadCrontab, UnlinkWrapper, DeleteRecord
<1> QED
  BY <1>1, <1>2, <1>3, <1>4

(* With the crontab to itself, an invocation replaces one project's jobs   *)
(* as a whole, by a manifest that project declares or by none, and nothing *)
(* else: the control plane implements ScheduleTable.                       *)
THEOREM TableIsImplemented ==
  ASSUME IdsApart, Exclusive
  PROVE  Spec => ImplementsTable
<1>1. []Invs /\ [][Next]_vars => [][Table!Next]_(Table!vars)
  BY NextTable, PTL
<1>2. Spec => []Invs
  BY AlwaysSerial
<1> QED
  BY <1>1, <1>2, InitTable, PTL DEF Spec, ImplementsTable, Table!Spec
=============================================================================
