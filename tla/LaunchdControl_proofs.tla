------------------------- MODULE LaunchdControl_proofs -------------------------
(***************************************************************************)
(* Proofs about LaunchdControl: type correctness and, when nobody else is  *)
(* at launchctl, that no wrapper is unlinked under a loaded service unless *)
(* launchctl refused to boot it out, and what apply and prune have brought *)
(* about when they run to their end.                                       *)
(***************************************************************************)
EXTENDS LaunchdControl, TLAPS

(* An invocation that rewrites files does so for jobs its manifest has, and *)
(* has a job at hand while it is between two calls for it.                  *)
Works(r, label) ==
  /\ r.writes \subseteq Present(r.want)
  /\ label \in {"wrapper", "plist", "plisting"} => r.job \in Present(r.want)
  /\ label \in {"bootstrap", "flag", "unlink", "unwrap"} => r.job \in Jobs

Working == \A c \in Procs : Works(run[c], pc[c])

Types == TypeOK /\ Working

Files ==
  /\ manifest \in Manifest
  /\ wrapper \in [Jobs -> Defs \cup {Absent, Torn}]
  /\ plist \in [Jobs -> JobSpec \cup {Absent, Torn}]
  /\ loaded \subseteq Jobs
  /\ override \in [Jobs -> {"unset", "enabled", "disabled"}]
  /\ record \in Manifest \cup {Absent}

LEMMA NoJobsIsManifest == NoJobs \in Manifest
  BY DEF NoJobs, Manifest

LEMMA PresentAreJobs ==
  ASSUME NEW m \in Manifest
  PROVE  /\ Present(m) \subseteq Jobs
         /\ \A j \in Present(m) : m[j] \in JobSpec /\ m[j].def \in Defs
  BY DEF Present, Manifest, JobSpec

LEMMA IdleIsRun == Idle \in Run /\ Works(Idle, "idle")
<1>1. [j \in {} |-> "noop"] \in UNION {[ids -> Changes] : ids \in SUBSET Jobs}
  <2>1. [j \in {} |-> "noop"] \in [{} -> Changes]
    OBVIOUS
  <2> QED
    BY <2>1
<1> HIDE DEF NoJobs
<1>2. Idle \in Run
  BY <1>1, NoJobsIsManifest DEF Idle, Run
<1>3. Idle.writes = {}
  BY DEF Idle
<1> QED
  BY <1>2, <1>3 DEF Works

(* A plan gives each job of either side one of the changes. *)
LEMMA PlanIsPlan ==
  ASSUME NEW m \in Manifest
  PROVE  /\ StatusPlan(m) \in UNION {[ids -> Changes] : ids \in SUBSET Jobs}
         /\ Changing(StatusPlan(m)) \subseteq Jobs
<1> DEFINE state == [j \in Jobs |-> InspectedJob(j)]
           ids == Present(m) \cup Present(state)
<1>1. ids \subseteq Jobs
  BY DEF Present, Manifest
<1>2. \A j \in ids : PlanChange(m[j], state[j], "launchd") \in Changes
  BY DEF PlanChange, Changes
<1>3. StatusPlan(m) = [j \in ids |-> PlanChange(m[j], state[j], "launchd")]
  BY DEF StatusPlan, BuildPlan
<1> HIDE DEF ids, state
<1>4. StatusPlan(m) \in [ids -> Changes]
  BY <1>2, <1>3
<1>5. Changing(StatusPlan(m)) \subseteq ids
  BY <1>3 DEF Changing
<1> QED
  BY <1>1, <1>4, <1>5

----------------------------------------------------------------------------
LEMMA OneStep ==
  ASSUME Types, NEW c \in Procs, NEW r \in Run, NEW l \in Labels,
         run' = [run EXCEPT ![c] = r], pc' = [pc EXCEPT ![c] = l],
         Files', Works(r, l)
  PROVE  Types'
<1>1. TypeOK'
  BY DEF Types, TypeOK, Files
<1>2. ASSUME NEW d \in Procs PROVE Works(run'[d], pc'[d])
  <2>1. CASE d = c
    BY <2>1 DEF Types, TypeOK
  <2>2. CASE d # c
    BY <2>2 DEF Types, TypeOK, Working
  <2> QED
    BY <2>1, <2>2
<1> QED
  BY <1>1, <1>2 DEF Types, Working, Works

(* A step that leaves memory alone: only files, launchd and the label move. *)
LEMMA SameMemory ==
  ASSUME Types, NEW c \in Procs, NEW l \in Labels, UNCHANGED run,
         pc' = [pc EXCEPT ![c] = l], Files', Works(run[c], l)
  PROVE  Types'
<1>1. run' = [run EXCEPT ![c] = run[c]] /\ run[c] \in Run
  BY DEF Types, TypeOK
<1> QED
  BY <1>1, OneStep

LEMMA LeaveTypes ==
  ASSUME Types, NEW c \in Procs, Leave(c), Files'
  PROVE  Types'
<1>1. run' = [run EXCEPT ![c] = Idle] /\ pc' = [pc EXCEPT ![c] = "idle"]
  BY DEF Leave
<1>2. "idle" \in Labels
  BY DEF Labels
<1> HIDE DEF Idle
<1> QED
  BY <1>1, <1>2, IdleIsRun, OneStep

LEMMA InitTypes == Init => Types
<1> SUFFICES ASSUME Init PROVE Types
  OBVIOUS
<1>1. manifest \in Manifest
  BY ManifestsAssumption DEF Init
<1>2. pc \in [Procs -> Labels]
  BY DEF Init, Labels
<1>3. run \in [Procs -> Run]
  BY IdleIsRun DEF Init
<1>4. TypeOK
  BY <1>1, <1>2, <1>3 DEF Init, TypeOK
<1>5. Working
  BY IdleIsRun DEF Init, Working
<1> QED
  BY <1>4, <1>5 DEF Types

LEMMA StepTypes == Types /\ [Next]_vars => Types'
<1> SUFFICES ASSUME Types, [Next]_vars PROVE Types'
  OBVIOUS
<1>0. Files /\ \A c \in Procs : run[c] \in Run /\ pc[c] \in Labels
  BY DEF Files, Types, TypeOK
<1>1. CASE UNCHANGED vars
  BY <1>1 DEF vars, disk, launchd, Types, TypeOK, Working
<1>2. CASE EditManifest
  BY <1>2, ManifestsAssumption
  DEF EditManifest, disk, launchd, Types, TypeOK, Working
<1>3. ASSUME NEW j \in Jobs, UserBootsOut(j) \/ UserRemovesPlist(j)
      PROVE  Types'
  BY <1>3 DEF UserBootsOut, UserRemovesPlist, disk, launchd, Types, TypeOK, Working
<1>4. CASE Login
  <2>1. pc' \in [Procs -> Labels] /\ run' \in [Procs -> Run]
    BY <1>4, IdleIsRun DEF Login, Labels
  <2>2. \A c \in Procs : run'[c] = Idle /\ pc'[c] = "idle"
    BY <1>4 DEF Login
  <2>3. Files'
    BY <1>4, <1>0 DEF Login, Files, disk
  <2> QED
    BY <2>1, <2>2, <2>3, IdleIsRun DEF Types, TypeOK, Files, Working
<1>5. ASSUME NEW c \in Procs, NEW kind \in {"apply", "prune"},
             NEW m \in Manifest, Start(c, kind, m)
      PROVE  Types'
  <2>1. PICK b \in ManageChoices :
          run' = [run EXCEPT ![c] = [Idle EXCEPT !.kind = kind, !.want = m,
                                                 !.manages = b]]
    BY <1>5 DEF Start
  <2> DEFINE r == [Idle EXCEPT !.kind = kind, !.want = m, !.manages = b]
  <2>2. r \in Run /\ r.writes = Idle.writes
    BY IdleIsRun, OptionsAssumption DEF Run
  <2>3. Idle.writes = {}
    BY DEF Idle
  <2>4. Works(r, "inspect")
    BY <2>2, <2>3 DEF Works
  <2>5. Files' /\ pc' = [pc EXCEPT ![c] = "inspect"]
    BY <1>5, <1>0 DEF Start, Files, disk, launchd
  <2> HIDE DEF r
  <2> QED
    BY <2>1, <2>2, <2>4, <2>5, OneStep DEF r, Labels
<1>6. ASSUME NEW c \in Procs, StartApply(c) \/ StartPrune(c) PROVE Types'
  BY <1>0, <1>5, <1>6, NoJobsIsManifest DEF StartApply, StartPrune, Files
<1>7. ASSUME NEW c \in Procs, Abort(c) PROVE Types'
  <2>1. Files' /\ Leave(c)
    BY <1>7, <1>0 DEF Abort, Files, disk, launchd
  <2> QED
    BY <2>1, LeaveTypes
<1>8. ASSUME NEW c \in Procs, Inspect(c) PROVE Types'
  <2> DEFINE plan == StatusPlan(run[c].want)
             r == [run[c] EXCEPT !.plan = plan, !.acts = Changing(plan),
                                 !.writes = Changing(plan) \cap Present(run[c].want)]
  <2>1. run[c].want \in Manifest
    BY <1>0 DEF Run
  <2>2. /\ plan \in UNION {[ids -> Changes] : ids \in SUBSET Jobs}
        /\ Changing(plan) \subseteq Jobs
    BY <2>1, PlanIsPlan
  <2>3. run' = [run EXCEPT ![c] = r]
    BY <1>8, <1>0 DEF Inspect, Types, TypeOK, Run
  <2>4. pc' = [pc EXCEPT ![c] = "loop"] /\ Files'
    BY <1>8, <1>0 DEF Inspect, Files, disk, launchd
  <2> HIDE DEF plan
  <2>5. /\ r \in Run /\ r.want = run[c].want
        /\ r.writes = Changing(plan) \cap Present(run[c].want)
    BY <1>0, <2>2 DEF Run
  <2>6. Works(r, "loop")
    BY <2>5 DEF Works
  <2> HIDE DEF r
  <2> QED
    BY <2>3, <2>4, <2>5, <2>6, OneStep DEF Labels
<1>9. ASSUME NEW c \in Procs, OpenWrapper(c) PROVE Types'
  <2>1. PICK j \in run[c].writes :
          /\ wrapper' = [wrapper EXCEPT ![j] = Torn]
          /\ run' = [run EXCEPT ![c].job = j, ![c].writes = @ \ {j}]
    BY <1>9 DEF OpenWrapper
  <2> DEFINE r == [run[c] EXCEPT !.job = j, !.writes = @ \ {j}]
  <2>2. j \in Present(run[c].want) /\ run[c].writes \subseteq Present(run[c].want)
    BY <2>1 DEF Types, Working, Works
  <2>3. j \in Jobs
    BY <1>0, <2>2, PresentAreJobs DEF Run
  <2>4. r \in Run /\ r.want = run[c].want /\ r.job = j
        /\ r.writes = run[c].writes \ {j}
    BY <1>0, <2>3 DEF Run
  <2>5. Works(r, "wrapper")
    BY <2>2, <2>4 DEF Works
  <2>6. run' = [run EXCEPT ![c] = r]
    BY <2>1, <1>0 DEF Types, TypeOK, Run
  <2>7. pc' = [pc EXCEPT ![c] = "wrapper"] /\ Files'
    BY <1>9, <1>0, <2>1, <2>3 DEF OpenWrapper, Files, launchd
  <2> HIDE DEF r
  <2> QED
    BY <2>4, <2>5, <2>6, <2>7, OneStep DEF Labels
<1>10. ASSUME NEW c \in Procs, FillWrapper(c) \/ OpenPlist(c) \/ FillPlist(c)
       PROVE  Types'
  <2> DEFINE j == run[c].job
  <2>1. j \in Present(run[c].want) /\ run[c].writes \subseteq Present(run[c].want)
    BY <1>10 DEF FillWrapper, OpenPlist, FillPlist, Types, Working, Works
  <2>2. j \in Jobs /\ run[c].want[j] \in JobSpec /\ run[c].want[j].def \in Defs
    BY <1>0, <2>1, PresentAreJobs DEF Run
  <2>3. Files'
    BY <1>10, <1>0, <2>2
    DEF FillWrapper, OpenPlist, FillPlist, Files, launchd
  <2>4. CASE FillWrapper(c) \/ OpenPlist(c)
    <3>1. PICK l \in {"plist", "plisting"} : pc' = [pc EXCEPT ![c] = l]
      BY <2>4 DEF FillWrapper, OpenPlist
    <3>2. UNCHANGED run
      BY <2>4 DEF FillWrapper, OpenPlist
    <3>3. Works(run[c], l) /\ l \in Labels
      BY <2>1, <3>1 DEF Works, Labels
    <3> QED
      BY <2>3, <3>1, <3>2, <3>3, SameMemory
  <2>5. CASE FillPlist(c)
    <3> DEFINE r == [run[c] EXCEPT !.job = Absent]
    <3>1. r \in Run /\ r.writes = run[c].writes /\ r.want = run[c].want
      BY <1>0 DEF Run
    <3>2. run' = [run EXCEPT ![c] = r] /\ pc' = [pc EXCEPT ![c] = "loop"]
      BY <2>5, <1>0 DEF FillPlist, Types, TypeOK, Run
    <3>3. Works(r, "loop")
      BY <2>1, <3>1 DEF Works
    <3> HIDE DEF r
    <3> QED
      BY <2>3, <3>1, <3>2, <3>3, OneStep DEF Labels
  <2> QED
    BY <1>10, <2>4, <2>5
<1>11. ASSUME NEW c \in Procs, NEW j \in Jobs,
              Bootout(c, j) \/ BootoutFails(c, j) \/ SkipLaunchctl(c, j)
       PROVE  Types'
  <2>1. PICK l \in {"unlink", "bootstrap", "loop"}, stuck \in SUBSET Jobs :
          Take(c, j, l, stuck)
    BY <1>11 DEF Bootout, BootoutFails, SkipLaunchctl, AfterBootout
  <2>2. pc[c] = "loop"
    BY <1>11 DEF Bootout, BootoutFails, SkipLaunchctl, Acting
  <2>3. Files'
    BY <1>11, <1>0 DEF Bootout, BootoutFails, SkipLaunchctl, Files, disk, launchd
  <2> DEFINE r == [run[c] EXCEPT !.job = j, !.acts = @ \ {j},
                                 !.refused = @ \cup stuck]
  <2>4. /\ r \in Run /\ r.job = j
        /\ r.writes = run[c].writes /\ r.want = run[c].want
    BY <1>0 DEF Run
  <2>5. run' = [run EXCEPT ![c] = r] /\ pc' = [pc EXCEPT ![c] = l]
    BY <2>1, <1>0 DEF Take, Types, TypeOK, Run
  <2>6. Works(r, l)
    BY <2>1, <2>4 DEF Works, Types, Working
  <2> HIDE DEF r
  <2>7. l \in Labels
    BY <2>1 DEF Labels
  <2> QED
    BY <2>3, <2>4, <2>5, <2>6, <2>7, OneStep
<1>12. ASSUME NEW c \in Procs,
              Bootstrap(c) \/ SetSwitch(c) \/ UnlinkPlist(c) \/ UnlinkWrapper(c)
       PROVE  Types'
  <2>1. run[c].job \in Jobs /\ run[c].writes \subseteq Present(run[c].want)
    BY <1>12 DEF Bootstrap, SetSwitch, UnlinkPlist, UnlinkWrapper,
                 Types, Working, Works
  <2>2. Files'
    BY <1>12, <1>0, <2>1
    DEF Bootstrap, SetSwitch, Switch, UnlinkPlist, UnlinkWrapper, Files, disk, launchd
  <2>3. PICK l \in {"flag", "loop", "unwrap"} : pc' = [pc EXCEPT ![c] = l]
    BY <1>12 DEF Bootstrap, SetSwitch, UnlinkPlist, UnlinkWrapper
  <2>4. UNCHANGED run
    BY <1>12 DEF Bootstrap, SetSwitch, UnlinkPlist, UnlinkWrapper
  <2>5. Works(run[c], l) /\ l \in Labels
    BY <2>1, <2>3 DEF Works, Labels
  <2> QED
    BY <2>2, <2>3, <2>4, <2>5, SameMemory
<1>13. ASSUME NEW c \in Procs, SaveRecord(c) PROVE Types'
  <2>1. Files' /\ Leave(c)
    BY <1>13, <1>0 DEF SaveRecord, Files, Run, disk, launchd
  <2> QED
    BY <2>1, LeaveTypes
<1> QED
  BY <1>1, <1>2, <1>3, <1>4, <1>6, <1>7, <1>8, <1>9, <1>10, <1>11, <1>12, <1>13
  DEF Next, Step

LEMMA AlwaysTypes == Spec => []Types
  BY InitTypes, StepTypes, PTL DEF Spec

(* Every variable keeps its type, whatever dies, logs in or overlaps:      *)
(* files are written only for jobs their manifest has.                      *)
THEOREM TypeCorrect == Spec => []TypeOK
<1>1. Types => TypeOK
  BY DEF Types
<1> QED
  BY <1>1, AlwaysTypes, PTL

----------------------------------------------------------------------------
(* With launchd to itself an invocation is alone, and the job whose files  *)
(* it unlinks is not loaded or could not be booted out: nothing but its own *)
(* bootstrap, of another job, or a login, which ends it, loads a service.   *)
OutOrRefused(r, ld) == r.job \notin ld \/ r.job \in r.refused

OutFirst ==
  /\ \A c, d \in Procs : pc[c] # "idle" /\ pc[d] # "idle" => c = d
  /\ \A c \in Procs :
       pc[c] \in {"unlink", "unwrap"} /\ run[c].manages => OutOrRefused(run[c], loaded)

LEMMA InitOutFirst == Init => OutFirst
  BY DEF Init, OutFirst

LEMMA StepOutFirst ==
  ASSUME Exclusive, Types, OutFirst, [Next]_vars
  PROVE  OutFirst'
<1>0. /\ pc \in [Procs -> Labels] /\ run \in [Procs -> Run]
      /\ \A c \in Procs : run[c] \in Run
  BY DEF Types, TypeOK
<1>1. CASE UNCHANGED vars
  BY <1>1 DEF vars, disk, launchd, OutFirst
<1>2. CASE EditManifest
  BY <1>2 DEF EditManifest, disk, launchd, OutFirst
<1>3. ASSUME NEW j \in Jobs, UserBootsOut(j) \/ UserRemovesPlist(j)
      PROVE  OutFirst'
  BY <1>3 DEF UserBootsOut, UserRemovesPlist, disk, launchd, OutFirst, OutOrRefused
<1>4. CASE Login
  BY <1>4 DEF Login, OutFirst
<1>5. ASSUME NEW c \in Procs, StartApply(c) \/ StartPrune(c)
      PROVE  OutFirst'
  <2>1. \A d \in Procs : pc[d] = "idle"
    BY <1>5 DEF StartApply, StartPrune, Start, MayTouch, AllIdle
  <2>2. pc' = [pc EXCEPT ![c] = "inspect"]
    BY <1>5 DEF StartApply, StartPrune, Start
  <2> QED
    BY <1>0, <2>1, <2>2 DEF OutFirst
<1>6. ASSUME NEW c \in Procs, Abort(c) \/ Step(c) PROVE OutFirst'
  <2>1. pc[c] # "idle"
    BY <1>6 DEF Abort, Step, Inspect, OpenWrapper, FillWrapper, OpenPlist,
         FillPlist, Bootout, BootoutFails, SkipLaunchctl, Acting, Bootstrap, SetSwitch,
         UnlinkPlist, UnlinkWrapper, SaveRecord
  <2>2. \A d \in Procs \ {c} : pc[d] = "idle"
    BY <2>1 DEF OutFirst
  <2>3. \A d \in Procs \ {c} : pc'[d] = "idle"
    BY <1>0, <1>6, <2>2 DEF Abort, Leave, Step, Inspect, OpenWrapper, FillWrapper,
         OpenPlist, FillPlist, Bootout, BootoutFails, SkipLaunchctl, Acting, Take,
         Bootstrap, SetSwitch, UnlinkPlist, UnlinkWrapper, SaveRecord
  <2>4. pc'[c] \in {"unlink", "unwrap"} /\ run'[c].manages
          => OutOrRefused(run'[c], loaded')
    <3>1. CASE \E j \in Jobs : Bootout(c, j) \/ BootoutFails(c, j) \/ SkipLaunchctl(c, j)
      <4>1. PICK j \in Jobs : Bootout(c, j) \/ BootoutFails(c, j) \/ SkipLaunchctl(c, j)
        BY <3>1
      <4>2. PICK l, stuck : Take(c, j, l, stuck) /\ (BootoutFails(c, j) => stuck = {j})
        BY <4>1 DEF Bootout, BootoutFails, SkipLaunchctl
      <4>3. /\ run'[c].job = j /\ run'[c].manages = run[c].manages
            /\ run'[c].refused = run[c].refused \cup stuck
        BY <1>0, <4>2 DEF Take, Run
      <4>4. \/ j \notin loaded' \/ ~run[c].manages
            \/ BootoutFails(c, j)
        BY <4>1 DEF Bootout, SkipLaunchctl
      <4> QED
        BY <4>2, <4>3, <4>4 DEF OutOrRefused
    <3>2. CASE UnlinkPlist(c)
      BY <1>0, <3>2 DEF UnlinkPlist, OutFirst, launchd
    <3>3. CASE ~UnlinkPlist(c)
               /\ ~\E j \in Jobs : Bootout(c, j) \/ BootoutFails(c, j) \/ SkipLaunchctl(c, j)
      <4>1. pc'[c] \notin {"unlink", "unwrap"}
        BY <1>0, <1>6, <3>3 DEF Abort, Leave, Step, Inspect, OpenWrapper,
             FillWrapper, OpenPlist, FillPlist, Bootstrap, SetSwitch,
             UnlinkWrapper, SaveRecord
      <4> QED
        BY <4>1
    <3> QED
      BY <3>1, <3>2, <3>3
  <2> QED
    BY <2>3, <2>4 DEF OutFirst
<1> QED
  BY <1>1, <1>2, <1>3, <1>4, <1>5, <1>6 DEF Next

LEMMA WrapperWriters ==
  ASSUME Types, OutFirst, [Next]_vars, NEW j \in Jobs,
         wrapper[j] # Absent, wrapper'[j] = Absent, j \in loaded
  PROVE  \E c \in Procs :
           run[c].job = j /\ (~run[c].manages \/ j \in run[c].refused)
<1>0. /\ wrapper \in [Jobs -> Defs \cup {Absent, Torn}]
      /\ \A c \in Procs : run[c] \in Run
  BY DEF Types, TypeOK
<1>1. PICK c \in Procs : OpenWrapper(c) \/ FillWrapper(c) \/ UnlinkWrapper(c)
  <2>1. wrapper' # wrapper
    OBVIOUS
  <2> QED
    BY <2>1 DEF Next, vars, disk, launchd, EditManifest, UserBootsOut,
         UserRemovesPlist, Login, StartApply, StartPrune, Start, Abort, Step,
         Inspect, OpenPlist, FillPlist, Bootout, BootoutFails, SkipLaunchctl, Bootstrap,
         SetSwitch, UnlinkPlist, SaveRecord
<1>2. CASE OpenWrapper(c)
  <2>1. Torn # Absent
    BY SpecialsAreNoJobs
  <2>2. PICK i \in run[c].writes : wrapper' = [wrapper EXCEPT ![i] = Torn]
    BY <1>2 DEF OpenWrapper
  <2> QED
    BY <1>0, <2>1, <2>2
<1>3. CASE FillWrapper(c)
  <2>1. run[c].job \in Present(run[c].want)
    BY <1>3 DEF FillWrapper, Types, Working, Works
  <2>2. run[c].want[run[c].job].def \in Defs
    BY <1>0, <2>1, PresentAreJobs DEF Run
  <2>3. Absent \notin Defs
    BY SpecialsAreNoJobs
  <2> QED
    BY <1>0, <1>3, <2>2, <2>3 DEF FillWrapper
<1>4. CASE UnlinkWrapper(c)
  <2>1. run[c].job = j /\ pc[c] = "unwrap"
    BY <1>0, <1>4 DEF UnlinkWrapper
  <2> QED
    BY <2>1 DEF OutFirst, OutOrRefused
<1> QED
  BY <1>1, <1>2, <1>3, <1>4

(* Nobody else at launchctl, an invocation that manages launchd unlinks a   *)
(* wrapper under a loaded service only when launchctl has refused it the    *)
(* bootout of that very service, however many died before.                  *)
THEOREM ServicesGoFirst == ASSUME Exclusive PROVE Spec => ServiceGoesFirst
<1>1. Types /\ OutFirst /\ [Next]_vars => OutFirst'
  BY StepOutFirst
<1>2. Spec => []OutFirst
  BY <1>1, InitOutFirst, AlwaysTypes, PTL DEF Spec
<1>3. Types /\ OutFirst /\ [Next]_vars =>
        [\A j \in Jobs :
           wrapper[j] # Absent /\ wrapper'[j] = Absent /\ j \in loaded =>
             \E c \in Procs :
               run[c].job = j /\ (~run[c].manages \/ j \in run[c].refused)]_vars
  BY WrapperWriters
<1> QED
  BY <1>2, <1>3, AlwaysTypes, PTL DEF Spec, ServiceGoesFirst


----------------------------------------------------------------------------
(* What an invocation that has launchd to itself has brought about so far: *)
(* a job its plan leaves alone is in sync; of the others, each is still to *)
(* be written, at hand, or written; and still to be taken to launchctl, at *)
(* hand, or switched (removed, for a job the manifest does not have).      *)
Writing   == {"wrapper", "plist", "plisting"}
Switching == {"bootstrap", "flag"}
Removing  == {"unlink", "unwrap"}

ToInstall(r) == Changing(r.plan) \cap Present(r.want)
ToRemove(r)  == Changing(r.plan) \ Present(r.want)

InSync(wanted, file, switch) ==
  IF wanted = Absent THEN file = Absent
  ELSE /\ file \in JobSpec /\ file.def = wanted.def
       /\ (switch # "disabled") = wanted.enabled

Planned(r) ==
  /\ DOMAIN r.plan \subseteq Jobs
  /\ \A j \in Present(r.want) :
       /\ j \in DOMAIN r.plan
       /\ r.plan[j] \in {"create", "update", "enable", "disable", "noop"}
       /\ r.plan[j] = "enable" => r.want[j].enabled
       /\ r.plan[j] = "disable" => ~r.want[j].enabled
  /\ \A j \in DOMAIN r.plan \ Present(r.want) : r.plan[j] = "remove"

AtHand(r, l) ==
  /\ r.writes \subseteq ToInstall(r) /\ r.acts \subseteq Changing(r.plan)
  /\ l \in Writing \cup Switching => r.job \in ToInstall(r)
  /\ l \in Removing => r.job \in ToRemove(r)

Spared(r, pl, ov) ==
  \A j \in Jobs \ Changing(r.plan) : InSync(r.want[j], pl[j], ov[j])

Written(r, l, pl) ==
  \A j \in ToInstall(r) :
    j \in r.writes \/ (l \in Writing /\ r.job = j) \/ pl[j] = r.want[j]

Switched(r, l, ov) ==
  \A j \in ToInstall(r) :
    j \in r.acts \/ (l \in Switching /\ r.job = j) \/ ov[j] = Switch(r.plan[j])

Removed(r, l, wr, pl, ld) ==
  /\ l \in Removing => r.job \notin ld \/ r.job \in r.refused
  /\ l = "unwrap" => pl[r.job] = Absent
  /\ \A j \in ToRemove(r) :
       \/ j \in r.acts
       \/ l \in Removing /\ r.job = j
       \/ pl[j] = Absent /\ wr[j] = Absent /\ (j \notin ld \/ j \in r.refused)

Holding(r, l, wr, pl, ld, ov) ==
  /\ l # "idle" /\ r.kind = "prune" => r.want = NoJobs
  /\ l \notin {"idle", "inspect"} =>
       /\ Planned(r) /\ AtHand(r, l) /\ Spared(r, pl, ov) /\ Written(r, l, pl)
       /\ r.manages => Switched(r, l, ov) /\ Removed(r, l, wr, pl, ld)

SettleInv == \A c \in Procs : Holding(run[c], pc[c], wrapper, plist, loaded, override)


LEMMA IdleHolds ==
  ASSUME NEW r, NEW wr, NEW pl, NEW ld, NEW ov
  PROVE  Holding(r, "idle", wr, pl, ld, ov)
  BY DEF Holding

(* The plan for a job whose plist parses. *)
LEMMA PlanFor ==
  ASSUME NEW m \in Manifest, NEW j \in Jobs, plist[j] \in JobSpec \cup {Absent}
  PROVE  LET plan == StatusPlan(m)
             on   == override[j] # "disabled"
         IN  /\ j \in DOMAIN plan <=> m[j] # Absent \/ plist[j] # Absent
             /\ j \in DOMAIN plan /\ m[j] = Absent => plan[j] = "remove"
             /\ m[j] # Absent /\ plist[j] = Absent => plan[j] = "create"
             /\ m[j] # Absent /\ plist[j] # Absent =>
                  plan[j] = IF plist[j].def # m[j].def THEN "update"
                            ELSE IF m[j].enabled = on THEN "noop"
                            ELSE IF m[j].enabled THEN "enable" ELSE "disable"
<1> DEFINE state == [i \in Jobs |-> InspectedJob(i)]
           plan  == StatusPlan(m)
           on    == override[j] # "disabled"
           read  == [Deployed(plist[j], "launchd") EXCEPT !.enabled = on]
<1>1. /\ DOMAIN m = Jobs /\ state[j] = InspectedJob(j) /\ DOMAIN state = Jobs
      /\ m[j] \in JobSpec \cup {Absent} /\ on \in BOOLEAN
  BY DEF Manifest
<1>2. /\ DOMAIN plan = Present(m) \cup Present(state)
      /\ \A i \in DOMAIN plan : plan[i] = PlanChange(m[i], state[i], "launchd")
  BY DEF StatusPlan, BuildPlan
<1> HIDE DEF plan, on
<1>3. state[j] = IF plist[j] = Absent THEN Absent ELSE read
  BY <1>1 DEF InspectedJob, on
<1>4. /\ read.def = plist[j].def /\ read.enabled = on
      /\ read.backend = "launchd" /\ read.observed = read.hash
  BY DEF Deployed, DefinitionHash
<1>5. plist[j] # Absent => read # Absent
  BY <1>1, SpecialsAreNoJobs
<1> HIDE DEF state, read
<1>6. j \in DOMAIN plan <=> m[j] # Absent \/ plist[j] # Absent
  BY <1>1, <1>2, <1>3, <1>5 DEF Present
<1>7. j \in DOMAIN plan /\ m[j] = Absent => plan[j] = "remove"
  BY <1>2 DEF PlanChange
<1>8. m[j] # Absent /\ plist[j] = Absent => plan[j] = "create"
  BY <1>2, <1>3, <1>6 DEF PlanChange
<1>9. ASSUME m[j] # Absent, plist[j] # Absent
      PROVE  plan[j] = IF plist[j].def # m[j].def THEN "update"
                       ELSE IF m[j].enabled = on THEN "noop"
                       ELSE IF m[j].enabled THEN "enable" ELSE "disable"
  <2>1. plan[j] = PlanChange(m[j], read, "launchd") /\ read # Absent
    BY <1>2, <1>3, <1>5, <1>6, <1>9
  <2>2. /\ read.observed = read.hash /\ read.backend = "launchd"
        /\ read.def = plist[j].def /\ read.enabled = on
    BY <1>4
  <2> QED
    BY <1>9, <2>1, <2>2 DEF PlanChange, DefinitionHash
<1> QED
  BY <1>6, <1>7, <1>8, <1>9 DEF plan, on

(* What the plan an invocation makes says of its manifest and of the jobs  *)
(* it will leave alone.                                                    *)
LEMMA PlanIsFit ==
  ASSUME Types, Readable, NEW r, r.want \in Manifest, r.plan = StatusPlan(r.want)
  PROVE  Planned(r) /\ Spared(r, plist, override)
<1> DEFINE m == r.want
           plan == StatusPlan(m)
<1>1. \A j \in Jobs : plist[j] \in JobSpec \cup {Absent}
  BY DEF Types, TypeOK, Readable
<1>2. DOMAIN plan \subseteq Jobs
  BY DEF StatusPlan, BuildPlan, Present, Manifest
<1>3. \A j \in Jobs : m[j] \in JobSpec \cup {Absent}
  BY DEF Manifest
<1>4. \A j \in Jobs : j \in Present(m) <=> m[j] # Absent
  BY DEF Present, Manifest
<1>5. Planned(r)
  <2>1. ASSUME NEW j \in Present(m)
        PROVE  /\ j \in DOMAIN plan
               /\ plan[j] \in {"create", "update", "enable", "disable", "noop"}
               /\ plan[j] = "enable" => m[j].enabled
               /\ plan[j] = "disable" => ~m[j].enabled
    <3>1. j \in Jobs /\ m[j] # Absent
      BY <1>4, PresentAreJobs
    <3>2. m[j] \in JobSpec /\ m[j].enabled \in BOOLEAN
      BY <1>3, <3>1 DEF JobSpec
    <3> HIDE DEF plan
    <3> QED
      BY <1>1, <3>1, <3>2, PlanFor DEF plan
  <2>2. ASSUME NEW j \in DOMAIN plan \ Present(m) PROVE plan[j] = "remove"
    BY <1>1, <1>2, <1>4, <2>2, PlanFor
  <2> QED
    BY <1>2, <2>1, <2>2 DEF Planned
<1>6. ASSUME NEW j \in Jobs, j \notin Changing(plan)
      PROVE  InSync(m[j], plist[j], override[j])
  <2>1. CASE m[j] = Absent
    <3>1. plist[j] = Absent
      BY <1>1, <1>6, <2>1, PlanFor DEF Changing
    <3> QED
      BY <2>1, <3>1 DEF InSync
  <2>2. CASE m[j] # Absent
    <3>1. j \in DOMAIN plan /\ plan[j] = "noop"
      BY <1>1, <1>6, <2>2, PlanFor DEF Changing
    <3>2. plist[j] # Absent
      BY <1>1, <2>2, <3>1, PlanFor
    <3>3. plist[j].def = m[j].def /\ m[j].enabled = (override[j] # "disabled")
      BY <1>1, <2>2, <3>1, <3>2, PlanFor
    <3> QED
      BY <1>1, <2>2, <3>2, <3>3 DEF InSync
  <2> QED
    BY <2>1, <2>2
<1> QED
  BY <1>5, <1>6 DEF Spared

(* An invocation at its end has left launchd and the files as its plan     *)
(* meant to.                                                               *)
LEMMA DoneIsSettled ==
  ASSUME Types, SettleInv, NEW c \in Procs, pc[c] = "loop",
         run[c].writes = {}, run[c].acts = {}, run[c].manages
  PROVE  LET r == run[c]
         IN  /\ r.want \in Manifest /\ Planned(r) /\ Spared(r, plist, override)
             /\ \A j \in ToInstall(r) :
                  plist[j] = r.want[j] /\ override[j] = Switch(r.plan[j])
             /\ \A j \in ToRemove(r) :
                  /\ plist[j] = Absent /\ wrapper[j] = Absent
                  /\ j \in loaded => j \in r.refused
             /\ r.kind = "prune" => r.want = NoJobs
<1>1. run[c].want \in Manifest
  BY DEF Types, TypeOK, Run
<1>2. Holding(run[c], "loop", wrapper, plist, loaded, override)
  BY DEF SettleInv
<1> QED
  BY <1>1, <1>2 DEF Holding, Written, Switched, Removed, Writing, Switching, Removing

LEMMA SettledApply ==
  ASSUME Types, SettleInv
  PROVE  ApplySettles
<1> SUFFICES ASSUME NEW c \in Procs, Done(c, "apply"),
                    NEW j \in Changing(StatusPlan(run[c].want))
             PROVE  /\ StatusPlan(run[c].want)[j] = "disable"
                    /\ run[c].plan[j] \in {"create", "update"}
  BY DEF ApplySettles
<1> DEFINE r == run[c]
           m == run[c].want
           plan == StatusPlan(m)
<1>1. /\ m \in Manifest /\ Planned(r) /\ Spared(r, plist, override)
      /\ \A i \in ToInstall(r) : plist[i] = m[i] /\ override[i] = Switch(r.plan[i])
      /\ \A i \in ToRemove(r) : plist[i] = Absent
  BY DoneIsSettled DEF Done
<1>2. j \in DOMAIN plan /\ plan[j] # "noop" /\ j \in Jobs
  BY <1>1, PlanIsPlan DEF Changing
<1>3. m[j] \in JobSpec \cup {Absent} /\ (j \in Present(m) <=> m[j] # Absent)
  BY <1>1, <1>2 DEF Manifest, Present
<1>4. CASE j \in ToInstall(r)
  <2>1. m[j] # Absent /\ m[j] \in JobSpec /\ m[j].enabled \in BOOLEAN
    BY <1>3, <1>4 DEF ToInstall, JobSpec
  <2>2. plist[j] = m[j] /\ override[j] = Switch(r.plan[j])
    BY <1>1, <1>4
  <2>3. plan[j] = IF m[j].enabled = (override[j] # "disabled") THEN "noop"
                  ELSE IF m[j].enabled THEN "enable" ELSE "disable"
    BY <1>1, <1>2, <2>1, <2>2, PlanFor
  <2>4. /\ r.plan[j] \in {"create", "update", "enable", "disable"}
        /\ r.plan[j] = "enable" => m[j].enabled
        /\ r.plan[j] = "disable" => ~m[j].enabled
    BY <1>1, <1>4 DEF ToInstall, Changing, Planned
  <2> HIDE DEF plan, r, m
  <2> QED
    BY <1>2, <2>1, <2>2, <2>3, <2>4 DEF Switch, plan, r, m
<1>5. CASE j \in ToRemove(r)
  BY <1>1, <1>2, <1>3, <1>5, PlanFor DEF ToRemove
<1>6. CASE j \notin Changing(r.plan)
  <2>1. InSync(m[j], plist[j], override[j])
    BY <1>1, <1>2, <1>6 DEF Spared
  <2>2. plist[j] \in JobSpec \cup {Absent}
    BY <2>1 DEF InSync
  <2>3. m[j] # Absent
    BY <1>1, <1>2, <2>1, <2>2, PlanFor DEF InSync
  <2>4. plist[j] # Absent /\ plist[j].def = m[j].def
        /\ m[j].enabled = (override[j] # "disabled")
    BY <2>1, <2>3, SpecialsAreNoJobs DEF InSync
  <2>5. plan[j] = "noop"
    BY <1>1, <1>2, <2>2, <2>3, <2>4, PlanFor
  <2> QED
    BY <1>2, <2>5
<1> QED
  BY <1>4, <1>5, <1>6 DEF ToInstall, ToRemove

LEMMA SettledPrune ==
  ASSUME Types, SettleInv
  PROVE  PruneClears
<1> SUFFICES ASSUME NEW c \in Procs, Done(c, "prune")
             PROVE  /\ \A j \in Jobs : plist[j] = Absent
                    /\ \A j \in DOMAIN run[c].plan :
                         wrapper[j] = Absent /\ (j \in loaded => j \in run[c].refused)
  BY DEF PruneClears
<1> DEFINE r == run[c]
<1>1. /\ Planned(r) /\ Spared(r, plist, override) /\ r.want = NoJobs
      /\ \A i \in ToRemove(r) :
           plist[i] = Absent /\ wrapper[i] = Absent /\ (i \in loaded => i \in r.refused)
  BY DoneIsSettled DEF Done
<1>2. Present(r.want) = {} /\ \A j \in Jobs : r.want[j] = Absent
  BY <1>1 DEF Present, NoJobs
<1>3. \A j \in Jobs \ Changing(r.plan) : plist[j] = Absent
  BY <1>1, <1>2 DEF Spared, InSync
<1>4. DOMAIN r.plan \subseteq ToRemove(r)
  BY <1>1, <1>2 DEF Planned, ToRemove, Changing
<1>5. Changing(r.plan) = ToRemove(r)
  BY <1>2 DEF ToRemove
<1> QED
  BY <1>1, <1>3, <1>4, <1>5


----------------------------------------------------------------------------
(* Every step keeps it: what an invocation has brought about is undone by  *)
(* nobody else, and by none of its own later calls.                        *)
Invs == Types /\ OutFirst /\ SettleInv

LEMMA AtWork ==
  ASSUME Invs, NEW c \in Procs, pc[c] # "idle"
  PROVE  /\ \A d \in Procs \ {c} : pc[d] = "idle"
         /\ run \in [Procs -> Run] /\ pc \in [Procs -> Labels]
         /\ run[c] \in Run /\ run[c].want \in Manifest
         /\ wrapper \in [Jobs -> Defs \cup {Absent, Torn}]
         /\ plist \in [Jobs -> JobSpec \cup {Absent, Torn}]
         /\ override \in [Jobs -> {"unset", "enabled", "disabled"}]
         /\ ToInstall(run[c]) \subseteq Jobs
         /\ Holding(run[c], pc[c], wrapper, plist, loaded, override)
<1>1. run[c] \in Run /\ run[c].want \in Manifest
  BY DEF Invs, Types, TypeOK, Run
<1>2. ToInstall(run[c]) \subseteq Jobs
  BY <1>1, PresentAreJobs DEF ToInstall
<1> QED
  BY <1>1, <1>2 DEF Invs, Types, TypeOK, OutFirst, SettleInv

LEMMA SoloStep ==
  ASSUME Invs, NEW c \in Procs, \A d \in Procs \ {c} : pc[d] = "idle",
         NEW r, NEW l, run' = [run EXCEPT ![c] = r], pc' = [pc EXCEPT ![c] = l],
         Holding(r, l, wrapper', plist', loaded', override')
  PROVE  SettleInv'
<1>1. /\ pc'[c] = l /\ run'[c] = r
      /\ \A d \in Procs \ {c} : pc'[d] = "idle"
  BY DEF Invs, Types, TypeOK
<1>2. ASSUME NEW d \in Procs
      PROVE  Holding(run'[d], pc'[d], wrapper', plist', loaded', override')
  BY <1>1, IdleHolds
<1> QED
  BY <1>2 DEF SettleInv

LEMMA SameMemorySettles ==
  ASSUME Invs, NEW c \in Procs, pc[c] # "idle", UNCHANGED run,
         NEW l, pc' = [pc EXCEPT ![c] = l],
         Holding(run[c], l, wrapper', plist', loaded', override')
  PROVE  SettleInv'
<1>1. run' = [run EXCEPT ![c] = run[c]]
  BY AtWork
<1> QED
  BY <1>1, AtWork, SoloStep

LEMMA LeaveSettles ==
  ASSUME Invs, NEW c \in Procs, pc[c] # "idle", Leave(c)
  PROVE  SettleInv'
  BY AtWork, IdleHolds, SoloStep DEF Leave

LEMMA StartSettles ==
  ASSUME Invs, Exclusive, NEW c \in Procs, StartApply(c) \/ StartPrune(c)
  PROVE  SettleInv'
<1>1. PICK kind, m :
        kind \in {"apply", "prune"} /\ Start(c, kind, m) /\ (kind = "prune" => m = NoJobs)
  BY DEF StartApply, StartPrune
<1>2. PICK b \in ManageChoices :
        run' = [run EXCEPT ![c] = [Idle EXCEPT !.kind = kind, !.want = m, !.manages = b]]
  BY <1>1 DEF Start
<1> DEFINE r == [Idle EXCEPT !.kind = kind, !.want = m, !.manages = b]
<1>3. r.kind = kind /\ r.want = m
  BY DEF Idle
<1>4. Holding(r, "inspect", wrapper', plist', loaded', override')
  BY <1>1, <1>3 DEF Holding
<1>5. \A d \in Procs : pc[d] = "idle"
  BY <1>1 DEF Start, MayTouch, AllIdle
<1> HIDE DEF r
<1> QED
  BY <1>1, <1>2, <1>4, <1>5, SoloStep DEF r, Start

LEMMA InspectSettles ==
  ASSUME Invs, NEW c \in Procs, Inspect(c)
  PROVE  SettleInv'
<1> DEFINE plan == StatusPlan(run[c].want)
           r == [run[c] EXCEPT !.plan = plan, !.acts = Changing(plan),
                               !.writes = Changing(plan) \cap Present(run[c].want)]
<1>1. /\ pc[c] = "inspect" /\ pc' = [pc EXCEPT ![c] = "loop"] /\ Readable
      /\ UNCHANGED <<wrapper, plist, loaded, override>>
  BY DEF Inspect, disk, launchd
<1>2. run' = [run EXCEPT ![c] = r]
  BY <1>1, AtWork DEF Inspect, Run
<1>3. /\ r.want = run[c].want /\ r.kind = run[c].kind /\ r.manages = run[c].manages
      /\ run[c].refused \subseteq r.refused
      /\ r.plan = plan /\ r.acts = Changing(plan) /\ r.writes = ToInstall(r)
  BY <1>1, AtWork DEF Run, ToInstall
<1> HIDE DEF r
<1>4. Planned(r) /\ Spared(r, plist, override)
  BY <1>1, <1>3, AtWork, PlanIsFit DEF Invs
<1> HIDE DEF plan
<1>5. AtHand(r, "loop") /\ Written(r, "loop", plist)
  BY <1>3 DEF AtHand, Written, Writing, Switching, Removing
<1>6. Switched(r, "loop", override) /\ Removed(r, "loop", wrapper, plist, loaded)
  BY <1>3 DEF Switched, Removed, ToInstall, ToRemove, Removing
<1>7. Holding(r, "loop", wrapper', plist', loaded', override')
  BY <1>1, <1>3, <1>4, <1>5, <1>6, AtWork DEF Holding
<1> QED
  BY <1>1, <1>2, <1>7, AtWork, SoloStep

(* Writing the files of a job. *)
LEMMA OpenWrapperSettles ==
  ASSUME Invs, NEW c \in Procs, OpenWrapper(c)
  PROVE  SettleInv'
<1>1. /\ pc[c] = "loop" /\ pc' = [pc EXCEPT ![c] = "wrapper"]
      /\ UNCHANGED <<plist, loaded, override>>
  BY DEF OpenWrapper, launchd
<1>2. PICK j \in run[c].writes :
        /\ wrapper' = [wrapper EXCEPT ![j] = Torn]
        /\ run' = [run EXCEPT ![c].job = j, ![c].writes = @ \ {j}]
  BY DEF OpenWrapper
<1> DEFINE r == [run[c] EXCEPT !.job = j, !.writes = @ \ {j}]
<1>3. /\ r.want = run[c].want /\ r.kind = run[c].kind /\ r.manages = run[c].manages
      /\ run[c].refused \subseteq r.refused
      /\ r.plan = run[c].plan /\ r.acts = run[c].acts /\ r.job = j
      /\ r.writes = run[c].writes \ {j} /\ run' = [run EXCEPT ![c] = r]
  BY <1>1, <1>2, AtWork DEF Run
<1> HIDE DEF r
<1>4. ToInstall(r) = ToInstall(run[c]) /\ ToRemove(r) = ToRemove(run[c])
  BY <1>3 DEF ToInstall, ToRemove
<1>5. /\ Planned(run[c]) /\ AtHand(run[c], "loop") /\ Spared(run[c], plist, override)
      /\ Written(run[c], "loop", plist)
      /\ run[c].manages => /\ Switched(run[c], "loop", override)
                           /\ Removed(run[c], "loop", wrapper, plist, loaded)
  BY <1>1, AtWork DEF Holding
<1>6. j \in ToInstall(r)
  BY <1>4, <1>5 DEF AtHand
<1>7. Planned(r) /\ AtHand(r, "wrapper") /\ Spared(r, plist, override)
  BY <1>3, <1>4, <1>5, <1>6
  DEF Planned, AtHand, Spared, Writing, Switching, Removing
<1>8. Written(r, "wrapper", plist)
  BY <1>3, <1>4, <1>5 DEF Written, Writing
<1>9. run[c].manages => /\ Switched(r, "wrapper", override)
                        /\ Removed(r, "wrapper", wrapper', plist, loaded)
  <2>1. j \notin ToRemove(r)
    BY <1>6 DEF ToInstall, ToRemove
  <2>2. \A i \in ToRemove(r) : wrapper'[i] = wrapper[i]
    BY <1>1, <1>2, <2>1, AtWork
  <2> QED
    BY <1>3, <1>4, <1>5, <2>2 DEF Switched, Removed, Switching, Removing
<1>10. Holding(r, "wrapper", wrapper', plist', loaded', override')
  BY <1>1, <1>3, <1>7, <1>8, <1>9, AtWork DEF Holding
<1> QED
  BY <1>1, <1>3, <1>10, AtWork, SoloStep

LEMMA WriteSettles ==
  ASSUME Invs, NEW c \in Procs, FillWrapper(c) \/ OpenPlist(c)
  PROVE  SettleInv'
<1> DEFINE r == run[c]
           j == run[c].job
<1>1. PICK l \in Writing : pc[c] \in Writing /\ pc' = [pc EXCEPT ![c] = l]
  BY DEF FillWrapper, OpenPlist, Writing
<1>2. /\ UNCHANGED <<loaded, override, run>>
      /\ \E v : \/ wrapper' = [wrapper EXCEPT ![j] = v] /\ plist' = plist
                \/ plist' = [plist EXCEPT ![j] = v] /\ wrapper' = wrapper
  BY DEF FillWrapper, OpenPlist, launchd
<1>0. pc[c] \notin {"idle", "inspect"} /\ l \notin {"idle", "inspect"}
  BY <1>1 DEF Writing
<1>3. /\ Planned(r) /\ AtHand(r, pc[c]) /\ Spared(r, plist, override)
      /\ Written(r, pc[c], plist)
      /\ r.manages => /\ Switched(r, pc[c], override)
                      /\ Removed(r, pc[c], wrapper, plist, loaded)
      /\ r.kind = "prune" => r.want = NoJobs
  BY <1>0, AtWork DEF Holding
<1>4. j \in ToInstall(r)
  BY <1>1, <1>3 DEF AtHand
<1>5. \A i \in Jobs \ {j} : plist'[i] = plist[i] /\ wrapper'[i] = wrapper[i]
  BY <1>0, <1>2, AtWork
<1>6. /\ ToRemove(r) \subseteq Jobs \ {j} /\ Jobs \ Changing(r.plan) \subseteq Jobs \ {j}
      /\ ToInstall(r) \subseteq Jobs
  BY <1>0, <1>3, <1>4, AtWork DEF ToInstall, ToRemove, Planned, Changing
<1> HIDE DEF r, j
<1>7. AtHand(r, l) /\ Spared(r, plist', override)
  BY <1>1, <1>3, <1>4, <1>5, <1>6
  DEF AtHand, Spared, Writing, Switching, Removing, j, r
<1>8. Written(r, l, plist')
  BY <1>1, <1>3, <1>5, <1>6 DEF Written, j, r
<1>9. r.manages => Switched(r, l, override) /\ Removed(r, l, wrapper', plist', loaded)
  BY <1>1, <1>3, <1>5, <1>6
  DEF Switched, Removed, Writing, Switching, Removing
<1>10. Holding(r, l, wrapper', plist', loaded', override')
  BY <1>0, <1>2, <1>3, <1>7, <1>8, <1>9 DEF Holding
<1> QED
  BY <1>0, <1>1, <1>2, <1>10, SameMemorySettles DEF r

LEMMA FillPlistSettles ==
  ASSUME Invs, NEW c \in Procs, FillPlist(c)
  PROVE  SettleInv'
<1> DEFINE r == [run[c] EXCEPT !.job = Absent]
           j == run[c].job
<1>1. /\ pc[c] = "plisting" /\ pc' = [pc EXCEPT ![c] = "loop"]
      /\ plist' = [plist EXCEPT ![j] = run[c].want[j]]
      /\ UNCHANGED <<wrapper, loaded, override>>
  BY DEF FillPlist, launchd
<1>2. /\ r.want = run[c].want /\ r.kind = run[c].kind /\ r.manages = run[c].manages
      /\ run[c].refused \subseteq r.refused
      /\ r.plan = run[c].plan /\ r.acts = run[c].acts
      /\ r.writes = run[c].writes /\ run' = [run EXCEPT ![c] = r]
  BY <1>1, AtWork DEF Run, FillPlist
<1> HIDE DEF r
<1>3. /\ Planned(run[c]) /\ AtHand(run[c], "plisting") /\ Spared(run[c], plist, override)
      /\ Written(run[c], "plisting", plist)
      /\ run[c].manages => /\ Switched(run[c], "plisting", override)
                           /\ Removed(run[c], "plisting", wrapper, plist, loaded)
      /\ run[c].kind = "prune" => run[c].want = NoJobs
  BY <1>1, AtWork DEF Holding
<1>4. ToInstall(r) = ToInstall(run[c]) /\ ToRemove(r) = ToRemove(run[c])
  BY <1>2 DEF ToInstall, ToRemove
<1>5. j \in ToInstall(r)
  BY <1>3, <1>4 DEF AtHand, Writing
<1>6. /\ \A i \in Jobs \ {j} : plist'[i] = plist[i]
      /\ plist'[j] = r.want[j]
  BY <1>1, <1>2, <1>4, <1>5, AtWork
<1>7. /\ ToRemove(r) \subseteq Jobs \ {j} /\ Jobs \ Changing(r.plan) \subseteq Jobs \ {j}
      /\ ToInstall(r) \subseteq Jobs
  BY <1>1, <1>2, <1>3, <1>4, <1>5, AtWork DEF ToInstall, ToRemove, Planned, Changing
<1> HIDE DEF j
<1>8. Planned(r) /\ AtHand(r, "loop") /\ Spared(r, plist', override)
  BY <1>2, <1>3, <1>4, <1>6, <1>7
  DEF Planned, AtHand, Spared, Writing, Switching, Removing
<1>9. Written(r, "loop", plist')
  BY <1>2, <1>3, <1>4, <1>6, <1>7 DEF Written, Writing, j
<1>10. r.manages => Switched(r, "loop", override) /\ Removed(r, "loop", wrapper, plist', loaded)
  BY <1>2, <1>3, <1>4, <1>6, <1>7 DEF Switched, Removed, Switching, Removing
<1>11. Holding(r, "loop", wrapper', plist', loaded', override')
  BY <1>1, <1>2, <1>3, <1>8, <1>9, <1>10 DEF Holding
<1> QED
  BY <1>1, <1>2, <1>11, AtWork, SoloStep


(* Bringing a job to launchd. *)
LEMMA TakeSettles ==
  ASSUME Invs, NEW c \in Procs, NEW j \in Jobs,
         Bootout(c, j) \/ BootoutFails(c, j) \/ SkipLaunchctl(c, j)
  PROVE  SettleInv'
<1> DEFINE l == IF run[c].plan[j] = "remove" THEN "unlink"
                ELSE IF run[c].manages THEN "bootstrap" ELSE "loop"
<1>0. PICK stuck \in SUBSET {j} :
        /\ Acting(c, j) /\ Take(c, j, l, stuck)
        /\ loaded' \subseteq loaded
        /\ run[c].manages => j \notin loaded' \/ j \in stuck
        /\ UNCHANGED <<wrapper, plist, override>>
  BY DEF Bootout, BootoutFails, SkipLaunchctl, AfterBootout, disk, launchd
<1> DEFINE r == [run[c] EXCEPT !.job = j, !.acts = @ \ {j}, !.refused = @ \cup stuck]
<1>1. /\ pc[c] = "loop" /\ j \in run[c].acts /\ pc' = [pc EXCEPT ![c] = l]
      /\ loaded' \subseteq loaded /\ (run[c].manages => j \notin loaded' \/ j \in stuck)
      /\ UNCHANGED <<wrapper, plist, override>>
  BY <1>0 DEF Acting, Take
<1>2. /\ r.want = run[c].want /\ r.kind = run[c].kind /\ r.manages = run[c].manages
      /\ r.refused = run[c].refused \cup stuck
      /\ r.plan = run[c].plan /\ r.acts = run[c].acts \ {j} /\ r.job = j
      /\ r.writes = run[c].writes /\ run' = [run EXCEPT ![c] = r]
  BY <1>0, <1>1, AtWork DEF Run, Take
<1> HIDE DEF r
<1>3. /\ Planned(run[c]) /\ AtHand(run[c], "loop") /\ Spared(run[c], plist, override)
      /\ Written(run[c], "loop", plist)
      /\ run[c].manages => /\ Switched(run[c], "loop", override)
                           /\ Removed(run[c], "loop", wrapper, plist, loaded)
      /\ run[c].kind = "prune" => run[c].want = NoJobs
  BY <1>1, AtWork DEF Holding
<1>4. ToInstall(r) = ToInstall(run[c]) /\ ToRemove(r) = ToRemove(run[c])
  BY <1>2 DEF ToInstall, ToRemove
<1>5. /\ l = "unlink" => j \in ToRemove(r)
      /\ l = "bootstrap" => j \in ToInstall(r)
  <2>1. j \in Changing(run[c].plan)
    BY <1>1, <1>3 DEF AtHand
  <2>2. run[c].plan[j] = "remove" <=> j \notin Present(run[c].want)
    BY <1>3, <2>1 DEF Planned, Changing
  <2> QED
    BY <1>4, <2>1, <2>2 DEF ToInstall, ToRemove
<1>6. l \in {"unlink", "bootstrap", "loop"} /\ (l = "loop" => ~run[c].manages)
  OBVIOUS
<1> HIDE DEF l
<1>7. Planned(r) /\ AtHand(r, l) /\ Spared(r, plist, override)
  BY <1>2, <1>3, <1>4, <1>5, <1>6
  DEF Planned, AtHand, Spared, Writing, Switching, Removing
<1>8. Written(r, l, plist)
  BY <1>2, <1>3, <1>4 DEF Written, Writing
<1>9. ASSUME r.manages PROVE Switched(r, l, override) /\ Removed(r, l, wrapper, plist, loaded')
  <2>1. ToInstall(r) \cap ToRemove(r) = {}
    BY DEF ToInstall, ToRemove
  <2>2. \A i \in ToInstall(r) : i = j => l = "bootstrap"
    BY <1>2, <1>5, <1>6, <1>9, <2>1
  <2>3. \A i \in ToRemove(r) : i = j => l = "unlink"
    BY <1>2, <1>5, <1>6, <1>9, <2>1
  <2>4. Switched(r, l, override)
    BY <1>2, <1>3, <1>4, <1>9, <2>2 DEF Switched, Switching
  <2>5. Removed(r, l, wrapper, plist, loaded')
    BY <1>1, <1>2, <1>3, <1>4, <1>6, <1>9, <2>3 DEF Removed, Removing
  <2> QED
    BY <2>4, <2>5
<1>10. Holding(r, l, wrapper', plist', loaded', override')
  BY <1>1, <1>2, <1>3, <1>6, <1>7, <1>8, <1>9 DEF Holding
<1> QED
  BY <1>1, <1>2, <1>10, AtWork, SoloStep

LEMMA BootstrapSettles ==
  ASSUME Invs, NEW c \in Procs, Bootstrap(c)
  PROVE  SettleInv'
<1> DEFINE r == run[c]
<1>1. /\ pc[c] = "bootstrap" /\ pc' = [pc EXCEPT ![c] = "flag"]
      /\ loaded' = loaded \cup {r.job} /\ UNCHANGED <<wrapper, plist, override, run>>
  BY DEF Bootstrap, disk
<1>2. /\ Planned(r) /\ AtHand(r, "bootstrap") /\ Spared(r, plist, override)
      /\ Written(r, "bootstrap", plist)
      /\ r.manages => /\ Switched(r, "bootstrap", override)
                      /\ Removed(r, "bootstrap", wrapper, plist, loaded)
      /\ r.kind = "prune" => r.want = NoJobs
  BY <1>1, AtWork DEF Holding
<1> HIDE DEF r
<1>3. r.job \in ToInstall(r) /\ r.job \notin ToRemove(r)
  BY <1>2 DEF AtHand, Switching, ToInstall, ToRemove
<1>4. AtHand(r, "flag") /\ Written(r, "flag", plist)
  BY <1>2 DEF AtHand, Written, Writing, Switching, Removing
<1>5. r.manages => Switched(r, "flag", override) /\ Removed(r, "flag", wrapper, plist, loaded')
  BY <1>1, <1>2, <1>3 DEF Switched, Removed, Switching, Removing
<1>6. Holding(r, "flag", wrapper', plist', loaded', override')
  BY <1>1, <1>2, <1>4, <1>5 DEF Holding
<1> QED
  BY <1>1, <1>6, SameMemorySettles DEF r

LEMMA SwitchSettles ==
  ASSUME Invs, NEW c \in Procs, SetSwitch(c)
  PROVE  SettleInv'
<1> DEFINE r == run[c]
           j == run[c].job
<1>1. /\ pc[c] = "flag" /\ pc' = [pc EXCEPT ![c] = "loop"]
      /\ override' = [override EXCEPT ![j] = Switch(r.plan[j])]
      /\ UNCHANGED <<wrapper, plist, loaded, run>>
  BY DEF SetSwitch, disk
<1>2. /\ Planned(r) /\ AtHand(r, "flag") /\ Spared(r, plist, override)
      /\ Written(r, "flag", plist)
      /\ r.manages => /\ Switched(r, "flag", override)
                      /\ Removed(r, "flag", wrapper, plist, loaded)
      /\ r.kind = "prune" => r.want = NoJobs
  BY <1>1, AtWork DEF Holding
<1>3. j \in ToInstall(r) /\ j \in Changing(r.plan) /\ ToInstall(r) \subseteq Jobs
  BY <1>1, <1>2, AtWork DEF AtHand, Switching, ToInstall
<1>4. /\ override'[j] = Switch(r.plan[j])
      /\ \A i \in Jobs \ {j} : override'[i] = override[i]
  BY <1>1, <1>3, AtWork
<1>5. r.job = j
  OBVIOUS
<1> HIDE DEF r, j
<1>6. AtHand(r, "loop") /\ Written(r, "loop", plist) /\ Spared(r, plist, override')
  BY <1>2, <1>3, <1>4 DEF AtHand, Written, Spared, Writing, Switching, Removing
<1>7. r.manages => Switched(r, "loop", override')
  BY <1>2, <1>3, <1>4, <1>5 DEF Switched
<1>8. r.manages => Removed(r, "loop", wrapper, plist, loaded)
  BY <1>2 DEF Removed, Removing
<1>9. Holding(r, "loop", wrapper', plist', loaded', override')
  BY <1>1, <1>2, <1>6, <1>7, <1>8 DEF Holding
<1> QED
  BY <1>1, <1>9, SameMemorySettles DEF r

LEMMA UnlinkPlistSettles ==
  ASSUME Invs, NEW c \in Procs, UnlinkPlist(c)
  PROVE  SettleInv'
<1> DEFINE r == run[c]
           j == run[c].job
<1>1. /\ pc[c] = "unlink" /\ pc' = [pc EXCEPT ![c] = "unwrap"]
      /\ plist' = [plist EXCEPT ![j] = Absent]
      /\ UNCHANGED <<wrapper, loaded, override, run>>
  BY DEF UnlinkPlist, launchd
<1>2. /\ Planned(r) /\ AtHand(r, "unlink") /\ Spared(r, plist, override)
      /\ Written(r, "unlink", plist)
      /\ r.manages => /\ Switched(r, "unlink", override)
                      /\ Removed(r, "unlink", wrapper, plist, loaded)
      /\ r.kind = "prune" => r.want = NoJobs
  BY <1>1, AtWork DEF Holding
<1>3. /\ j \in ToRemove(r) /\ j \in Changing(r.plan) /\ j \in Jobs
      /\ j \notin ToInstall(r) /\ ToInstall(r) \subseteq Jobs /\ ToRemove(r) \subseteq Jobs
  BY <1>1, <1>2, AtWork DEF AtHand, Removing, ToInstall, ToRemove, Changing, Planned
<1>4. /\ plist'[j] = Absent
      /\ \A i \in Jobs \ {j} : plist'[i] = plist[i]
  BY <1>1, <1>3, AtWork
<1>5. r.job = j
  OBVIOUS
<1> HIDE DEF r, j
<1>6. AtHand(r, "unwrap") /\ Written(r, "unwrap", plist') /\ Spared(r, plist', override)
  BY <1>2, <1>3, <1>4 DEF AtHand, Written, Spared, Writing, Switching, Removing
<1>7. r.manages => Switched(r, "unwrap", override)
  BY <1>2 DEF Switched, Switching
<1>8. r.manages => Removed(r, "unwrap", wrapper, plist', loaded)
  BY <1>2, <1>3, <1>4, <1>5 DEF Removed, Removing
<1>9. Holding(r, "unwrap", wrapper', plist', loaded', override')
  BY <1>1, <1>2, <1>6, <1>7, <1>8 DEF Holding
<1> QED
  BY <1>1, <1>9, SameMemorySettles DEF r

LEMMA UnlinkWrapperSettles ==
  ASSUME Invs, NEW c \in Procs, UnlinkWrapper(c)
  PROVE  SettleInv'
<1> DEFINE r == run[c]
           j == run[c].job
<1>1. /\ pc[c] = "unwrap" /\ pc' = [pc EXCEPT ![c] = "loop"]
      /\ wrapper' = [wrapper EXCEPT ![j] = Absent]
      /\ UNCHANGED <<plist, loaded, override, run>>
  BY DEF UnlinkWrapper, launchd
<1>2. /\ Planned(r) /\ AtHand(r, "unwrap") /\ Spared(r, plist, override)
      /\ Written(r, "unwrap", plist)
      /\ r.manages => /\ Switched(r, "unwrap", override)
                      /\ Removed(r, "unwrap", wrapper, plist, loaded)
      /\ r.kind = "prune" => r.want = NoJobs
  BY <1>1, AtWork DEF Holding
<1>3. j \in ToRemove(r) /\ j \in Jobs /\ ToRemove(r) \subseteq Jobs
  BY <1>1, <1>2, AtWork DEF AtHand, Removing, ToRemove, Changing, Planned
<1>4. /\ wrapper'[j] = Absent
      /\ \A i \in Jobs \ {j} : wrapper'[i] = wrapper[i]
  BY <1>1, <1>3, AtWork
<1>5. r.job = j
  OBVIOUS
<1> HIDE DEF r, j
<1>6. AtHand(r, "loop") /\ Written(r, "loop", plist)
  BY <1>2 DEF AtHand, Written, Writing, Switching, Removing
<1>7. r.manages => Switched(r, "loop", override)
  BY <1>2 DEF Switched, Switching
<1>8. r.manages => Removed(r, "loop", wrapper', plist, loaded)
  BY <1>2, <1>3, <1>4, <1>5 DEF Removed, Removing
<1>9. Holding(r, "loop", wrapper', plist', loaded', override')
  BY <1>1, <1>2, <1>6, <1>7, <1>8 DEF Holding
<1> QED
  BY <1>1, <1>9, SameMemorySettles DEF r

LEMMA SettleNext ==
  ASSUME Exclusive
  PROVE  Invs /\ [Next]_vars => SettleInv'
<1> SUFFICES ASSUME Invs, [Next]_vars PROVE SettleInv'
  OBVIOUS
<1>1. CASE UNCHANGED vars \/ EditManifest
  BY <1>1 DEF vars, disk, launchd, EditManifest, Invs, SettleInv
<1>2. ASSUME NEW j \in Jobs, UserBootsOut(j) \/ UserRemovesPlist(j)
      PROVE  SettleInv'
  <2>1. \A c \in Procs : pc'[c] = "idle"
    BY <1>2 DEF UserBootsOut, UserRemovesPlist, MayTouch, AllIdle
  <2> QED
    BY <2>1, IdleHolds DEF SettleInv
<1>3. CASE Login
  <2>1. \A c \in Procs : pc'[c] = "idle"
    BY <1>3 DEF Login
  <2> QED
    BY <2>1, IdleHolds DEF SettleInv
<1>4. ASSUME NEW c \in Procs, Abort(c) \/ SaveRecord(c) PROVE SettleInv'
  BY <1>4, LeaveSettles DEF Abort, SaveRecord
<1>5. ASSUME NEW c \in Procs, Step(c) PROVE SettleInv'
  BY <1>4, <1>5, InspectSettles, OpenWrapperSettles, WriteSettles, FillPlistSettles,
     TakeSettles, BootstrapSettles, SwitchSettles, UnlinkPlistSettles,
     UnlinkWrapperSettles DEF Step
<1> QED
  BY <1>1, <1>2, <1>3, <1>4, <1>5, StartSettles DEF Next

LEMMA AlwaysSettles == ASSUME Exclusive PROVE Spec => []Invs
<1>1. Init => Invs
  <2>1. Init => SettleInv
    BY IdleHolds DEF Init, SettleInv
  <2> QED
    BY <2>1, InitTypes, InitOutFirst DEF Invs
<1>2. Invs /\ [Next]_vars => Invs'
  BY StepTypes, StepOutFirst, SettleNext DEF Invs
<1> QED
  BY <1>1, <1>2, PTL DEF Spec

(* An apply that manages launchd and has it to itself, when it has run to  *)
(* its end, leaves status nothing to do but to switch off the disabled     *)
(* jobs it has itself created or updated, whatever half-done invocations,  *)
(* hand-made removals and logins came before it.                           *)
THEOREM AppliesSettle == ASSUME Exclusive PROVE Spec => []ApplySettles
<1>1. Invs => ApplySettles
  BY SettledApply DEF Invs
<1> QED
  BY <1>1, AlwaysSettles, PTL

(* A prune that manages launchd and has it to itself, when it has run to   *)
(* its end, leaves the project no plist, and of a job that had one no      *)
(* wrapper and no service, but for a service launchctl refused to boot out *)
(* for this prune.                                                         *)
THEOREM PrunesClear == ASSUME Exclusive PROVE Spec => []PruneClears
<1>1. Invs => PruneClears
  BY SettledPrune DEF Invs
<1> QED
  BY <1>1, AlwaysSettles, PTL
=============================================================================
