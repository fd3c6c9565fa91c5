---------------------------- MODULE SharedFiles_proofs ----------------------------
(***************************************************************************)
(* The files that several xcron processes read, amend and write in place:  *)
(* the metrics file, the files of a workspace that `xcron init` creates,   *)
(* and the hook files of the coding agents.  What is proved of each holds  *)
(* for any number of processes and any contents to begin with.             *)
(***************************************************************************)
EXTENDS MetricsFile, Workspace, AgentHooks, SequenceTheorems, WellFoundedInduction, TLAPS

-----------------------------------------------------------------------------
(* The metrics file: its counters are honest. *)


\* Adding one to a counter.
LEMMA AddFacts ==
  ASSUME NEW m \in [Counters -> Nat], NEW c \in Counters
  PROVE  /\ Add(m, c) \in [Counters -> Nat]
         /\ Add(m, c)[c] = m[c] + 1
         /\ \A d \in Counters \ {c} : Add(m, c)[d] = m[d]
BY DEF Add

LEMMA EmptyFacts == Empty \in [Counters -> Nat] /\ \A c \in Counters : Empty[c] = 0
BY DEF Empty

-----------------------------------------------------------------------------
(* The inductive invariant.  A draft may be written at any time later, so what *)
(* is said of the file is said of the drafts too.                              *)

Typed ==
  /\ counts \in [Counters -> Nat] /\ draft \in [Writers -> [Counters -> Nat]]
  /\ bumps \in [Counters -> Nat] /\ since \in [Counters -> Nat]
  /\ step \in [Writers -> UpdateSteps]
  /\ handle \subseteq Wrappers /\ overlaid \subseteq handle
  /\ resets \in 0..MaxResets /\ harmed \in BOOLEAN

\* No file and no draft shows more than was begun, nor is more begun than the bound allows.
Below(m) == \A c \in Counters : m[c] <= bumps[c]
Bounded ==
  /\ \A c \in Counters : bumps[c] <= MaxBumps
  /\ Below(counts) /\ Below(since)
  /\ \A p \in Writers : Below(draft[p])

\* Unless something was harmed at most one update is underway; its draft is the exact
\* count, and the file it fills is still its own, with nothing laid over it.
Exact ==
  ~harmed =>
    /\ \A p, q \in Busy : p = q
    /\ Busy = {} => counts = since
    /\ \A p \in Busy : draft[p] = since /\ (step[p] = "filling" => p \in handle \ overlaid)

Inv == Typed /\ Bounded /\ Exact

LEMMA InitInv == MetricsInit => Inv
<1> SUFFICES ASSUME MetricsInit PROVE Inv
  OBVIOUS
<1>1. Typed
  <2>1. /\ counts \in [Counters -> Nat] /\ bumps \in [Counters -> Nat]
        /\ since \in [Counters -> Nat]
    BY EmptyFacts DEF MetricsInit
  <2>2. draft \in [Writers -> [Counters -> Nat]]
    BY EmptyFacts DEF MetricsInit
  <2>3. step \in [Writers -> UpdateSteps]
    BY DEF MetricsInit, UpdateSteps
  <2>4. handle \subseteq Wrappers /\ overlaid \subseteq handle
    BY DEF MetricsInit
  <2>5. resets \in 0..MaxResets
    BY MetricsAssumption DEF MetricsInit
  <2>6. harmed \in BOOLEAN
    BY Zenon DEF MetricsInit
  <2> QED
    BY <2>1, <2>2, <2>3, <2>4, <2>5, <2>6 DEF Typed
<1>2. Bounded
  BY EmptyFacts, MetricsAssumption DEF MetricsInit, Bounded, Below
<1>3. Exact
  BY DEF MetricsInit, Exact, Busy
<1> QED
  BY <1>1, <1>2, <1>3 DEF Inv

-----------------------------------------------------------------------------
(* One lemma per action.                                                       *)

LEMMA IncrementInv ==
  ASSUME Inv, NEW p \in Writers, NEW c \in Counters, Increment(p, c) PROVE Inv'
<1> USE DEF Increment, Move
<1>1. Typed'
  BY AddFacts DEF Inv, Typed, UpdateSteps
<1>2. /\ \A q \in Writers \ {p} : draft'[q] = draft[q]
      /\ draft'[p] = Add(counts, c)
  BY DEF Inv, Typed
<1>3. Bounded'
  <2>1. /\ bumps \in [Counters -> Nat] /\ counts \in [Counters -> Nat]
        /\ since \in [Counters -> Nat] /\ MaxBumps \in Nat
        /\ \A q \in Writers : draft[q] \in [Counters -> Nat]
    BY MetricsAssumption DEF Inv, Typed
  <2>2. /\ bumps' \in [Counters -> Nat] /\ bumps'[c] = bumps[c] + 1
        /\ \A d \in Counters \ {c} : bumps'[d] = bumps[d]
    BY <2>1, AddFacts
  <2>3. /\ Add(counts, c)[c] = counts[c] + 1 /\ since'[c] = since[c] + 1
        /\ \A d \in Counters \ {c} : Add(counts, c)[d] = counts[d] /\ since'[d] = since[d]
    BY <2>1, AddFacts
  <2>4. \A d \in Counters : /\ bumps'[d] <= MaxBumps
                            /\ Add(counts, c)[d] <= bumps'[d] /\ since'[d] <= bumps'[d]
    BY <2>1, <2>2, <2>3 DEF Inv, Bounded, Below
  <2>5. \A m \in [Counters -> Nat] : Below(m) => \A d \in Counters : m[d] <= bumps'[d]
    BY <2>1, <2>2 DEF Below
  <2>6. Below(counts)' /\ \A q \in Writers \ {p} : \A d \in Counters : draft[q][d] <= bumps'[d]
    BY <2>1, <2>5 DEF Inv, Bounded, Below
  <2> QED
    BY <1>2, <2>4, <2>6 DEF Bounded, Below
<1>4. Exact'
  <2> SUFFICES ASSUME ~harmed'
               PROVE  /\ \A q \in Busy' : q = p /\ step'[q] # "filling"
                      /\ p \in Busy' /\ draft'[p] = since'
    BY <1>2 DEF Exact
  <2>1. ~harmed /\ Busy = {}
    OBVIOUS
  <2>2. Busy' = {p} /\ step'[p] = "adding"
    BY <2>1 DEF Inv, Typed, Busy
  <2>3. draft'[p] = since'
    BY <1>2, <2>1 DEF Inv, Exact
  <2> QED
    BY <2>2, <2>3
<1> QED
  BY <1>1, <1>3, <1>4 DEF Inv

LEMMA ResetInv ==
  ASSUME Inv, NEW p \in Commands, Reset(p) PROVE Inv'
<1> USE DEF Reset, Move
<1>1. p \in Writers
  BY DEF Writers
<1>2. Typed'
  BY <1>1, EmptyFacts, MetricsAssumption DEF Inv, Typed, UpdateSteps
<1>3. /\ \A q \in Writers \ {p} : draft'[q] = draft[q]
      /\ draft'[p] = Empty
  BY <1>1 DEF Inv, Typed
<1>4. Bounded'
  BY <1>3, EmptyFacts DEF Inv, Typed, Bounded, Below
<1>5. Exact'
  <2> SUFFICES ASSUME ~harmed' PROVE Busy' = {p} /\ step'[p] = "resetting"
    BY <1>3 DEF Exact
  <2> QED
    BY <1>1 DEF Inv, Typed, Busy
<1> QED
  BY <1>2, <1>4, <1>5 DEF Inv

LEMMA SwapInv ==
  ASSUME Inv, NEW p \in Writers, Swap(p) PROVE Inv'
<1> USE DEF Swap, Move
<1>1. Typed'
  BY DEF Inv, Typed, UpdateSteps
<1>2. Bounded'
  BY DEF Inv, Bounded, Below
<1>3. Exact'
  BY DEF Inv, Typed, Exact, Busy
<1> QED
  BY <1>1, <1>2, <1>3 DEF Inv

LEMMA TruncateInv ==
  ASSUME Inv, NEW p \in Writers, Truncate(p) PROVE Inv'
<1> USE DEF Truncate, Move
<1>1. Typed'
  BY EmptyFacts DEF Inv, Typed, UpdateSteps
<1>2. Bounded'
  BY EmptyFacts DEF Inv, Typed, Bounded, Below
<1>3. Exact'
  <2> SUFFICES ASSUME ~harmed' PROVE Busy' = {p} /\ draft[p] = since
    BY DEF Exact
  <2> QED
    BY DEF Inv, Typed, Exact, Busy
<1> QED
  BY <1>1, <1>2, <1>3 DEF Inv

LEMMA FillInv ==
  ASSUME Inv, NEW p \in Writers, Fill(p) PROVE Inv'
<1> USE DEF Fill, Move
<1>1. counts' \in {counts, draft[p], Empty}
  OBVIOUS
<1>2. Typed'
  BY <1>1, EmptyFacts DEF Inv, Typed, UpdateSteps
<1>3. Bounded'
  BY <1>1, EmptyFacts DEF Inv, Typed, Bounded, Below
<1>4. Exact'
  <2> SUFFICES ASSUME ~harmed' PROVE Busy' = {} /\ counts' = since
    BY DEF Exact
  <2>1. p \in Busy /\ \A q \in Busy : q = p
    BY DEF Inv, Exact, Busy
  <2>2. draft[p] = since /\ p \in handle \ overlaid
    BY <2>1 DEF Inv, Exact
  <2> QED
    BY <2>1, <2>2 DEF Inv, Typed, Busy
<1> QED
  BY <1>2, <1>3, <1>4 DEF Inv

LEMMA AbortInv ==
  ASSUME Inv, NEW p \in Writers, Abort(p) PROVE Inv'
<1> USE DEF Abort, Move
<1>1. Typed'
  BY DEF Inv, Typed, UpdateSteps
<1>2. Bounded'
  BY DEF Inv, Bounded, Below
<1>3. Exact'
  BY DEF Exact
<1> QED
  BY <1>1, <1>2, <1>3 DEF Inv

LEMMA StepInv == Inv /\ [MetricsNext]_metricsVars => Inv'
<1> SUFFICES ASSUME Inv, [MetricsNext]_metricsVars PROVE Inv'
  OBVIOUS
<1>1. ASSUME NEW p \in Writers, NEW c \in Counters, Increment(p, c) PROVE Inv'
  BY <1>1, IncrementInv
<1>2. ASSUME NEW p \in Commands, Reset(p) \/ Swap(p) PROVE Inv'
  BY <1>2, ResetInv, SwapInv DEF Writers
<1>3. ASSUME NEW p \in Wrappers, Truncate(p) \/ Fill(p) PROVE Inv'
  BY <1>3, TruncateInv, FillInv DEF Writers
<1>4. ASSUME NEW p \in Writers, Abort(p) PROVE Inv'
  BY <1>4, AbortInv
<1>5. CASE UNCHANGED metricsVars
  BY <1>5 DEF metricsVars, Inv, Typed, Bounded, Below, Exact, Busy
<1> QED
  BY <1>1, <1>2, <1>3, <1>4, <1>5 DEF MetricsNext

-----------------------------------------------------------------------------
(* The theorems.                                                               *)

LEMMA AlwaysInv == MetricsSpec => []Inv
BY InitInv, StepInv, PTL DEF MetricsSpec

\* Every variable keeps its type; no counter passes the bound on additions.
THEOREM TypeCorrect == MetricsSpec => []MetricsTypeOK
<1>1. Inv => MetricsTypeOK
  <2> SUFFICES ASSUME Inv PROVE MetricsTypeOK
    OBVIOUS
  <2>1. \A m \in [Counters -> Nat] : Below(m) => m \in [Counters -> 0..MaxBumps]
    BY MetricsAssumption DEF Inv, Typed, Bounded, Below
  <2>2. /\ counts \in [Counters -> 0..MaxBumps] /\ since \in [Counters -> 0..MaxBumps]
        /\ \A p \in Writers : draft[p] \in [Counters -> 0..MaxBumps]
    BY <2>1 DEF Inv, Typed, Bounded
  <2>3. bumps \in [Counters -> 0..MaxBumps]
    BY MetricsAssumption DEF Inv, Typed, Bounded
  <2> QED
    BY <2>2, <2>3 DEF Inv, Typed, MetricsTypeOK
<1> QED
  BY <1>1, AlwaysInv, PTL

\* Whatever overlaps, fails or dies, no counter of the file shows more than was counted;
\* and when all is quiet it is exact, unless updates overlapped, died or failed since the
\* last reset that ran alone.
THEOREM Honest == MetricsSpec => []MetricsAreHonest
<1>1. Inv => MetricsAreHonest
  BY DEF Inv, Bounded, Below, Exact, MetricsAreHonest
<1> QED
  BY <1>1, AlwaysInv, PTL

-----------------------------------------------------------------------------
(* xcron init.  What an init found is never gone, and what it is about to     *)
(* write was not there when it began; of an init during which nobody else     *)
(* wrote, the directory is what it made of it; and a manifest is cut short    *)
(* only where somebody fills it or died doing so.                             *)

DirectoryTyped ==
  /\ fs \in [Paths -> Contents]
  /\ pc \in [Inits -> InitPhases]
  /\ blocked \in [Inits -> BOOLEAN]
  /\ conflicts \in [Inits -> SUBSET Paths]
  /\ found \in [Inits -> SUBSET Paths]
  /\ alone \subseteq Inits

Kept(i) ==
  /\ \A p \in found[i] : fs[p] # "absent"
  /\ pc[i] \in {"write", "fill"} => "manifest" \notin found[i]
  /\ pc[i] \in {"mark", "sign"} => "marker" \notin found[i]

\* The schedules directory is there, or the reason it is not, and that was reported.
Housed(i) ==
  /\ blocked[i] => \/ fs["schedules"] = "absent" /\ fs["legacy"] = "directory"
                   \/ fs["schedules"] \notin {"absent", "directory"} /\ "schedules" \in conflicts[i]
  /\ ~blocked[i] => fs["schedules"] = "directory"

Solo(i) ==
  i \in alone =>
    /\ pc[i] = "mkdir" => fs["schedules"] = "absent" /\ ~blocked[i]
    /\ pc[i] \in {"look", "write", "fill", "read", "check", "mark", "sign"} => Housed(i)
    /\ pc[i] \in {"read", "check", "mark", "sign"} => blocked[i] \/ fs["manifest"] # "absent"

TornIsExplained == fs["manifest"] = "torn" => \E j \in Inits : pc[j] \in {"fill", "dead"}

DirectoryInv ==
  DirectoryTyped /\ (\A i \in Inits : Kept(i) /\ Solo(i)) /\ TornIsExplained

LEMMA InitDirectory == WorkspaceInit => DirectoryInv
<1> SUFFICES ASSUME WorkspaceInit PROVE DirectoryInv
  OBVIOUS
<1>1. DirectoryTyped
  BY DEF WorkspaceInit, DirectoryTyped, InitPhases
<1>2. \A i \in Inits : Kept(i) /\ Solo(i)
  BY DEF WorkspaceInit, Kept, Solo
<1>3. TornIsExplained
  BY DEF WorkspaceInit, TornIsExplained, Paths
<1> QED
  BY <1>1, <1>2, <1>3 DEF DirectoryInv

LEMMA PathFacts ==
  /\ "schedules" \in Paths /\ "legacy" \in Paths /\ "manifest" \in Paths /\ "marker" \in Paths
  /\ \A s \in {"absent", "directory", "starter", "marked", "torn"} : s \in Contents
BY DEF Paths, Contents

(* A step of i that writes nothing. *)
Looks(i) ==
  /\ fs' = fs /\ found' = found /\ alone' = alone /\ pc' = [pc EXCEPT ![i] = pc'[i]]
  /\ pc'[i] \in InitPhases
  /\ blocked' = blocked
  /\ conflicts' = [conflicts EXCEPT ![i] = conflicts'[i]] /\ conflicts'[i] \in SUBSET Paths

(* A step of i that writes a path. *)
Writes(i, p, content) ==
  /\ Put(i, p, content) /\ p \in Paths /\ content \in Contents \ {"absent"}
  /\ found' = found /\ blocked' = blocked /\ conflicts' = conflicts
  /\ pc' = [pc EXCEPT ![i] = pc'[i]] /\ pc'[i] \in InitPhases

LEMMA OthersStand ==
  ASSUME DirectoryInv, NEW i \in Inits,
         Looks(i) \/ \E p, content : Writes(i, p, content)
  PROVE  DirectoryTyped' /\ \A j \in Inits \ {i} : Kept(j)' /\ Solo(j)'
<1>1. DirectoryTyped /\ \A j \in Inits : Kept(j) /\ Solo(j)
  BY DEF DirectoryInv
<1>2. CASE Looks(i)
  <2>1. DirectoryTyped'
    BY <1>1, <1>2 DEF DirectoryTyped, Looks
  <2>2. ASSUME NEW j \in Inits \ {i} PROVE Kept(j)' /\ Solo(j)'
    <3>1. pc'[j] = pc[j] /\ conflicts'[j] = conflicts[j]
      BY <1>1, <1>2 DEF DirectoryTyped, Looks
    <3> QED
      BY <1>1, <1>2, <3>1 DEF Looks, Kept, Solo, Housed
  <2> QED
    BY <2>1, <2>2
<1>3. ASSUME NEW p, NEW content, Writes(i, p, content)
      PROVE  DirectoryTyped' /\ \A j \in Inits \ {i} : Kept(j)' /\ Solo(j)'
  <2>1. DirectoryTyped'
    BY <1>1, <1>3 DEF DirectoryTyped, Writes, Put
  <2>2. ASSUME NEW j \in Inits \ {i} PROVE Kept(j)' /\ Solo(j)'
    <3>1. pc'[j] = pc[j] /\ j \notin alone'
      BY <1>1, <1>3 DEF DirectoryTyped, Writes, Put
    <3>2. \A q \in Paths : fs[q] # "absent" => fs'[q] # "absent"
      BY <1>1, <1>3 DEF DirectoryTyped, Writes, Put
    <3>3. found'[j] = found[j] /\ found[j] \subseteq Paths
      BY <1>1, <1>3 DEF DirectoryTyped, Writes
    <3> QED
      BY <1>1, <3>1, <3>2, <3>3 DEF Kept, Solo
  <2> QED
    BY <2>1, <2>2
<1> QED
  BY <1>2, <1>3

LEMMA LookForSchedulesKeeps ==
  ASSUME DirectoryInv, NEW i \in Inits, LookForSchedules(i)
  PROVE  DirectoryInv'
<1> DEFINE adopts == ~Exists("schedules") /\ fs["legacy"] = "directory"
           refuses == Exists("schedules") /\ fs["schedules"] # "directory"
<1>1. DirectoryTyped /\ (\A j \in Inits : Kept(j) /\ Solo(j)) /\ TornIsExplained
  BY DEF DirectoryInv
<1>2. /\ fs' = fs /\ pc[i] = "idle" /\ alone' = alone \cup {i}
      /\ pc' = [pc EXCEPT ![i] = IF Exists("schedules") \/ adopts THEN "look" ELSE "mkdir"]
      /\ blocked' = [blocked EXCEPT ![i] = adopts \/ refuses]
      /\ conflicts' = [conflicts EXCEPT ![i] = IF refuses THEN {"schedules"} ELSE {}]
      /\ found' = [found EXCEPT ![i] = {p \in Paths : Exists(p)}]
  BY DEF LookForSchedules, At, Goto
<1>3. DirectoryTyped'
  <2>1. pc' \in [Inits -> InitPhases]
    BY <1>1, <1>2 DEF DirectoryTyped, InitPhases
  <2>2. conflicts' \in [Inits -> SUBSET Paths]
    BY <1>1, <1>2 DEF DirectoryTyped, Paths
  <2>3. found' \in [Inits -> SUBSET Paths]
    BY <1>1, <1>2 DEF DirectoryTyped
  <2>4. blocked' \in [Inits -> BOOLEAN]
    BY <1>1, <1>2 DEF DirectoryTyped
  <2> QED
    BY <1>1, <1>2, <2>1, <2>2, <2>3, <2>4 DEF DirectoryTyped
<1>4. ASSUME NEW j \in Inits \ {i} PROVE Kept(j)' /\ Solo(j)'
  <2>1. /\ pc'[j] = pc[j] /\ conflicts'[j] = conflicts[j] /\ blocked'[j] = blocked[j]
        /\ found'[j] = found[j] /\ (j \in alone' => j \in alone)
    BY <1>1, <1>2 DEF DirectoryTyped
  <2> QED
    BY <1>1, <1>2, <2>1 DEF Kept, Solo, Housed
<1>5. /\ pc'[i] = (IF Exists("schedules") \/ adopts THEN "look" ELSE "mkdir")
      /\ (blocked'[i] <=> adopts \/ refuses)
      /\ conflicts'[i] = (IF refuses THEN {"schedules"} ELSE {})
      /\ found'[i] = {p \in Paths : Exists(p)}
  BY <1>1, <1>2 DEF DirectoryTyped
<1>6. Kept(i)'
  BY <1>2, <1>5 DEF Kept, Exists
<1>7. Solo(i)'
  BY <1>2, <1>5 DEF Solo, Housed, Exists
<1>8. TornIsExplained'
  <2>1. ASSUME NEW j \in Inits, pc[j] \in {"fill", "dead"} PROVE pc'[j] = pc[j]
    BY <1>1, <1>2, <2>1 DEF DirectoryTyped
  <2> QED
    BY <1>1, <1>2, <2>1 DEF TornIsExplained
<1> QED
  BY <1>3, <1>4, <1>6, <1>7, <1>8 DEF DirectoryInv

(* The manifest after a step of i. *)
LEMMA TornStays ==
  ASSUME DirectoryTyped, TornIsExplained, NEW i \in Inits, fs'["manifest"] = fs["manifest"],
         pc' = [pc EXCEPT ![i] = pc'[i]], pc[i] \notin {"fill", "dead"} \/ pc'[i] = "dead"
  PROVE  TornIsExplained'
<1>1. \A j \in Inits \ {i} : pc'[j] = pc[j]
  BY DEF DirectoryTyped
<1> QED
  BY <1>1 DEF TornIsExplained

(* One step of an init: it writes at most one path, that was not there when it  *)
(* began, and keeps what is known of it.                                        *)
LEMMA StepKeeps ==
  ASSUME DirectoryInv, NEW i \in Inits,
         \/ MakeSchedules(i) \/ MakeSchedulesFails(i) \/ LookForManifest(i) \/ OpenManifest(i)
         \/ FillManifest(i) \/ ApplyMarker(i) \/ CheckMarkerPath(i) \/ OpenMarker(i)
         \/ FillMarker(i) \/ DieInit(i)
  PROVE  DirectoryInv'
<1>1. DirectoryTyped /\ Kept(i) /\ Solo(i) /\ TornIsExplained
  BY DEF DirectoryInv
<1>2. /\ pc[i] \in InitPhases /\ blocked[i] \in BOOLEAN
      /\ conflicts[i] \in SUBSET Paths /\ found[i] \in SUBSET Paths
  BY <1>1 DEF DirectoryTyped
<1>a. ASSUME Looks(i) \/ \E p, content : Writes(i, p, content), Kept(i)', Solo(i)', TornIsExplained'
      PROVE  DirectoryInv'
  BY <1>a, OthersStand DEF DirectoryInv
<1>b. ASSUME NEW phase \in InitPhases, Goto(i, phase)
      PROVE  pc'[i] = phase /\ pc' = [pc EXCEPT ![i] = pc'[i]]
  BY <1>1, <1>b DEF Goto, DirectoryTyped
<1>c. ASSUME NEW p \in Paths, NEW content \in Contents, Put(i, p, content)
      PROVE  fs'[p] = content /\ (\A q \in Paths \ {p} : fs'[q] = fs[q]) /\ (i \in alone' => i \in alone)
  BY <1>1, <1>c DEF Put, DirectoryTyped
<1>3. CASE MakeSchedules(i)
  <2>1. pc[i] = "mkdir" /\ Put(i, "schedules", "directory") /\ UNCHANGED <<blocked, conflicts, found>>
    BY <1>3 DEF MakeSchedules, At
  <2>2. pc'[i] = "look" /\ pc' = [pc EXCEPT ![i] = pc'[i]]
    BY <1>3, <1>b DEF MakeSchedules, InitPhases
  <2>3. fs'["schedules"] = "directory" /\ (\A q \in Paths \ {"schedules"} : fs'[q] = fs[q]) /\ (i \in alone' => i \in alone)
    BY <1>c, <2>1, PathFacts
  <2>4. Writes(i, "schedules", "directory")
    BY <2>1, <2>2, PathFacts DEF Writes, InitPhases
  <2>5. Kept(i)'
    BY <1>1, <1>2, <2>1, <2>2, <2>3 DEF Kept
  <2>6. Solo(i)'
    BY <1>1, <2>1, <2>2, <2>3 DEF Solo, Housed
  <2>7. TornIsExplained'
    BY <1>1, <2>1, <2>2, <2>3, TornStays, PathFacts
  <2> QED
    BY <1>a, <2>4, <2>5, <2>6, <2>7
<1>4. CASE MakeSchedulesFails(i)
  <2>1. pc[i] = "mkdir" /\ UNCHANGED <<fs, blocked, conflicts, found, alone>>
    BY <1>4 DEF MakeSchedulesFails, At, report
  <2>2. pc'[i] = "idle" /\ pc' = [pc EXCEPT ![i] = pc'[i]]
    BY <1>4, <1>b DEF MakeSchedulesFails, InitPhases
  <2>3. Looks(i)
    BY <1>1, <1>2, <2>1, <2>2 DEF Looks, InitPhases, DirectoryTyped
  <2>4. Kept(i)' /\ Solo(i)'
    BY <1>1, <2>1, <2>2 DEF Kept, Solo
  <2>5. TornIsExplained'
    BY <1>1, <2>1, <2>2, TornStays
  <2> QED
    BY <1>a, <2>3, <2>4, <2>5
<1>5. CASE LookForManifest(i)
  <2>1. pc[i] = "look" /\ UNCHANGED <<fs, blocked, conflicts, found, alone>>
    BY <1>5 DEF LookForManifest, At, report
  <2>2. /\ pc'[i] = (IF fs["manifest"] # "absent" \/ blocked[i] THEN "read" ELSE "write")
        /\ pc' = [pc EXCEPT ![i] = pc'[i]]
    BY <1>5, <1>b DEF LookForManifest, InitPhases, Exists
  <2>3. Looks(i)
    BY <1>1, <1>2, <2>1, <2>2 DEF Looks, InitPhases, DirectoryTyped
  <2>4. Kept(i)'
    BY <1>1, <2>1, <2>2 DEF Kept
  <2>5. Solo(i)'
    BY <1>1, <2>1, <2>2 DEF Solo, Housed
  <2>6. TornIsExplained'
    BY <1>1, <2>1, <2>2, TornStays
  <2> QED
    BY <1>a, <2>3, <2>4, <2>5, <2>6
<1>6. CASE OpenManifest(i)
  <2>1. pc[i] = "write" /\ Put(i, "manifest", "torn") /\ UNCHANGED <<blocked, conflicts, found>>
    BY <1>6 DEF OpenManifest, At, report
  <2>2. pc'[i] = "fill" /\ pc' = [pc EXCEPT ![i] = pc'[i]]
    BY <1>6, <1>b DEF OpenManifest, InitPhases
  <2>3. fs'["manifest"] = "torn" /\ (\A q \in Paths \ {"manifest"} : fs'[q] = fs[q]) /\ (i \in alone' => i \in alone)
    BY <1>c, <2>1, PathFacts
  <2>4. Writes(i, "manifest", "torn")
    BY <2>1, <2>2, PathFacts DEF Writes, InitPhases
  <2>5. Kept(i)'
    BY <1>1, <1>2, <2>1, <2>2, <2>3 DEF Kept
  <2>6. Solo(i)'
    BY <1>1, <2>1, <2>2, <2>3, PathFacts DEF Solo, Housed
  <2>7. TornIsExplained'
    BY <2>2 DEF TornIsExplained
  <2> QED
    BY <1>a, <2>4, <2>5, <2>6, <2>7
<1>7. CASE FillManifest(i)
  <2>1. pc[i] = "fill" /\ Put(i, "manifest", "starter") /\ UNCHANGED <<blocked, conflicts, found>>
    BY <1>7 DEF FillManifest, At
  <2>2. pc'[i] = "read" /\ pc' = [pc EXCEPT ![i] = pc'[i]]
    BY <1>7, <1>b DEF FillManifest, InitPhases
  <2>3. fs'["manifest"] = "starter" /\ (\A q \in Paths \ {"manifest"} : fs'[q] = fs[q]) /\ (i \in alone' => i \in alone)
    BY <1>c, <2>1, PathFacts
  <2>4. Writes(i, "manifest", "starter")
    BY <2>1, <2>2, PathFacts DEF Writes, InitPhases
  <2>5. Kept(i)'
    BY <1>1, <1>2, <2>1, <2>2, <2>3 DEF Kept
  <2>6. Solo(i)'
    BY <1>1, <2>1, <2>2, <2>3, PathFacts DEF Solo, Housed
  <2>7. TornIsExplained'
    BY <2>3 DEF TornIsExplained
  <2> QED
    BY <1>a, <2>4, <2>5, <2>6, <2>7
<1>8. CASE ApplyMarker(i)
  <2>1. pc[i] = "read" /\ UNCHANGED <<fs, blocked, found, alone>>
    BY <1>8 DEF ApplyMarker, At
  <2>2. pc'[i] \in {"check", "idle"} /\ pc' = [pc EXCEPT ![i] = pc'[i]]
    BY <1>8, <1>b DEF ApplyMarker, InitPhases
  <2>3. /\ conflicts' = [conflicts EXCEPT ![i] = conflicts'[i]]
        /\ conflicts[i] \subseteq conflicts'[i] /\ conflicts'[i] \in SUBSET Paths
    BY <1>1, <1>8, PathFacts DEF ApplyMarker, DirectoryTyped
  <2>4. Looks(i)
    BY <2>1, <2>2, <2>3 DEF Looks, InitPhases
  <2>5. Kept(i)'
    BY <1>1, <2>1, <2>2 DEF Kept
  <2>6. Solo(i)'
    BY <1>1, <2>1, <2>2, <2>3 DEF Solo, Housed
  <2>7. TornIsExplained'
    BY <1>1, <2>1, <2>2, TornStays
  <2> QED
    BY <1>a, <2>4, <2>5, <2>6, <2>7
<1>9. CASE CheckMarkerPath(i)
  <2>1. pc[i] = "check" /\ UNCHANGED <<fs, blocked, found, alone>>
    BY <1>9 DEF CheckMarkerPath, At
  <2>2. /\ pc'[i] = (IF fs["marker"] # "absent" THEN "idle" ELSE "mark")
        /\ pc' = [pc EXCEPT ![i] = pc'[i]]
    BY <1>9, <1>b DEF CheckMarkerPath, InitPhases, Exists
  <2>3. /\ conflicts' = [conflicts EXCEPT ![i] = conflicts'[i]]
        /\ conflicts[i] \subseteq conflicts'[i] /\ conflicts'[i] \in SUBSET Paths
    BY <1>1, <1>9, PathFacts DEF CheckMarkerPath, DirectoryTyped
  <2>4. Looks(i)
    BY <2>1, <2>2, <2>3 DEF Looks, InitPhases
  <2>5. Kept(i)'
    BY <1>1, <2>1, <2>2 DEF Kept
  <2>6. Solo(i)'
    BY <1>1, <2>1, <2>2, <2>3 DEF Solo, Housed
  <2>7. TornIsExplained'
    BY <1>1, <2>1, <2>2, TornStays
  <2> QED
    BY <1>a, <2>4, <2>5, <2>6, <2>7
<1>10. CASE OpenMarker(i)
  <2>1. pc[i] = "mark" /\ Put(i, "marker", "torn") /\ UNCHANGED <<blocked, conflicts, found>>
    BY <1>10 DEF OpenMarker, At, report
  <2>2. pc'[i] = "sign" /\ pc' = [pc EXCEPT ![i] = pc'[i]]
    BY <1>10, <1>b DEF OpenMarker, InitPhases
  <2>3. fs'["marker"] = "torn" /\ (\A q \in Paths \ {"marker"} : fs'[q] = fs[q]) /\ (i \in alone' => i \in alone)
    BY <1>c, <2>1, PathFacts
  <2>4. Writes(i, "marker", "torn")
    BY <2>1, <2>2, PathFacts DEF Writes, InitPhases
  <2>5. Kept(i)'
    BY <1>1, <1>2, <2>1, <2>2, <2>3 DEF Kept
  <2>6. Solo(i)'
    BY <1>1, <2>1, <2>2, <2>3, PathFacts DEF Solo, Housed
  <2>7. TornIsExplained'
    BY <1>1, <2>1, <2>2, <2>3, TornStays, PathFacts
  <2> QED
    BY <1>a, <2>4, <2>5, <2>6, <2>7
<1>11. CASE FillMarker(i)
  <2>1. pc[i] = "sign" /\ Put(i, "marker", "marked") /\ UNCHANGED <<blocked, conflicts, found>>
    BY <1>11 DEF FillMarker, At
  <2>2. pc'[i] = "idle" /\ pc' = [pc EXCEPT ![i] = pc'[i]]
    BY <1>11, <1>b DEF FillMarker, InitPhases
  <2>3. fs'["marker"] = "marked" /\ (\A q \in Paths \ {"marker"} : fs'[q] = fs[q]) /\ (i \in alone' => i \in alone)
    BY <1>c, <2>1, PathFacts
  <2>4. Writes(i, "marker", "marked")
    BY <2>1, <2>2, PathFacts DEF Writes, InitPhases
  <2>5. Kept(i)'
    BY <1>1, <1>2, <2>1, <2>2, <2>3 DEF Kept
  <2>6. Solo(i)'
    BY <2>2 DEF Solo
  <2>7. TornIsExplained'
    BY <1>1, <2>1, <2>2, <2>3, TornStays, PathFacts
  <2> QED
    BY <1>a, <2>4, <2>5, <2>6, <2>7
<1>12. CASE DieInit(i)
  <2>1. UNCHANGED <<fs, blocked, conflicts, found, alone>>
    BY <1>12 DEF DieInit, report
  <2>2. pc'[i] = "dead" /\ pc' = [pc EXCEPT ![i] = pc'[i]]
    BY <1>12, <1>b DEF DieInit, InitPhases
  <2>3. Looks(i)
    BY <1>1, <1>2, <2>1, <2>2 DEF Looks, InitPhases, DirectoryTyped
  <2>4. Kept(i)' /\ Solo(i)'
    BY <1>1, <2>1, <2>2 DEF Kept, Solo
  <2>5. TornIsExplained'
    BY <1>1, <2>1, <2>2, TornStays
  <2> QED
    BY <1>a, <2>3, <2>4, <2>5
<1> QED
  BY <1>3, <1>4, <1>5, <1>6, <1>7, <1>8, <1>9, <1>10, <1>11, <1>12

LEMMA CreateKeeps ==
  ASSUME DirectoryInv, NEW p \in Paths, NEW content \in Contents, Create(p, content)
  PROVE  DirectoryInv'
<1>1. DirectoryTyped /\ (\A j \in Inits : Kept(j) /\ Solo(j)) /\ TornIsExplained
  BY DEF DirectoryInv
<1>2. /\ fs' = [fs EXCEPT ![p] = content] /\ content \notin {"absent", "torn"} /\ alone' = {}
      /\ UNCHANGED <<pc, blocked, conflicts, found>>
  BY DEF Create, report
<1>3. DirectoryTyped'
  BY <1>1, <1>2 DEF DirectoryTyped
<1>4. \A q \in Paths : fs[q] # "absent" => fs'[q] # "absent"
  BY <1>1, <1>2 DEF DirectoryTyped
<1>5. ASSUME NEW j \in Inits PROVE Kept(j)' /\ Solo(j)'
  <2>1. found[j] \subseteq Paths
    BY <1>1 DEF DirectoryTyped
  <2> QED
    BY <1>1, <1>2, <1>4, <2>1 DEF Kept, Solo
<1>6. fs'["manifest"] = "torn" => fs["manifest"] = "torn"
  BY <1>1, <1>2, PathFacts DEF DirectoryTyped
<1> QED
  BY <1>1, <1>2, <1>3, <1>5, <1>6 DEF DirectoryInv, TornIsExplained

LEMMA NextDirectory == DirectoryInv /\ [WorkspaceNext]_workspaceVars => DirectoryInv'
<1> SUFFICES ASSUME DirectoryInv, [WorkspaceNext]_workspaceVars PROVE DirectoryInv'
  OBVIOUS
<1>1. CASE UNCHANGED workspaceVars
  BY <1>1 DEF workspaceVars, DirectoryInv, DirectoryTyped, Kept, Solo, Housed, TornIsExplained
<1> QED
  BY <1>1, LookForSchedulesKeeps, StepKeeps, CreateKeeps DEF WorkspaceNext

-----------------------------------------------------------------------------
(* What the returning init leaves: a workspace that needs no other init. *)
LEMMA ReturnSettles ==
  ASSUME DirectoryInv, NEW i \in alone, fs'["marker"] # "absent",
         \A p \in Paths \ {"marker"} : fs'[p] = fs[p],
         pc[i] \in {"read", "check", "sign"}, conflicts[i] \subseteq conflicts'[i],
         conflicts'[i] = {} => fs'["marker"] = "marked"
  PROVE  /\ Settled(fs')
         /\ conflicts'[i] = {} =>
              /\ ResolveProjectRoot("none", "none", <<Bare, fs'>>, Bare) = fs'
              /\ ResolveWorkspace(fs').marked
              /\ fs'[ResolveWorkspace(fs').manifestDir] = "directory"
<1>1. i \in Inits /\ blocked[i] \in BOOLEAN
  BY DEF DirectoryInv, DirectoryTyped
<1>2. Housed(i) /\ (blocked[i] \/ fs["manifest"] # "absent")
  BY <1>1 DEF DirectoryInv, Solo
<1>3. /\ fs'["schedules"] = fs["schedules"] /\ fs'["legacy"] = fs["legacy"]
      /\ fs'["manifest"] = fs["manifest"]
  BY PathFacts
<1>4. Settled(fs')
  BY <1>2, <1>3 DEF Settled, Housed
<1>5. ASSUME conflicts'[i] = {}
      PROVE  /\ ResolveProjectRoot("none", "none", <<Bare, fs'>>, Bare) = fs'
             /\ ResolveWorkspace(fs').marked
             /\ fs'[ResolveWorkspace(fs').manifestDir] = "directory"
  <2>1. fs'["marker"] = "marked" /\ conflicts[i] = {}
    BY <1>5
  <2>2. ResolveWorkspace(fs').marked
    BY <2>1 DEF ResolveWorkspace, ReadMarker
  <2>3. fs'[ResolveManifestDir(fs')] = "directory"
    BY <1>2, <1>3, <2>1 DEF ResolveManifestDir, Housed
  <2>4. ResolveWorkspace(fs').manifestDir = ResolveManifestDir(fs')
    BY DEF ResolveWorkspace
  <2>5. IsWorkspace(fs') /\ ~IsWorkspace(Bare)
    BY <2>1, PathFacts DEF IsWorkspace, Bare
  <2>6. FindWorkspaceRoot(<<Bare, fs'>>) = 2
    <3> DEFINE chain == <<Bare, fs'>>
               hits == {n \in DOMAIN chain : IsWorkspace(chain[n])}
    <3>1. DOMAIN chain = {1, 2} /\ chain[1] = Bare /\ chain[2] = fs'
      OBVIOUS
    <3> HIDE DEF chain
    <3>2. hits = {2}
      BY <2>5, <3>1
    <3> HIDE DEF hits
    <3>3. (CHOOSE n \in hits : \A m \in hits : n <= m) = 2
      BY <3>2
    <3>4. FindWorkspaceRoot(chain) = 2
      BY <3>2, <3>3 DEF FindWorkspaceRoot, hits
    <3> QED
      BY <3>4 DEF chain
  <2>7. ResolveProjectRoot("none", "none", <<Bare, fs'>>, Bare) = fs'
    BY <2>6 DEF ResolveProjectRoot
  <2> QED
    BY <2>2, <2>3, <2>4, <2>7
<1> QED
  BY <1>4, <1>5

(* What a step of an init does to what it found, and how it returns. *)
Timidly(i) ==
  /\ \A p \in found[i] : fs'[p] = fs[p]
  /\ pc'[i] = "idle" /\ i \in alone =>
       /\ Settled(fs')
       /\ conflicts'[i] = {} =>
            LET w == ResolveWorkspace(fs')
            IN  ResolveProjectRoot("none", "none", <<Bare, fs'>>, Bare) = fs'
                /\ w.marked /\ fs'[w.manifestDir] = "directory"
       /\ fs'["manifest"] = "torn" => \E j \in Inits : pc[j] \in {"fill", "dead"}

LEMMA StepIsTimid ==
  ASSUME DirectoryInv, NEW i \in Inits,
         \/ LookForSchedules(i)
         \/ MakeSchedules(i) \/ MakeSchedulesFails(i) \/ LookForManifest(i) \/ OpenManifest(i)
         \/ FillManifest(i) \/ ApplyMarker(i) \/ CheckMarkerPath(i) \/ OpenMarker(i)
         \/ FillMarker(i) \/ DieInit(i)
  PROVE  Timidly(i)
<1>1. DirectoryTyped /\ Kept(i) /\ Solo(i) /\ TornIsExplained
  BY DEF DirectoryInv
<1>2. found[i] \subseteq Paths /\ blocked[i] \in BOOLEAN /\ conflicts[i] \in SUBSET Paths
  BY <1>1 DEF DirectoryTyped
<1>3. ASSUME NEW phase \in InitPhases, Goto(i, phase) PROVE pc'[i] = phase
  BY <1>1, <1>3 DEF Goto, DirectoryTyped
<1>4. ASSUME NEW p \in Paths, NEW content, Put(i, p, content), p \notin found[i]
      PROVE  \A q \in found[i] : fs'[q] = fs[q]
  BY <1>1, <1>2, <1>4 DEF Put, DirectoryTyped
<1>5. CASE LookForSchedules(i) \/ LookForManifest(i) \/ DieInit(i)
  <2>1. fs' = fs /\ pc'[i] # "idle"
    <3>1. CASE LookForSchedules(i)
      BY <1>3, <3>1 DEF LookForSchedules, InitPhases
    <3>2. CASE LookForManifest(i)
      BY <1>3, <3>2 DEF LookForManifest, InitPhases
    <3>3. CASE DieInit(i)
      BY <1>3, <3>3 DEF DieInit, InitPhases
    <3> QED
      BY <1>5, <3>1, <3>2, <3>3
  <2> QED
    BY <2>1 DEF Timidly
<1>6. CASE MakeSchedules(i)
  <2>1. pc'[i] = "look" /\ Put(i, "schedules", "directory") /\ fs["schedules"] = "absent"
    BY <1>3, <1>6 DEF MakeSchedules, InitPhases, Exists
  <2> QED
    BY <1>1, <1>4, <2>1, PathFacts DEF Timidly, Kept
<1>7. CASE MakeSchedulesFails(i)
  <2>1. fs' = fs /\ pc[i] = "mkdir" /\ fs["schedules"] # "absent"
    BY <1>7 DEF MakeSchedulesFails, At, Exists
  <2>2. i \notin alone
    BY <1>1, <2>1 DEF Solo
  <2> QED
    BY <2>1, <2>2 DEF Timidly
<1>8. CASE OpenManifest(i) \/ FillManifest(i)
  <2>1. /\ pc[i] \in {"write", "fill"} /\ pc'[i] # "idle"
        /\ \E content : Put(i, "manifest", content)
    BY <1>3, <1>8 DEF OpenManifest, FillManifest, InitPhases, At
  <2> QED
    BY <1>1, <1>4, <2>1, PathFacts DEF Timidly, Kept
<1>9. CASE ApplyMarker(i)
  <2>1. /\ fs' = fs /\ pc[i] = "read"
        /\ pc'[i] = (IF ReadMarker(fs) = "none" THEN "check" ELSE "idle")
        /\ conflicts'[i] = (IF ReadMarker(fs) = "error" THEN conflicts[i] \cup {"marker"} ELSE conflicts[i])
    BY <1>1, <1>3, <1>9 DEF ApplyMarker, InitPhases, At, DirectoryTyped
  <2>2. CASE pc'[i] = "idle" /\ i \in alone
    <3>1. fs["marker"] # "absent" /\ (conflicts'[i] = {} => fs["marker"] = "marked")
      BY <2>1, <2>2 DEF ReadMarker
    <3>2. conflicts[i] \subseteq conflicts'[i]
      BY <2>1
    <3> QED
      BY <1>1, <2>1, <2>2, <3>1, <3>2, ReturnSettles DEF Timidly, TornIsExplained
  <2> QED
    BY <2>1, <2>2 DEF Timidly
<1>10. CASE CheckMarkerPath(i)
  <2>1. /\ fs' = fs /\ pc[i] = "check"
        /\ pc'[i] = (IF fs["marker"] # "absent" THEN "idle" ELSE "mark")
        /\ conflicts'[i] = (IF fs["marker"] # "absent" THEN conflicts[i] \cup {"marker"} ELSE conflicts[i])
    BY <1>1, <1>3, <1>10 DEF CheckMarkerPath, InitPhases, At, DirectoryTyped, Exists
  <2>2. CASE pc'[i] = "idle" /\ i \in alone
    <3>1. fs["marker"] # "absent" /\ conflicts'[i] # {} /\ conflicts[i] \subseteq conflicts'[i]
      BY <2>1, <2>2
    <3> QED
      BY <1>1, <2>1, <2>2, <3>1, ReturnSettles DEF Timidly, TornIsExplained
  <2> QED
    BY <2>1, <2>2 DEF Timidly
<1>11. CASE OpenMarker(i)
  <2>1. pc[i] = "mark" /\ pc'[i] # "idle" /\ Put(i, "marker", "torn")
    BY <1>3, <1>11 DEF OpenMarker, InitPhases, At
  <2> QED
    BY <1>1, <1>4, <2>1, PathFacts DEF Timidly, Kept
<1>12. CASE FillMarker(i)
  <2>1. pc[i] = "sign" /\ Put(i, "marker", "marked") /\ conflicts' = conflicts
    BY <1>12 DEF FillMarker, At
  <2>2. fs'["marker"] = "marked" /\ \A p \in Paths \ {"marker"} : fs'[p] = fs[p]
    BY <1>1, <2>1, PathFacts DEF Put, DirectoryTyped
  <2>3. fs'["manifest"] = fs["manifest"]
    BY <2>2, PathFacts
  <2>4. \A p \in found[i] : fs'[p] = fs[p]
    BY <1>1, <1>4, <2>1, PathFacts DEF Kept
  <2>5. CASE i \in alone
    BY <1>1, <2>1, <2>2, <2>3, <2>4, <2>5, ReturnSettles DEF Timidly, TornIsExplained
  <2> QED
    BY <2>4, <2>5 DEF Timidly
<1> QED
  BY <1>5, <1>6, <1>7, <1>8, <1>9, <1>10, <1>11, <1>12

(* `xcron init` "never overwrites and never deletes": whatever other inits and  *)
(* the owner of the directory do, no init changes a path that was there when it *)
(* began; and one that nobody disturbed leaves a directory the next init only   *)
(* reports on, to which a command resolves unless a conflict was reported.      *)
THEOREM InitsAreTimid == WorkspaceSpec => InitIsTimid
<1>1. DirectoryInv /\ [WorkspaceNext]_workspaceVars
        => [\A i \in Inits : pc'[i] # pc[i] => Timidly(i)]_workspaceVars
  <2> SUFFICES ASSUME DirectoryInv, WorkspaceNext, NEW i \in Inits, pc'[i] # pc[i] PROVE Timidly(i)
    OBVIOUS
  <2>1. pc' # pc
    OBVIOUS
  <2>2. ASSUME NEW j \in Inits, NEW phase, Goto(j, phase) PROVE j = i
    BY <2>2 DEF Goto, DirectoryInv, DirectoryTyped
  <2>3. ASSUME NEW j \in Inits,
               \/ LookForSchedules(j)
               \/ MakeSchedules(j) \/ MakeSchedulesFails(j) \/ LookForManifest(j) \/ OpenManifest(j)
               \/ FillManifest(j) \/ ApplyMarker(j) \/ CheckMarkerPath(j) \/ OpenMarker(j)
               \/ FillMarker(j) \/ DieInit(j)
        PROVE  Timidly(i)
    <3>1. j = i
      BY <2>2, <2>3 DEF LookForSchedules, MakeSchedules, MakeSchedulesFails, LookForManifest, OpenManifest,
         FillManifest, ApplyMarker, CheckMarkerPath, OpenMarker, FillMarker, DieInit
    <3> QED
      BY <2>3, <3>1, StepIsTimid
  <2>4. ASSUME NEW p \in Paths, NEW content \in Contents, Create(p, content) PROVE Timidly(i)
    BY <2>1, <2>4 DEF Create
  <2> QED
    BY <2>3, <2>4 DEF WorkspaceNext
<1> QED
  BY <1>1, InitDirectory, NextDirectory, PTL DEF WorkspaceSpec, InitIsTimid, Timidly

-----------------------------------------------------------------------------
(* The agent hooks: what the amendments of install do to a file. *)

LEMMA MinFacts ==
  ASSUME NEW S \in SUBSET Nat, S # {}
  PROVE  Min(S) \in S /\ \A k \in S : Min(S) <= k
<1> DEFINE Less == OpToRel(<, Nat)
<1>1. IsWellFoundedOn(Less, Nat)
  BY NatLessThanWellFounded
<1>2. \A a, b \in Nat : a < b => <<a, b>> \in Less
  BY DEF OpToRel
<1> HIDE DEF Less
<1>3. PICK i \in S : \A k \in S : ~(<<k, i>> \in Less)
  BY <1>1, WFMin
<1>4. \A k \in S : ~(k < i)
  BY <1>2, <1>3
<1>5. \A k \in S : i <= k
  BY <1>4
<1> QED
  BY <1>5 DEF Min

LEMMA ExeFacts ==
  ASSUME NEW e \in Exes
  PROVE  EndsAlike(e, e) /\ ~EndsAlike("other", e) /\ e \in Hooks /\ e # "other"
BY HooksAssumption DEF EndsAlike, Hooks

(* The entries of one event: this executable's is among them, the others are  *)
(* where they were, and another install of it changes nothing.                *)
LEMMA UpsertFacts ==
  ASSUME NEW old \in Seq(Hooks), NEW e \in Exes
  PROVE  /\ Upsert(old, e) \in Seq(Hooks)
         /\ e \in Range(Upsert(old, e))
         /\ Respects(old, Upsert(old, e), e)
         /\ Upsert(Upsert(old, e), e) = Upsert(old, e)
<1> DEFINE n == Len(old)
           Alike(s) == {i \in DOMAIN s : EndsAlike(s[i], e)}
           new == Upsert(old, e)
<1>1. n \in Nat /\ DOMAIN old = 1 .. n
  BY LenProperties
<1>2. e \in Hooks /\ EndsAlike(e, e) /\ ~EndsAlike("other", e) /\ e # "other"
  BY ExeFacts
<1>3. \A s : Upsert(s, e) = IF Alike(s) = {} THEN Append(s, e) ELSE [s EXCEPT ![Min(Alike(s))] = e]
  BY DEF Upsert
<1>4. Alike(old) # {} <=> \E h \in Range(old) : EndsAlike(h, e)
  BY DEF Range
<1>5. CASE Alike(old) = {}
  <2>1. new = Append(old, e)
    BY <1>3, <1>5
  <2>2. /\ new \in Seq(Hooks) /\ Len(new) = n + 1 /\ DOMAIN new = 1 .. n + 1
        /\ new[n + 1] = e /\ \A i \in 1 .. n : new[i] = old[i]
    BY <1>1, <1>2, <2>1, AppendProperties
  <2> HIDE DEF new, n
  <2>3. Alike(new) = {n + 1}
    <3>1. \A i \in 1 .. n : ~EndsAlike(new[i], e)
      BY <1>1, <1>5, <2>2
    <3>2. n + 1 \in Alike(new)
      BY <1>1, <1>2, <2>2
    <3> QED
      BY <1>1, <2>2, <3>1, <3>2
  <2>4. Min(Alike(new)) = n + 1
    <3>1. {n + 1} \in SUBSET Nat /\ {n + 1} # {}
      BY <1>1
    <3> QED
      BY <2>3, <3>1, MinFacts
  <2>5. Upsert(new, e) = [new EXCEPT ![n + 1] = e]
    BY <1>3, <2>3, <2>4
  <2>6. Upsert(new, e) = new
    BY <1>1, <2>2, <2>5
  <2>7. e \in Range(new)
    BY <1>1, <2>2 DEF Range
  <2>8. Respects(old, new, e)
    <3>1. Len(new) = Len(old) + (IF \E h \in Range(old) : EndsAlike(h, e) THEN 0 ELSE 1)
      BY <1>4, <1>5, <2>2 DEF n
    <3>2. /\ n + 1 \in DOMAIN new /\ new[n + 1] = e /\ n + 1 \notin DOMAIN old
          /\ \A i \in DOMAIN new \ {n + 1} : i \in DOMAIN old /\ new[i] = old[i]
      BY <1>1, <2>2
    <3> QED
      BY <3>1, <3>2 DEF Respects
  <2> QED
    BY <2>2, <2>6, <2>7, <2>8 DEF new
<1>6. CASE Alike(old) # {}
  <2> DEFINE k == Min(Alike(old))
  <2>1. Alike(old) \in SUBSET Nat
    BY <1>1
  <2>2. k \in 1 .. n /\ EndsAlike(old[k], e) /\ \A i \in Alike(old) : k <= i
    <3>1. k \in Alike(old) /\ \A i \in Alike(old) : k <= i
      BY <1>6, <2>1, MinFacts
    <3> QED
      BY <1>1, <3>1
  <2>3. new = [old EXCEPT ![k] = e]
    BY <1>3, <1>6
  <2> HIDE DEF k
  <2>4. /\ new \in Seq(Hooks) /\ Len(new) = n /\ DOMAIN new = 1 .. n
        /\ new[k] = e /\ \A i \in 1 .. n : i # k => new[i] = old[i]
    BY <1>1, <1>2, <2>2, <2>3
  <2> HIDE DEF new, n
  <2>5. Alike(new) = Alike(old)
    <3>1. ASSUME NEW i \in 1 .. n PROVE EndsAlike(new[i], e) <=> EndsAlike(old[i], e)
      <4>1. CASE i = k
        BY <1>2, <2>2, <2>4, <4>1
      <4>2. CASE i # k
        BY <2>4, <4>2
      <4> QED
        BY <4>1, <4>2
    <3> QED
      BY <1>1, <2>4, <3>1
  <2>6. Upsert(new, e) = [new EXCEPT ![k] = e]
    BY <1>3, <1>6, <2>5 DEF k
  <2>7. Upsert(new, e) = new
    BY <1>1, <2>2, <2>4, <2>6
  <2>8. e \in Range(new)
    BY <1>1, <2>2, <2>4 DEF Range
  <2>9. Respects(old, new, e)
    <3>0. (IF \E h \in Range(old) : EndsAlike(h, e) THEN 0 ELSE 1) = 0 /\ n + 0 = n
      BY <1>1, <1>4, <1>6
    <3>1. Len(new) = Len(old) + (IF \E h \in Range(old) : EndsAlike(h, e) THEN 0 ELSE 1)
      BY <2>4, <3>0 DEF n
    <3>2. /\ k \in DOMAIN new /\ new[k] = e /\ old[k] # "other"
          /\ \A i \in DOMAIN new \ {k} : i \in DOMAIN old /\ new[i] = old[i]
      BY <1>1, <1>2, <2>2, <2>4
    <3> QED
      BY <3>1, <3>2 DEF Respects
  <2> QED
    BY <2>4, <2>7, <2>8, <2>9 DEF new
<1> QED
  BY <1>5, <1>6

LEMMA EnsureHooksFacts ==
  ASSUME NEW f \in FileContents, NEW e \in Exes
  PROVE  /\ EnsureHooks(f, e) \in FileContents
         /\ EnsureHooks(f, e).bad = f.bad
         /\ ~f.bad => Matches(EnsureHooks(f, e), e)
         /\ EnsureHooks(EnsureHooks(f, e), e) = EnsureHooks(f, e)
         /\ Respects(f.start, EnsureHooks(f, e).start, e)
         /\ Respects(f.end, EnsureHooks(f, e).end, e)
<1> DEFINE g == EnsureHooks(f, e)
<1>1. f.start \in Seq(Hooks) /\ f.end \in Seq(Hooks) /\ f.bad \in BOOLEAN
  BY DEF FileContents
<1>2. ASSUME NEW h \in FileContents
      PROVE  /\ EnsureHooks(h, e).bad = h.bad /\ EnsureHooks(h, e).start = Upsert(h.start, e)
             /\ EnsureHooks(h, e).end = Upsert(h.end, e)
             /\ EnsureHooks(h, e) = [bad |-> h.bad, start |-> Upsert(h.start, e), end |-> Upsert(h.end, e)]
  BY DEF EnsureHooks
<1>3. /\ g.bad = f.bad /\ g.start = Upsert(f.start, e) /\ g.end = Upsert(f.end, e)
      /\ g = [bad |-> f.bad, start |-> Upsert(f.start, e), end |-> Upsert(f.end, e)]
  BY <1>2
<1> HIDE DEF g
<1>4. g \in FileContents
  BY <1>1, <1>3, UpsertFacts DEF FileContents
<1>5. EnsureHooks(g, e) = g
  BY <1>1, <1>2, <1>3, <1>4, UpsertFacts
<1>6. ~f.bad => Matches(g, e)
  BY <1>1, <1>3, UpsertFacts DEF Matches
<1>7. Respects(f.start, g.start, e) /\ Respects(f.end, g.end, e)
  BY <1>1, <1>3, UpsertFacts
<1> QED
  BY <1>3, <1>4, <1>5, <1>6, <1>7 DEF g


(* The lines of config.toml. *)
Ends(l) == Header(l) \/ NamesFeature(l)

LEMMA LineFacts ==
  /\ Ends("on") /\ NamesFeature("on") /\ Header("[features]") /\ "on" # "[features]"
  /\ "on" \in LineKinds /\ "[features]" \in LineKinds
  /\ \A l : NamesFeature(l) => ~Header(l) /\ l \in {"on", "off", "similar"}
BY DEF Ends, NamesFeature, Header, LineKinds

LEMMA InsertFacts ==
  ASSUME NEW s \in Seq(LineKinds), NEW i \in 1 .. Len(s) + 1, NEW l \in LineKinds
  PROVE  /\ InsertAt(s, i, l) \in Seq(LineKinds)
         /\ Len(InsertAt(s, i, l)) = Len(s) + 1
         /\ InsertAt(s, i, l)[i] = l
         /\ \A k \in 1 .. i - 1 : InsertAt(s, i, l)[k] = s[k]
         /\ \A k \in i .. Len(s) : InsertAt(s, i, l)[k + 1] = s[k]
<1> DEFINE n == Len(s)
           before == SubSeq(s, 1, i - 1)
           after == SubSeq(s, i, n)
           front == before \o <<l>>
<1>1. n \in Nat /\ i \in Int
  BY LenProperties
<1>2. /\ before \in Seq(LineKinds) /\ Len(before) = i - 1
      /\ \A k \in 1 .. i - 1 : before[k] = s[k]
  OBVIOUS
<1>3. /\ after \in Seq(LineKinds) /\ Len(after) = n - i + 1
      /\ \A k \in 1 .. n - i + 1 : after[k] = s[i + k - 1]
  OBVIOUS
<1>4. InsertAt(s, i, l) = front \o after
  BY DEF InsertAt
<1>5. <<l>> \in Seq(LineKinds) /\ Len(<<l>>) = 1 /\ <<l>>[1] = l
  OBVIOUS
<1>n. i \in 1 .. n + 1
  OBVIOUS
<1> HIDE DEF n, before, after
<1>6. /\ front \in Seq(LineKinds) /\ Len(front) = i
      /\ \A k \in 1 .. i : front[k] = IF k <= i - 1 THEN before[k] ELSE <<l>>[k - (i - 1)]
  BY <1>1, <1>2, <1>5, ConcatProperties
<1>7. front[i] = l /\ \A k \in 1 .. i - 1 : front[k] = s[k]
  BY <1>1, <1>2, <1>5, <1>6, <1>n
<1> HIDE DEF front
<1>8. /\ front \o after \in Seq(LineKinds) /\ Len(front \o after) = n + 1
      /\ \A k \in 1 .. n + 1 : (front \o after)[k] = IF k <= i THEN front[k] ELSE after[k - i]
  <2>1. /\ front \o after \in Seq(LineKinds) /\ Len(front \o after) = Len(front) + Len(after)
        /\ \A k \in 1 .. Len(front) + Len(after) :
             (front \o after)[k] = IF k <= Len(front) THEN front[k] ELSE after[k - Len(front)]
    BY <1>3, <1>6, ConcatProperties
  <2>2. Len(front) + Len(after) = n + 1
    <3>1. \A a, b : a = i /\ b = n - i + 1 => a + b = n + 1
      BY <1>1
    <3> QED
      BY <1>3, <1>6, <3>1
  <2> QED
    BY <1>6, <2>1, <2>2
<1>9. ASSUME NEW k \in i .. n PROVE (front \o after)[k + 1] = s[k]
  <2>1. k + 1 \in 1 .. n + 1 /\ ~(k + 1 <= i) /\ (k + 1) - i \in 1 .. n - i + 1 /\ i + ((k + 1) - i) - 1 = k
    BY <1>1, <1>n
  <2> QED
    BY <1>3, <1>8, <2>1
<1>10. ASSUME NEW k \in 1 .. i PROVE (front \o after)[k] = front[k]
  <2>1. k \in 1 .. n + 1 /\ k <= i
    BY <1>1, <1>n
  <2> QED
    BY <1>8, <2>1
<1>11. (front \o after)[i] = l /\ \A k \in 1 .. i - 1 : (front \o after)[k] = s[k]
  <2>1. i \in 1 .. i /\ \A k \in 1 .. i - 1 : k \in 1 .. i
    BY <1>1, <1>n
  <2> QED
    BY <1>7, <1>10, <2>1
<1> QED
  BY <1>4, <1>8, <1>9, <1>11 DEF n

(* Where the search ends, from both sides. *)
LEMMA StopFacts ==
  ASSUME NEW s \in Seq(LineKinds), Tables(s) # {}
  PROVE  \E first \in 1 .. Len(s) :
           /\ first = Min(Tables(s)) /\ s[first] = "[features]"
           /\ \A i \in 1 .. first - 1 : s[i] # "[features]"
           /\ Stop(s) \in first + 1 .. Len(s) + 1
           /\ \A i \in first + 1 .. Stop(s) - 1 : ~Ends(s[i])
           /\ Stop(s) \in 1 .. Len(s) => Ends(s[Stop(s)])
<1> DEFINE n == Len(s)
           first == Min(Tables(s))
<1>1. n \in Nat /\ DOMAIN s = 1 .. n
  BY LenProperties
<1>2. Tables(s) \in SUBSET Nat
  BY <1>1 DEF Tables
<1>3. /\ first \in 1 .. n /\ s[first] = "[features]"
      /\ \A i \in 1 .. first - 1 : s[i] # "[features]"
  <2>1. first \in Tables(s) /\ \A i \in Tables(s) : first <= i
    BY <1>2, MinFacts
  <2> HIDE DEF first, n
  <2>2. first \in 1 .. n /\ s[first] = "[features]"
    BY <1>1, <2>1 DEF Tables
  <2>3. ASSUME NEW i \in 1 .. first - 1 PROVE s[i] # "[features]"
    <3>1. i \in DOMAIN s /\ ~(first <= i)
      BY <1>1, <2>2
    <3> QED
      BY <2>1, <3>1 DEF Tables
  <2> QED
    BY <2>2, <2>3
<1>4. Stops(s) = {i \in first + 1 .. n : Ends(s[i])}
  BY DEF Stops, Ends
<1> HIDE DEF first, n
<1>5. CASE Stops(s) = {}
  <2>1. Stop(s) = n + 1
    BY <1>5 DEF Stop, n
  <2>2. \A i \in first + 1 .. n : ~Ends(s[i])
    BY <1>4, <1>5
  <2>3. Stop(s) \in first + 1 .. n + 1 /\ (\A i \in first + 1 .. Stop(s) - 1 : ~Ends(s[i])) /\ Stop(s) \notin 1 .. n
    BY <1>1, <1>3, <2>1, <2>2
  <2> QED
    BY <1>3, <2>3 DEF first, n
<1>6. CASE Stops(s) # {}
  <2>1. Stop(s) = Min(Stops(s))
    BY <1>6 DEF Stop
  <2>2. Stops(s) \in SUBSET Nat
    BY <1>1, <1>3, <1>4
  <2>3. Stop(s) \in Stops(s) /\ \A i \in Stops(s) : Stop(s) <= i
    BY <1>6, <2>1, <2>2, MinFacts
  <2>4. Stop(s) \in first + 1 .. n /\ Ends(s[Stop(s)])
    BY <1>4, <2>3
  <2>5. \A i \in first + 1 .. Stop(s) - 1 : ~Ends(s[i])
    BY <1>1, <1>3, <1>4, <2>3, <2>4
  <2>6. Stop(s) \in first + 1 .. n + 1
    BY <1>1, <1>3, <2>4
  <2> QED
    BY <1>3, <2>4, <2>5, <2>6 DEF first, n
<1> QED
  BY <1>5, <1>6

(* A file whose first [features] table turns the feature on is left alone. *)
LEMMA OnIsLeft ==
  ASSUME NEW s \in Seq(LineKinds), NEW first \in 1 .. Len(s), NEW stop \in first + 1 .. Len(s),
         s[first] = "[features]", \A i \in 1 .. first - 1 : s[i] # "[features]",
         \A i \in first + 1 .. stop - 1 : ~Ends(s[i]), s[stop] = "on"
  PROVE  EnsureConfig(s) = s
<1> DEFINE n == Len(s)
<1>1. n \in Nat /\ DOMAIN s = 1 .. n /\ first \in 1 .. n /\ stop \in first + 1 .. n
  BY LenProperties
<1> HIDE DEF n
<1>2. first \in Tables(s)
  BY <1>1 DEF Tables
<1>3. PICK f \in 1 .. Len(s) :
        /\ f = Min(Tables(s)) /\ s[f] = "[features]"
        /\ \A i \in 1 .. f - 1 : s[i] # "[features]"
        /\ Stop(s) \in f + 1 .. Len(s) + 1
        /\ \A i \in f + 1 .. Stop(s) - 1 : ~Ends(s[i])
        /\ Stop(s) \in 1 .. Len(s) => Ends(s[Stop(s)])
  BY <1>2, StopFacts
<1>4. f \in 1 .. n /\ Stop(s) \in f + 1 .. n + 1 /\ (Stop(s) \in 1 .. n => Ends(s[Stop(s)]))
  BY <1>3 DEF n
<1>5. f = first
  <2>1. ~(f < first)
    BY <1>1, <1>3, <1>4
  <2>2. ~(first < f)
    BY <1>1, <1>3, <1>4
  <2> QED
    BY <1>1, <1>4, <2>1, <2>2
<1>6. Ends(s[stop])
  BY LineFacts
<1>7. Stop(s) = stop
  <2>1. ~(stop < Stop(s))
    BY <1>1, <1>3, <1>4, <1>5, <1>6
  <2>2. ~(Stop(s) < stop)
    BY <1>1, <1>4, <1>5
  <2> QED
    BY <1>1, <1>4, <2>1, <2>2
<1>8. stop \in DOMAIN s /\ NamesFeature(s[stop])
  BY <1>1, LineFacts
<1>9. EnsureConfig(s) = [s EXCEPT ![stop] = "on"]
  BY <1>2, <1>7, <1>8 DEF EnsureConfig
<1> QED
  BY <1>8, <1>9

LEMMA EnsureConfigFacts ==
  ASSUME NEW s \in Seq(LineKinds)
  PROVE  /\ EnsureConfig(s) \in Seq(LineKinds)
         /\ EnsureConfig(EnsureConfig(s)) = EnsureConfig(s)
         /\ "on" \in Range(EnsureConfig(s))
         /\ Range(s) \ {"off", "similar"} \subseteq Range(EnsureConfig(s))
<1> DEFINE n == Len(s)
           new == EnsureConfig(s)
<1>1. n \in Nat /\ DOMAIN s = 1 .. n
  BY LenProperties
<1>a. ASSUME new \in Seq(LineKinds), NEW first \in 1 .. Len(new), NEW stop \in first + 1 .. Len(new),
             new[first] = "[features]", \A i \in 1 .. first - 1 : new[i] # "[features]",
             \A i \in first + 1 .. stop - 1 : ~Ends(new[i]), new[stop] = "on",
             \A i \in 1 .. n : s[i] \in {"off", "similar"} \/ \E k \in 1 .. Len(new) : new[k] = s[i]
      PROVE  /\ new \in Seq(LineKinds) /\ EnsureConfig(new) = new /\ "on" \in Range(new)
             /\ Range(s) \ {"off", "similar"} \subseteq Range(new)
  <2> HIDE DEF new, n
  <2>1. DOMAIN new = 1 .. Len(new) /\ Len(new) \in Nat
    BY <1>a, LenProperties
  <2>2. EnsureConfig(new) = new
    BY <1>a, OnIsLeft
  <2>3. stop \in DOMAIN new
    BY <2>1
  <2>4. "on" \in Range(new)
    BY <1>a, <2>3 DEF Range
  <2>5. Range(s) \ {"off", "similar"} \subseteq Range(new)
    BY <1>1, <1>a, <2>1 DEF Range
  <2> QED
    BY <1>a, <2>2, <2>4, <2>5
<1>2. CASE Tables(s) = {}
  <2> DEFINE tail == <<"[features]", "on">>
  <2>1. new = s \o tail
    BY <1>2 DEF EnsureConfig
  <2>2. tail \in Seq(LineKinds) /\ Len(tail) = 2 /\ tail[1] = "[features]" /\ tail[2] = "on"
    BY LineFacts
  <2> HIDE DEF tail, new
  <2>3. /\ new \in Seq(LineKinds) /\ Len(new) = n + 2
        /\ \A i \in 1 .. n + 2 : new[i] = IF i <= n THEN s[i] ELSE tail[i - n]
    <3>1. /\ s \o tail \in Seq(LineKinds) /\ Len(s \o tail) = Len(s) + Len(tail)
          /\ \A i \in 1 .. Len(s) + Len(tail) :
               (s \o tail)[i] = IF i <= Len(s) THEN s[i] ELSE tail[i - Len(s)]
      BY <2>2, ConcatProperties
    <3> QED
      BY <2>1, <2>2, <3>1
  <2> HIDE DEF n
  <2>4. \A i \in 1 .. n : new[i] = s[i] /\ s[i] # "[features]"
    BY <1>1, <1>2, <2>3 DEF Tables
  <2>5. new[n + 1] = "[features]" /\ new[n + 2] = "on"
    BY <1>1, <2>2, <2>3
  <2>6. /\ n + 1 \in 1 .. Len(new) /\ n + 2 \in n + 1 + 1 .. Len(new)
        /\ \A i \in 1 .. (n + 1) - 1 : new[i] # "[features]"
        /\ \A i \in n + 1 + 1 .. (n + 2) - 1 : ~Ends(new[i])
        /\ \A i \in 1 .. n : \E k \in 1 .. Len(new) : new[k] = s[i]
    BY <1>1, <2>3, <2>4
  <2> QED
    BY <1>a, <2>3, <2>5, <2>6 DEF new
<1>3. CASE Tables(s) # {}
  <2> DEFINE stop == Stop(s)
  <2>1. PICK first \in 1 .. Len(s) :
          /\ first = Min(Tables(s)) /\ s[first] = "[features]"
          /\ \A i \in 1 .. first - 1 : s[i] # "[features]"
          /\ stop \in first + 1 .. Len(s) + 1
          /\ \A i \in first + 1 .. stop - 1 : ~Ends(s[i])
          /\ stop \in 1 .. Len(s) => Ends(s[stop])
    BY <1>3, StopFacts
  <2> HIDE DEF stop
  <2>2. first \in 1 .. n /\ stop \in first + 1 .. n + 1
    BY <2>1
  <2>3. CASE stop \in DOMAIN s /\ NamesFeature(s[stop])
    <3>1. new = [s EXCEPT ![stop] = "on"]
      BY <1>3, <2>3 DEF EnsureConfig, stop
    <3>2. /\ new \in Seq(LineKinds) /\ Len(new) = n /\ new[stop] = "on"
          /\ \A i \in 1 .. n : i # stop => new[i] = s[i]
      BY <1>1, <2>3, <3>1, LineFacts
    <3> HIDE DEF new, n
    <3>3. s[stop] \in {"on", "off", "similar"} /\ stop \in first + 1 .. n
      BY <1>1, <2>2, <2>3, LineFacts
    <3>4. first # stop /\ \A i \in 1 .. first - 1 : i # stop
      BY <1>1, <2>2
    <3>5. \A i \in 1 .. n : s[i] \in {"off", "similar"} \/ \E k \in 1 .. n : new[k] = s[i]
      <4>1. ASSUME NEW i \in 1 .. n PROVE s[i] \in {"off", "similar"} \/ \E k \in 1 .. n : new[k] = s[i]
        <5>1. CASE i = stop
          BY <1>1, <3>2, <3>3, <5>1
        <5>2. CASE i # stop
          BY <3>2, <5>2
        <5> QED
          BY <5>1, <5>2
      <4> QED
        BY <4>1
    <3>6. /\ new[first] = "[features]" /\ \A i \in 1 .. first - 1 : new[i] # "[features]"
      BY <1>1, <2>1, <2>2, <3>2, <3>4
    <3>7. \A i \in first + 1 .. stop - 1 : ~Ends(new[i])
      BY <1>1, <2>1, <2>2, <3>2, <3>3
    <3> QED
      BY <1>a, <2>2, <3>2, <3>3, <3>5, <3>6, <3>7 DEF new
  <2>4. CASE ~(stop \in DOMAIN s /\ NamesFeature(s[stop]))
    <3>1. new = InsertAt(s, stop, "on")
      BY <1>3, <2>4 DEF EnsureConfig, stop
    <3>2. stop \in 1 .. Len(s) + 1
      BY <1>1, <2>2
    <3>3. /\ new \in Seq(LineKinds) /\ Len(new) = n + 1 /\ new[stop] = "on"
          /\ \A k \in 1 .. stop - 1 : new[k] = s[k]
          /\ \A k \in stop .. n : new[k + 1] = s[k]
      BY <3>1, <3>2, LineFacts, InsertFacts
    <3> HIDE DEF new, n
    <3>4. first \in 1 .. Len(new) /\ stop \in first + 1 .. Len(new)
      BY <1>1, <2>2, <3>3
    <3>5. /\ new[first] = "[features]" /\ \A i \in 1 .. first - 1 : new[i] # "[features]"
      BY <1>1, <2>1, <2>2, <3>3
    <3>6. \A i \in first + 1 .. stop - 1 : ~Ends(new[i])
      BY <1>1, <2>1, <2>2, <3>3
    <3>7. \A i \in 1 .. n : \E k \in 1 .. Len(new) : new[k] = s[i]
      <4>1. ASSUME NEW i \in 1 .. n PROVE \E k \in 1 .. n + 1 : new[k] = s[i]
        <5>1. CASE i < stop
          BY <1>1, <2>2, <3>3, <5>1
        <5>2. CASE ~(i < stop)
          <6>1. i \in stop .. n /\ i + 1 \in 1 .. n + 1
            BY <1>1, <2>2, <5>2
          <6> QED
            BY <3>3, <6>1
        <5> QED
          BY <5>1, <5>2
      <4> QED
        BY <3>3, <4>1
    <3> QED
      BY <1>a, <3>3, <3>4, <3>5, <3>6, <3>7 DEF new
  <2> QED
    BY <2>3, <2>4
<1> QED
  BY <1>2, <1>3

-----------------------------------------------------------------------------
(* An undisturbed install, step by step. *)

Found == [toml : Seq(LineKinds), json : [Files -> FileContents]]

HooksTyped ==
  /\ toml \in Seq(LineKinds)
  /\ json \in [Files -> FileContents]
  /\ at \in [Installers -> InstallSteps]
  /\ origin \in [Installers -> Found]
  /\ apart \subseteq Installers

(* Where the files stand at each step s of an install of e that found them as *)
(* `was` and that nobody disturbed.                                           *)
OnCourse(t, j, s, was, e) ==
  /\ s = "config" => t = was.toml /\ j = was.json
  /\ s = "fill config" => j = was.json
  /\ s = "codex" => t = EnsureConfig(was.toml) /\ j = was.json
  /\ s = "fill codex" => t = EnsureConfig(was.toml) /\ j["claude"] = was.json["claude"]
  /\ s \in {"claude", "fill claude"} =>
       t = EnsureConfig(was.toml) /\ j["codex"] = EnsureHooks(was.json["codex"], e)
  /\ s = "claude" => j["claude"] = was.json["claude"]
  /\ s \in {"fill codex", "claude", "fill claude"} => ~was.json["codex"].bad
  /\ s = "fill claude" => ~was.json["claude"].bad

Undisturbed(i) == i \in apart => OnCourse(toml, json, at[i], origin[i], ExeOf[i])

(* The inductive invariant of the agent hooks. *)
HooksInv == HooksTyped /\ \A i \in Installers : Undisturbed(i)

LEMMA StepNames ==
  /\ {"idle", "config", "fill config", "codex", "fill codex", "claude", "fill claude", "dead"} = InstallSteps
  /\ FillStep("codex") = "fill codex" /\ FillStep("claude") = "fill claude"
  /\ "codex" \in Files /\ "claude" \in Files /\ Files = {"codex", "claude"}
BY DEF InstallSteps, FillStep, Files

LEMMA OffCourse ==
  ASSUME NEW t, NEW j, NEW s \in {"idle", "dead"}, NEW was, NEW e
  PROVE  OnCourse(t, j, s, was, e)
BY DEF OnCourse

LEMMA BrokenIsContents == Broken \in FileContents
<1>1. <<>> \in Seq(Hooks)
  OBVIOUS
<1> QED
  BY <1>1 DEF Broken, FileContents

(* What an emptied file leaves in the history. *)
WithToml(o, i, t) == [o EXCEPT ![i].toml = t]
WithJson(o, i, f, c) == [o EXCEPT ![i].json[f] = c]

LEMMA TomlIsKept ==
  ASSUME NEW o \in [Installers -> Found], NEW i \in Installers, NEW t \in Seq(LineKinds),
         NEW p, p = WithToml(o, i, t)
  PROVE  /\ p \in [Installers -> Found] /\ p[i].toml = t /\ p[i].json = o[i].json
         /\ \A k \in Installers : k # i => p[k] = o[k]
<1>1. PICK u \in Seq(LineKinds), v \in [Files -> FileContents] : o[i] = [toml |-> u, json |-> v]
  BY DEF Found
<1> DEFINE r == [o[i] EXCEPT !.toml = t]
<1>2. r = [toml |-> t, json |-> v] /\ o[i].json = v
  BY <1>1
<1>3. r \in Found /\ r.toml = t /\ r.json = v
  BY <1>2 DEF Found
<1>4. p = [o EXCEPT ![i] = r]
  BY DEF WithToml
<1> HIDE DEF r
<1>5. p \in [Installers -> Found] /\ p[i] = r /\ \A k \in Installers : k # i => p[k] = o[k]
  BY <1>3, <1>4
<1> QED
  BY <1>2, <1>3, <1>5

LEMMA JsonIsKept ==
  ASSUME NEW o \in [Installers -> Found], NEW i \in Installers, NEW f \in Files, NEW c \in FileContents,
         NEW p, p = WithJson(o, i, f, c)
  PROVE  /\ p \in [Installers -> Found] /\ p[i].toml = o[i].toml
         /\ p[i].json = [o[i].json EXCEPT ![f] = c]
         /\ \A k \in Installers : k # i => p[k] = o[k]
<1>1. PICK u \in Seq(LineKinds), v \in [Files -> FileContents] : o[i] = [toml |-> u, json |-> v]
  BY DEF Found
<1> DEFINE r == [o[i] EXCEPT !.json[f] = c]
           w == [v EXCEPT ![f] = c]
<1>2. o[i].toml = u /\ o[i].json = v
  BY <1>1
<1>3. r = [toml |-> u, json |-> w]
  BY <1>1, <1>2
<1>4. w \in [Files -> FileContents]
  OBVIOUS
<1>5. p = [o EXCEPT ![i] = r]
  BY DEF WithJson
<1>6. w = [o[i].json EXCEPT ![f] = c]
  BY <1>2
<1> HIDE DEF r, w
<1>7. r \in Found /\ r.toml = u /\ r.json = w
  BY <1>3, <1>4 DEF Found
<1>8. p \in [Installers -> Found] /\ p[i] = r /\ \A k \in Installers : k # i => p[k] = o[k]
  BY <1>5, <1>7
<1> QED
  BY <1>2, <1>6, <1>7, <1>8

(* Everybody else's install: the step of i either disturbs it or leaves it alone. *)
LEMMA Bystanders ==
  ASSUME HooksInv, NEW i \in Installers,
         toml' \in Seq(LineKinds), json' \in [Files -> FileContents],
         NEW s \in InstallSteps, Advance(i, s),
         origin' \in [Installers -> Found], \A k \in Installers : k # i => origin'[k] = origin[k],
         apart' \subseteq apart \cup {i},
         (toml' = toml /\ json' = json) \/ apart' \subseteq {i},
         Undisturbed(i)'
  PROVE  HooksInv'
<1>1. /\ at' \in [Installers -> InstallSteps] /\ at'[i] = s
      /\ \A k \in Installers : k # i => at'[k] = at[k]
  BY DEF HooksInv, HooksTyped, Advance
<1>2. HooksTyped'
  BY <1>1 DEF HooksInv, HooksTyped
<1>3. ASSUME NEW k \in Installers, k # i PROVE Undisturbed(k)'
  <2>1. CASE k \notin apart'
    BY <2>1 DEF Undisturbed
  <2>2. CASE k \in apart'
    <3>1. toml' = toml /\ json' = json /\ k \in apart
      BY <1>3, <2>2
    <3>2. at'[k] = at[k] /\ origin'[k] = origin[k]
      BY <1>1, <1>3
    <3>3. OnCourse(toml, json, at[k], origin[k], ExeOf[k])
      BY <3>1 DEF HooksInv, Undisturbed
    <3> QED
      BY <3>1, <3>2, <3>3 DEF Undisturbed
  <2> QED
    BY <2>1, <2>2
<1> QED
  BY <1>2, <1>3 DEF HooksInv

LEMMA HooksInitially == HooksInit => HooksInv
<1> SUFFICES ASSUME HooksInit PROVE HooksInv
  OBVIOUS
<1>1. toml \in Seq(LineKinds) /\ json \in [Files -> FileContents]
  BY HooksAssumption DEF HooksInit
<1>2. [toml |-> toml, json |-> json] \in Found
  BY <1>1 DEF Found
<1>3. HooksTyped
  BY <1>1, <1>2, StepNames DEF HooksTyped, HooksInit
<1>4. apart = {}
  BY DEF HooksInit
<1> QED
  BY <1>3, <1>4 DEF HooksInv, Undisturbed

LEMMA InstallKeeps ==
  ASSUME HooksInv, NEW i \in Installers, Install(i)
  PROVE  HooksInv'
<1> USE DEF Install
<1>1. toml' = toml /\ json' = json /\ apart' = apart \cup {i}
  OBVIOUS
<1>2. toml \in Seq(LineKinds) /\ json \in [Files -> FileContents] /\ origin \in [Installers -> Found]
  BY DEF HooksInv, HooksTyped
<1>3. [toml |-> toml, json |-> json] \in Found
  BY <1>2 DEF Found
<1>4. /\ origin' \in [Installers -> Found] /\ origin'[i] = [toml |-> toml, json |-> json]
      /\ \A k \in Installers : k # i => origin'[k] = origin[k]
  BY <1>2, <1>3
<1>5. at'[i] = "config"
  BY DEF Advance, HooksInv, HooksTyped
<1>6. origin'[i].toml = toml /\ origin'[i].json = json
  BY <1>4
<1>7. Undisturbed(i)'
  BY <1>1, <1>5, <1>6 DEF Undisturbed, OnCourse
<1>8. Advance(i, "config") /\ "config" \in InstallSteps
  BY StepNames
<1> HIDE DEF Install
<1> QED
  BY <1>1, <1>2, <1>4, <1>7, <1>8, Bystanders

LEMMA EmptyConfigKeeps ==
  ASSUME HooksInv, NEW i \in Installers, EmptyConfig(i)
  PROVE  HooksInv'
<1>1. /\ toml \in Seq(LineKinds) /\ json \in [Files -> FileContents] /\ origin \in [Installers -> Found]
      /\ at \in [Installers -> InstallSteps] /\ Undisturbed(i)
  BY DEF HooksInv, HooksTyped
<1>2. at[i] = "config" /\ json' = json
  BY DEF EmptyConfig
<1>3. i \in apart => toml = origin[i].toml /\ json = origin[i].json
  BY <1>1, <1>2 DEF Undisturbed, OnCourse
<1>4. CASE EnsureConfig(toml) = toml
  <2>1. Advance(i, "codex") /\ toml' = toml /\ origin' = origin /\ apart' = apart
    BY <1>4 DEF EmptyConfig
  <2>2. at'[i] = "codex" /\ "codex" \in InstallSteps
    BY <1>1, <2>1, StepNames DEF Advance
  <2>3. Undisturbed(i)'
    BY <1>2, <1>3, <1>4, <2>1, <2>2 DEF Undisturbed, OnCourse
  <2> QED
    BY <1>1, <1>2, <2>1, <2>2, <2>3, Bystanders
<1>5. CASE EnsureConfig(toml) # toml
  <2>1. /\ Advance(i, "fill config") /\ toml' = <<>> /\ apart' = apart \cap {i}
        /\ origin' = [origin EXCEPT ![i].toml = toml]
    BY <1>5 DEF EmptyConfig
  <2>0. <<>> \in Seq(LineKinds)
    OBVIOUS
  <2>2. at'[i] = "fill config" /\ "fill config" \in InstallSteps /\ toml' \in Seq(LineKinds)
    BY <1>1, <2>0, <2>1, StepNames DEF Advance
  <2>3. /\ origin' \in [Installers -> Found] /\ origin'[i].json = origin[i].json
        /\ \A k \in Installers : k # i => origin'[k] = origin[k]
    <3>1. origin \in [Installers -> Found] /\ toml \in Seq(LineKinds) /\ origin' = WithToml(origin, i, toml)
      BY <1>1, <2>1 DEF WithToml
    <3> QED
      BY <3>1, TomlIsKept
  <2>4. Undisturbed(i)'
    BY <1>2, <1>3, <2>1, <2>2, <2>3 DEF Undisturbed, OnCourse
  <2>5. apart' \subseteq apart \cup {i} /\ apart' \subseteq {i}
    BY <2>1
  <2> QED
    BY <1>1, <1>2, <2>1, <2>2, <2>3, <2>4, <2>5, Bystanders
<1> QED
  BY <1>4, <1>5

LEMMA FillConfigKeeps ==
  ASSUME HooksInv, NEW i \in Installers, FillConfig(i)
  PROVE  HooksInv'
<1>1. /\ json \in [Files -> FileContents] /\ origin \in [Installers -> Found]
      /\ at \in [Installers -> InstallSteps] /\ Undisturbed(i)
  BY DEF HooksInv, HooksTyped
<1>2. /\ at[i] = "fill config" /\ toml' = EnsureConfig(origin[i].toml) /\ Advance(i, "codex")
      /\ apart' = apart \cap {i} /\ json' = json /\ origin' = origin
  BY DEF FillConfig
<1>3. i \in apart => json = origin[i].json
  BY <1>1, <1>2 DEF Undisturbed, OnCourse
<1>4. at'[i] = "codex" /\ "codex" \in InstallSteps
  BY <1>1, <1>2, StepNames DEF Advance
<1>5. origin[i].toml \in Seq(LineKinds)
  BY <1>1 DEF Found
<1>6. toml' \in Seq(LineKinds)
  BY <1>2, <1>5, EnsureConfigFacts
<1>7. Undisturbed(i)'
  BY <1>2, <1>3, <1>4 DEF Undisturbed, OnCourse
<1>8. apart' \subseteq apart \cup {i} /\ apart' \subseteq {i}
  BY <1>2
<1> QED
  BY <1>1, <1>2, <1>4, <1>6, <1>7, <1>8, Bystanders

LEMMA EmptyCodexKeeps ==
  ASSUME HooksInv, NEW i \in Installers, EmptyHooks(i, "codex", "claude")
  PROVE  HooksInv'
<1> DEFINE e == ExeOf[i]
<1>1. /\ toml \in Seq(LineKinds) /\ json \in [Files -> FileContents] /\ origin \in [Installers -> Found]
      /\ at \in [Installers -> InstallSteps] /\ Undisturbed(i)
  BY DEF HooksInv, HooksTyped
<1>2. at[i] = "codex" /\ toml' = toml
  BY DEF EmptyHooks
<1>3. i \in apart => toml = EnsureConfig(origin[i].toml) /\ json = origin[i].json
  BY <1>1, <1>2 DEF Undisturbed, OnCourse
<1>4. CASE json["codex"].bad \/ EnsureHooks(json["codex"], e) = json["codex"]
  <2> DEFINE s == IF json["codex"].bad THEN "idle" ELSE "claude"
  <2>1. Advance(i, s) /\ json' = json /\ origin' = origin /\ apart' = apart
    BY <1>4 DEF EmptyHooks
  <2>2. at'[i] = s /\ s \in InstallSteps
    BY <1>1, <2>1, StepNames DEF Advance
  <2>3. CASE json["codex"].bad
    <3>1. Undisturbed(i)'
      BY <2>2, <2>3, OffCourse DEF Undisturbed
    <3> QED
      BY <1>1, <1>2, <2>1, <2>2, <3>1, Bystanders
  <2>4. CASE ~json["codex"].bad
    <3>1. Undisturbed(i)'
      BY <1>2, <1>3, <1>4, <2>1, <2>2, <2>4 DEF Undisturbed, OnCourse
    <3> QED
      BY <1>1, <1>2, <2>1, <2>2, <3>1, Bystanders
  <2> QED
    BY <2>3, <2>4
<1>5. CASE ~(json["codex"].bad \/ EnsureHooks(json["codex"], e) = json["codex"])
  <2>1. /\ Advance(i, "fill codex") /\ json' = [json EXCEPT !["codex"] = Broken] /\ apart' = apart \cap {i}
        /\ origin' = [origin EXCEPT ![i].json["codex"] = json["codex"]]
    BY <1>5, StepNames DEF EmptyHooks
  <2>2. at'[i] = "fill codex" /\ "fill codex" \in InstallSteps
    BY <1>1, <2>1, StepNames DEF Advance
  <2>3. json' \in [Files -> FileContents] /\ json'["claude"] = json["claude"]
    BY <1>1, <2>1, BrokenIsContents, StepNames
  <2>4. json["codex"] \in FileContents
    BY <1>1, StepNames
  <2>5. /\ origin' \in [Installers -> Found] /\ origin'[i].toml = origin[i].toml
        /\ origin'[i].json = [origin[i].json EXCEPT !["codex"] = json["codex"]]
        /\ \A k \in Installers : k # i => origin'[k] = origin[k]
    <3>1. /\ origin \in [Installers -> Found] /\ "codex" \in Files /\ json["codex"] \in FileContents
          /\ origin' = WithJson(origin, i, "codex", json["codex"])
      BY <1>1, <2>1, <2>4, StepNames DEF WithJson
    <3> QED
      BY <3>1, JsonIsKept
  <2>6. i \in apart => origin'[i].json = json
    BY <1>1, <1>3, <2>5
  <2>7. Undisturbed(i)'
    BY <1>2, <1>3, <1>5, <2>1, <2>2, <2>3, <2>5, <2>6 DEF Undisturbed, OnCourse
  <2>8. apart' \subseteq apart \cup {i} /\ apart' \subseteq {i}
    BY <2>1
  <2> QED
    BY <1>1, <1>2, <2>2, <2>1, <2>3, <2>5, <2>7, <2>8, Bystanders
<1> QED
  BY <1>4, <1>5

LEMMA FillCodexKeeps ==
  ASSUME HooksInv, NEW i \in Installers, FillHooks(i, "codex", "claude")
  PROVE  HooksInv'
<1> DEFINE c == EnsureHooks(origin[i].json["codex"], ExeOf[i])
<1>1. /\ toml \in Seq(LineKinds) /\ json \in [Files -> FileContents] /\ origin \in [Installers -> Found]
      /\ at \in [Installers -> InstallSteps] /\ Undisturbed(i)
  BY DEF HooksInv, HooksTyped
<1>2. /\ at[i] = "fill codex" /\ json' = [json EXCEPT !["codex"] = c] /\ Advance(i, "claude")
      /\ apart' = apart \cap {i} /\ toml' = toml /\ origin' = origin
  BY StepNames DEF FillHooks
<1>3. i \in apart => /\ toml = EnsureConfig(origin[i].toml) /\ json["claude"] = origin[i].json["claude"]
                     /\ ~origin[i].json["codex"].bad
  BY <1>1, <1>2 DEF Undisturbed, OnCourse
<1>4. at'[i] = "claude" /\ "claude" \in InstallSteps
  BY <1>1, <1>2, StepNames DEF Advance
<1>5. origin[i].json["codex"] \in FileContents /\ ExeOf[i] \in Exes
  BY <1>1, HooksAssumption, StepNames DEF Found
<1>6. c \in FileContents
  BY <1>5, EnsureHooksFacts
<1> HIDE DEF c
<1>7. json' \in [Files -> FileContents] /\ json'["codex"] = c /\ json'["claude"] = json["claude"]
  BY <1>1, <1>2, <1>6, StepNames
<1>8. Undisturbed(i)'
  BY <1>2, <1>3, <1>4, <1>7 DEF Undisturbed, OnCourse, c
<1>9. apart' \subseteq apart \cup {i} /\ apart' \subseteq {i}
  BY <1>2
<1> QED
  BY <1>1, <1>2, <1>4, <1>7, <1>8, <1>9, Bystanders

LEMMA EmptyClaudeKeeps ==
  ASSUME HooksInv, NEW i \in Installers, EmptyHooks(i, "claude", "idle")
  PROVE  HooksInv'
<1>1. /\ toml \in Seq(LineKinds) /\ json \in [Files -> FileContents] /\ origin \in [Installers -> Found]
      /\ at \in [Installers -> InstallSteps] /\ Undisturbed(i)
  BY DEF HooksInv, HooksTyped
<1>2. at[i] = "claude" /\ toml' = toml
  BY DEF EmptyHooks
<1>3. i \in apart => /\ toml = EnsureConfig(origin[i].toml)
                     /\ json["codex"] = EnsureHooks(origin[i].json["codex"], ExeOf[i])
                     /\ json["claude"] = origin[i].json["claude"] /\ ~origin[i].json["codex"].bad
  BY <1>1, <1>2 DEF Undisturbed, OnCourse
<1>4. CASE json["claude"].bad \/ EnsureHooks(json["claude"], ExeOf[i]) = json["claude"]
  <2>1. Advance(i, "idle") /\ json' = json /\ origin' = origin /\ apart' = apart
    BY <1>4 DEF EmptyHooks
  <2>2. at'[i] = "idle" /\ "idle" \in InstallSteps
    BY <1>1, <2>1, StepNames DEF Advance
  <2>3. Undisturbed(i)'
    BY <2>2, OffCourse DEF Undisturbed
  <2> QED
    BY <1>1, <1>2, <2>1, <2>2, <2>3, Bystanders
<1>5. CASE ~(json["claude"].bad \/ EnsureHooks(json["claude"], ExeOf[i]) = json["claude"])
  <2>1. /\ Advance(i, "fill claude") /\ json' = [json EXCEPT !["claude"] = Broken] /\ apart' = apart \cap {i}
        /\ origin' = [origin EXCEPT ![i].json["claude"] = json["claude"]]
    BY <1>5, StepNames DEF EmptyHooks
  <2>2. at'[i] = "fill claude" /\ "fill claude" \in InstallSteps
    BY <1>1, <2>1, StepNames DEF Advance
  <2>3. json' \in [Files -> FileContents] /\ json'["codex"] = json["codex"]
    BY <1>1, <2>1, BrokenIsContents, StepNames
  <2>4. json["claude"] \in FileContents /\ origin[i].json \in [Files -> FileContents]
    BY <1>1, StepNames DEF Found
  <2>5. /\ origin' \in [Installers -> Found] /\ origin'[i].toml = origin[i].toml
        /\ origin'[i].json = [origin[i].json EXCEPT !["claude"] = json["claude"]]
        /\ \A k \in Installers : k # i => origin'[k] = origin[k]
    <3>1. /\ origin \in [Installers -> Found] /\ "claude" \in Files /\ json["claude"] \in FileContents
          /\ origin' = WithJson(origin, i, "claude", json["claude"])
      BY <1>1, <2>1, <2>4, StepNames DEF WithJson
    <3> QED
      BY <3>1, JsonIsKept
  <2>6. origin'[i].json["codex"] = origin[i].json["codex"] /\ origin'[i].json["claude"] = json["claude"]
    BY <2>4, <2>5, StepNames
  <2>7. Undisturbed(i)'
    BY <1>2, <1>3, <1>5, <2>1, <2>2, <2>3, <2>5, <2>6 DEF Undisturbed, OnCourse
  <2>8. apart' \subseteq apart \cup {i} /\ apart' \subseteq {i}
    BY <2>1
  <2> QED
    BY <1>1, <1>2, <2>2, <2>1, <2>3, <2>5, <2>7, <2>8, Bystanders
<1> QED
  BY <1>4, <1>5

LEMMA FillClaudeKeeps ==
  ASSUME HooksInv, NEW i \in Installers, FillHooks(i, "claude", "idle")
  PROVE  HooksInv'
<1> DEFINE c == EnsureHooks(origin[i].json["claude"], ExeOf[i])
<1>1. /\ toml \in Seq(LineKinds) /\ json \in [Files -> FileContents] /\ origin \in [Installers -> Found]
      /\ at \in [Installers -> InstallSteps]
  BY DEF HooksInv, HooksTyped
<1>2. /\ json' = [json EXCEPT !["claude"] = c] /\ Advance(i, "idle")
      /\ apart' = apart \cap {i} /\ toml' = toml /\ origin' = origin
  BY DEF FillHooks
<1>3. at'[i] = "idle" /\ "idle" \in InstallSteps
  BY <1>1, <1>2, StepNames DEF Advance
<1>4. origin[i].json["claude"] \in FileContents /\ ExeOf[i] \in Exes
  <2>1. origin[i].json \in [Files -> FileContents]
    BY <1>1 DEF Found
  <2> QED
    BY <2>1, HooksAssumption, StepNames
<1>5. c \in FileContents
  BY <1>4, EnsureHooksFacts
<1> HIDE DEF c
<1>6. json' \in [Files -> FileContents]
  BY <1>1, <1>2, <1>5
<1>7. Undisturbed(i)'
  BY <1>3, OffCourse DEF Undisturbed
<1>8. apart' \subseteq apart \cup {i} /\ apart' \subseteq {i}
  BY <1>2
<1> QED
  BY <1>1, <1>2, <1>3, <1>6, <1>7, <1>8, Bystanders

LEMMA DieInstallKeeps ==
  ASSUME HooksInv, NEW i \in Installers, DieInstall(i)
  PROVE  HooksInv'
<1>1. /\ toml \in Seq(LineKinds) /\ json \in [Files -> FileContents] /\ origin \in [Installers -> Found]
      /\ at \in [Installers -> InstallSteps]
  BY DEF HooksInv, HooksTyped
<1>2. Advance(i, "dead") /\ toml' = toml /\ json' = json /\ origin' = origin /\ apart' = apart
  BY DEF DieInstall
<1>3. at'[i] = "dead" /\ "dead" \in InstallSteps
  BY <1>1, <1>2, StepNames DEF Advance
<1>4. Undisturbed(i)'
  BY <1>3, OffCourse DEF Undisturbed
<1> QED
  BY <1>1, <1>2, <1>3, <1>4, Bystanders

LEMMA HooksStep == HooksInv /\ [HooksNext]_hooksVars => HooksInv'
<1> SUFFICES ASSUME HooksInv, [HooksNext]_hooksVars PROVE HooksInv'
  OBVIOUS
<1>1. CASE HooksNext
  BY <1>1, InstallKeeps, EmptyConfigKeeps, FillConfigKeeps, EmptyCodexKeeps, FillCodexKeeps,
     EmptyClaudeKeeps, FillClaudeKeeps, DieInstallKeeps DEF HooksNext
<1>2. CASE UNCHANGED hooksVars
  BY <1>2 DEF hooksVars, HooksInv, HooksTyped, Undisturbed
<1> QED
  BY <1>1, <1>2


(* What InstallSettles says of one install. *)
Settles(i) ==
  Installing(i) /\ at'[i] = "idle" /\ i \in apart =>
    LET e == ExeOf[i]
        bad == {f \in Files : origin[i].json[f].bad}
    IN
    /\ EnsureConfig(toml') = toml'
    /\ Range(origin[i].toml) \ {"off", "similar"} \subseteq Range(toml')
    /\ bad = {} =>
         /\ Status(toml', json', e)
         /\ \A f \in Files :
              /\ EnsureHooks(json'[f], e) = json'[f]
              /\ Respects(origin[i].json[f].start, json'[f].start, e)
              /\ Respects(origin[i].json[f].end, json'[f].end, e)
    /\ \A f \in bad : json'[f] = origin[i].json[f]

LEMMA ReturnIsFromHooks ==
  ASSUME HooksInv, HooksNext, NEW i \in Installers, Installing(i), at'[i] = "idle"
  PROVE  \/ EmptyHooks(i, "codex", "claude") /\ json["codex"].bad
         \/ EmptyHooks(i, "claude", "idle")
         \/ FillHooks(i, "claude", "idle")
<1>1. at \in [Installers -> InstallSteps]
  BY DEF HooksInv, HooksTyped
<1>2. PICK k \in Installers :
        \/ Install(k) \/ EmptyConfig(k) \/ FillConfig(k)
        \/ EmptyHooks(k, "codex", "claude") \/ FillHooks(k, "codex", "claude")
        \/ EmptyHooks(k, "claude", "idle") \/ FillHooks(k, "claude", "idle")
        \/ DieInstall(k)
  BY DEF HooksNext
<1>3. PICK s \in InstallSteps : Advance(k, s)
  <2>1. CASE Install(k) \/ EmptyConfig(k) \/ FillConfig(k) \/ DieInstall(k)
    BY <2>1, StepNames DEF Install, EmptyConfig, FillConfig, DieInstall
  <2>2. CASE EmptyHooks(k, "codex", "claude") \/ FillHooks(k, "codex", "claude")
    BY <2>2, StepNames DEF EmptyHooks, FillHooks
  <2>3. CASE EmptyHooks(k, "claude", "idle") \/ FillHooks(k, "claude", "idle")
    BY <2>3, StepNames DEF EmptyHooks, FillHooks
  <2> QED
    BY <1>2, <2>1, <2>2, <2>3
<1>4. at'[k] = s /\ (k # i => at'[i] = at[i])
  BY <1>1, <1>3 DEF Advance
<1>5. k = i /\ s = "idle"
  BY <1>4 DEF Installing
<1>6. ~Install(i) /\ ~EmptyConfig(i) /\ ~FillConfig(i) /\ ~DieInstall(i) /\ ~FillHooks(i, "codex", "claude")
  BY <1>1, <1>4, <1>5 DEF Install, EmptyConfig, FillConfig, DieInstall, FillHooks, Advance
<1>7. ASSUME EmptyHooks(i, "codex", "claude"), ~json["codex"].bad PROVE FALSE
  BY <1>1, <1>4, <1>5, <1>7, StepNames DEF EmptyHooks, Advance
<1> QED
  BY <1>2, <1>5, <1>6, <1>7

LEMMA StatusFacts ==
  ASSUME NEW s \in Seq(LineKinds), NEW t, t = EnsureConfig(s)
  PROVE  EnsureConfig(t) = t /\ FeatureEnabled(t) /\ Range(s) \ {"off", "similar"} \subseteq Range(t)
<1>1. /\ EnsureConfig(t) = t /\ "on" \in Range(t)
      /\ Range(s) \ {"off", "similar"} \subseteq Range(t)
  BY EnsureConfigFacts
<1> QED
  BY <1>1 DEF FeatureEnabled, Range

LEMMA SettlesStep ==
  ASSUME HooksInv, HooksNext, NEW i \in Installers
  PROVE  Settles(i)
<1> DEFINE was == origin[i]
           e == ExeOf[i]
           c == was.json["codex"]
           l == was.json["claude"]
<1> SUFFICES ASSUME Installing(i), at'[i] = "idle", i \in apart
             PROVE  /\ EnsureConfig(toml') = toml'
                    /\ Range(was.toml) \ {"off", "similar"} \subseteq Range(toml')
                    /\ {f \in Files : was.json[f].bad} = {} =>
                         /\ Status(toml', json', e)
                         /\ \A f \in Files :
                              /\ EnsureHooks(json'[f], e) = json'[f]
                              /\ Respects(was.json[f].start, json'[f].start, e)
                              /\ Respects(was.json[f].end, json'[f].end, e)
                    /\ \A f \in {f \in Files : was.json[f].bad} : json'[f] = was.json[f]
  BY DEF Settles
<1>1. /\ json \in [Files -> FileContents] /\ origin \in [Installers -> Found]
      /\ OnCourse(toml, json, at[i], was, e)
  BY DEF HooksInv, HooksTyped, Undisturbed
<1>2. was.toml \in Seq(LineKinds) /\ was.json \in [Files -> FileContents] /\ e \in Exes
  BY <1>1, HooksAssumption DEF Found
<1>3. c \in FileContents /\ l \in FileContents
  BY <1>2, StepNames
<1>4. ASSUME toml' = EnsureConfig(was.toml)
      PROVE  /\ EnsureConfig(toml') = toml' /\ FeatureEnabled(toml')
             /\ Range(was.toml) \ {"off", "similar"} \subseteq Range(toml')
  BY <1>2, <1>4, StatusFacts
<1>5. CASE EmptyHooks(i, "codex", "claude") /\ json["codex"].bad
  <2>1. toml' = toml /\ json' = json /\ at[i] = "codex"
    BY <1>5 DEF EmptyHooks
  <2>2. toml = EnsureConfig(was.toml) /\ json = was.json
    BY <1>1, <2>1 DEF OnCourse
  <2>3. {f \in Files : was.json[f].bad} # {}
    BY <1>5, <2>2, StepNames
  <2> QED
    BY <1>4, <2>1, <2>2, <2>3
<1>6. ASSUME toml' = EnsureConfig(was.toml), json'["codex"] = EnsureHooks(c, e), ~c.bad,
             IF l.bad THEN json'["claude"] = l ELSE json'["claude"] = EnsureHooks(l, e)
      PROVE  /\ EnsureConfig(toml') = toml'
             /\ Range(was.toml) \ {"off", "similar"} \subseteq Range(toml')
             /\ {f \in Files : was.json[f].bad} = {} =>
                  /\ Status(toml', json', e)
                  /\ \A f \in Files :
                       /\ EnsureHooks(json'[f], e) = json'[f]
                       /\ Respects(was.json[f].start, json'[f].start, e)
                       /\ Respects(was.json[f].end, json'[f].end, e)
             /\ \A f \in {f \in Files : was.json[f].bad} : json'[f] = was.json[f]
  <2>1. /\ EnsureConfig(toml') = toml' /\ FeatureEnabled(toml')
        /\ Range(was.toml) \ {"off", "similar"} \subseteq Range(toml')
    BY <1>4, <1>6
  <2>2. ASSUME {f \in Files : was.json[f].bad} = {}
        PROVE  /\ Status(toml', json', e)
               /\ \A f \in Files :
                    /\ EnsureHooks(json'[f], e) = json'[f]
                    /\ Respects(was.json[f].start, json'[f].start, e)
                    /\ Respects(was.json[f].end, json'[f].end, e)
    <3>1. ~l.bad /\ json'["claude"] = EnsureHooks(l, e)
      BY <1>6, <2>2, StepNames
    <3>2. /\ Matches(json'["codex"], e) /\ EnsureHooks(json'["codex"], e) = json'["codex"]
          /\ Respects(c.start, json'["codex"].start, e) /\ Respects(c.end, json'["codex"].end, e)
      BY <1>2, <1>3, <1>6, EnsureHooksFacts
    <3>3. /\ Matches(json'["claude"], e) /\ EnsureHooks(json'["claude"], e) = json'["claude"]
          /\ Respects(l.start, json'["claude"].start, e) /\ Respects(l.end, json'["claude"].end, e)
      BY <1>2, <1>3, <3>1, EnsureHooksFacts
    <3>4. Status(toml', json', e)
      BY <2>1, <3>2, <3>3 DEF Status
    <3>5. ASSUME NEW f \in Files
          PROVE  /\ EnsureHooks(json'[f], e) = json'[f]
                 /\ Respects(was.json[f].start, json'[f].start, e)
                 /\ Respects(was.json[f].end, json'[f].end, e)
      <4>1. f = "codex" \/ f = "claude"
        BY StepNames
      <4> QED
        BY <3>2, <3>3, <4>1
    <3> QED
      BY <3>4, <3>5
  <2>3. \A f \in {f \in Files : was.json[f].bad} : json'[f] = was.json[f]
    <3>1. ASSUME NEW f \in Files, was.json[f].bad PROVE json'[f] = was.json[f]
      <4>1. f = "claude"
        BY <1>6, <3>1, StepNames
      <4> QED
        BY <1>6, <3>1, <4>1
    <3> QED
      BY <3>1
  <2> QED
    BY <2>1, <2>2, <2>3
<1>7. CASE EmptyHooks(i, "claude", "idle")
  <2>1. at[i] = "claude" /\ toml' = toml
    BY <1>7 DEF EmptyHooks
  <2>2. /\ toml = EnsureConfig(was.toml) /\ json["codex"] = EnsureHooks(c, e)
        /\ json["claude"] = l /\ ~c.bad
    BY <1>1, <2>1 DEF OnCourse
  <2>3. /\ json["claude"].bad \/ EnsureHooks(json["claude"], ExeOf[i]) = json["claude"]
        /\ json' = json
    <3>1. at \in [Installers -> InstallSteps]
      BY DEF HooksInv, HooksTyped
    <3>2. ~Advance(i, "fill claude")
      BY <3>1 DEF Advance
    <3> QED
      BY <1>7, <3>2, StepNames DEF EmptyHooks
  <2>4. IF l.bad THEN json'["claude"] = l ELSE json'["claude"] = EnsureHooks(l, e)
    BY <2>2, <2>3
  <2> QED
    BY <1>6, <2>1, <2>2, <2>3, <2>4
<1>8. CASE FillHooks(i, "claude", "idle")
  <2>1. at[i] = "fill claude" /\ toml' = toml /\ json' = [json EXCEPT !["claude"] = EnsureHooks(l, e)]
    BY <1>8, StepNames DEF FillHooks
  <2>2. /\ toml = EnsureConfig(was.toml) /\ json["codex"] = EnsureHooks(c, e)
        /\ ~l.bad /\ ~c.bad
    BY <1>1, <2>1 DEF OnCourse
  <2>3. json'["codex"] = json["codex"] /\ json'["claude"] = EnsureHooks(l, e)
    BY <1>1, <2>1, StepNames
  <2>4. IF l.bad THEN json'["claude"] = l ELSE json'["claude"] = EnsureHooks(l, e)
    BY <2>2, <2>3
  <2> QED
    BY <1>6, <2>1, <2>2, <2>3, <2>4
<1> HIDE DEF was, e, c, l
<1> QED
  BY <1>5, <1>7, <1>8, ReturnIsFromHooks

(* An install during which nobody else wrote returns with its hooks in place  *)
(* and the entries of others where they were, and another install would       *)
(* change nothing; it fails only on a file it cannot read, and leaves that    *)
(* file alone (hooks install and hooks repair).                               *)
THEOREM InstallsSettle == HooksSpec => InstallSettles
<1>1. HooksInit => HooksInv
  BY HooksInitially
<1>2. HooksInv /\ [HooksNext]_hooksVars => HooksInv'
  BY HooksStep
<1>3. HooksInv /\ [HooksNext]_hooksVars => [\A i \in Installers : Settles(i)]_hooksVars
  <2>1. ASSUME HooksInv, HooksNext PROVE \A i \in Installers : Settles(i)
    BY <2>1, SettlesStep
  <2> QED
    BY <2>1
<1> QED
  BY <1>1, <1>2, <1>3, PTL DEF HooksSpec, InstallSettles, Settles
=============================================================================
