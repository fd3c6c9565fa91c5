---------------------------- MODULE Tooling_proofs ----------------------------
(***************************************************************************)
(* Theorems about `version.py set`, for any number of tools, any list of   *)
(* sources and any versions; and about the release workflow, for any       *)
(* commits with any catalogues, any tags, pushes and re-runs.  Between     *)
(* them, what the recursive definitions of the catalogue compute: that the *)
(* depth-first search finds a cycle in every graph that has one, and that  *)
(* the lanes run every command declared for them.                          *)
(***************************************************************************)
EXTENDS VersionTool, Release, SequenceTheorems, FiniteSetTheorems, WellFoundedInduction, TLAPS

\* `just version next <part>` always proposes a version that `set` accepts: every bump
\* is newer than the version it bumps.
THEOREM NextIsNewer ==
  ASSUME NEW v \in Nat \X Nat \X Nat, NEW part \in {"major", "minor", "patch"}
  PROVE  Precedes(v, NextVersion(part, v))
<1>1. CASE part = "major"
  BY <1>1 DEF Precedes, NextVersion
<1>2. CASE part = "minor"
  BY <1>2 DEF Precedes, NextVersion
<1>3. CASE part = "patch"
  BY <1>3 DEF Precedes, NextVersion
<1> QED
  BY <1>1, <1>2, <1>3

LEMMA SourcesFacts ==
  /\ Len(Sources) \in Nat \ {0}
  /\ DOMAIN Sources = 1..Len(Sources)
  /\ \A i \in 1..Len(Sources) : Sources[i] \in Files
  /\ \A f \in Files : \E i \in 1..Len(Sources) : f = Sources[i]
  /\ Record \in Files
  /\ \A p \in Projects : p \in Files
<1>1. Len(Sources) \in Nat /\ DOMAIN Sources = 1..Len(Sources)
  BY SourcesAssumption, LenProperties
<1>2. Len(Sources) # 0
  BY SourcesAssumption, EmptySeq
<1>3. Record \in Files
  BY <1>1, <1>2, SourcesAssumption DEF Files
<1> QED
  BY <1>1, <1>2, <1>3, SourcesAssumption DEF Files

-----------------------------------------------------------------------------
(* Types *)

LEMMA InitTypeOK == Init => TypeOK
<1> SUFFICES ASSUME Init PROVE TypeOK
  OBVIOUS
<1>1. PICK v \in Versions :
        /\ files = [f \in Files |-> [version |-> v, text |-> 0]]
        /\ lock = [p \in Projects |-> v]
  BY DEF Init
<1>2. files \in [Files -> Content] /\ lock \in [Projects -> Versions]
  BY <1>1, EditsAssumption DEF Content
<1>3. at \in [Tools -> 0..Len(Sources)]
  BY SourcesFacts DEF Init
<1> QED
  BY <1>2, <1>3, EditsAssumption DEF Init, TypeOK, Phases, Running

\* Replanning a typed tree gives typed contents.
LEMMA PlannedType ==
  ASSUME NEW fs \in [Files -> Content], NEW v \in Versions
  PROVE  /\ Planned(fs, v) \in [Files -> Content]
         /\ \A f \in Files : Planned(fs, v)[f].version = v
BY DEF Planned, Content

\* A set's position and locals are typed.
Placed ==
  /\ pc \in [Tools -> Phases]
  /\ at \in [Tools -> 0..Len(Sources)]
  /\ \A t \in Tools : pc[t] = "replace" => at[t] < Len(Sources)
  /\ target = [t \in Tools |-> target[t]]
  /\ read = [t \in Tools |-> read[t]]
  /\ saved = [t \in Tools |-> saved[t]]
  /\ \A t \in Tools : Running(t) => target[t] \in Versions /\ read[t] \in Trees
  /\ \A t \in Tools : Running(t) /\ pc[t] # "planned" => saved[t] \in Trees

LEMMA EndsPlaced ==
  ASSUME Placed, NEW t \in Tools, NEW phase \in {"idle", "dead"}, Ends(t, phase)
  PROVE  Placed'
<1>1. pc' \in [Tools -> Phases] /\ at' \in [Tools -> 0..Len(Sources)]
  BY SourcesFacts DEF Placed, Ends, Phases
<1>2. \A u \in Tools : pc'[u] = "replace" => at'[u] < Len(Sources)
  BY DEF Placed, Ends
<1>3. /\ target' = [u \in Tools |-> target'[u]]
      /\ read' = [u \in Tools |-> read'[u]]
      /\ saved' = [u \in Tools |-> saved'[u]]
  BY DEF Placed, Ends
<1>4. (\A u \in Tools : Running(u) => target[u] \in Versions /\ read[u] \in Trees)'
  BY DEF Placed, Ends, Running
<1>5. (\A u \in Tools : Running(u) /\ pc[u] # "planned" => saved[u] \in Trees)'
  BY DEF Placed, Ends, Running
<1> QED
  BY <1>1, <1>2, <1>3, <1>4, <1>5 DEF Placed

LEMMA StepTypeOK == TypeOK /\ [Next]_vars => TypeOK'
<1> SUFFICES ASSUME TypeOK, [Next]_vars PROVE TypeOK'
  OBVIOUS
<1> DEFINE L == Len(Sources)
<1>0. L \in Nat \ {0} /\ \A i \in 1..L : Sources[i] \in Files
  BY SourcesFacts
<1> HIDE DEF L
<1> USE <1>0 DEF TypeOK, Running, Phases
<1>1. CASE UNCHANGED vars
  BY <1>1 DEF vars
<1>2. ASSUME NEW t \in Tools, NEW v \in Versions, Plan(t, v) PROVE TypeOK'
  <2>1. [files |-> files, lock |-> lock] \in Trees
    BY DEF Trees
  <2> QED
    BY <1>2, <2>1 DEF Plan, tree, Causes
<1>3. ASSUME NEW t \in Tools, Save(t) PROVE TypeOK'
  <2>1. [files |-> files, lock |-> lock] \in Trees
    BY DEF Trees
  <2>2. at' \in [Tools -> 0..L] /\ pc' \in [Tools -> Phases]
    BY <1>3 DEF Save, L
  <2>3. \A u \in Tools : pc'[u] = "replace" => at'[u] < L
    BY <1>3 DEF Save, L
  <2>4. /\ saved' = [u \in Tools |-> saved'[u]]
        /\ \A u \in Tools : Running(u)' /\ pc'[u] # "planned" => saved'[u] \in Trees
    BY <1>3, <2>1 DEF Save
  <2> QED
    BY <1>3, <2>2, <2>3, <2>4 DEF Save, tree, history, L
<1>4. ASSUME NEW t \in Tools, Replace(t) PROVE TypeOK'
  <2>0. at[t] \in 0..L /\ at[t] < L
    BY <1>4 DEF Replace, L
  <2>6. at[t] + 1 \in 1..L
    BY <2>0
  <2>7. read[t] \in Trees /\ target[t] \in Versions
    BY <1>4 DEF Replace
  <2>1. /\ at[t] + 1 \in 1..L
        /\ read[t].files \in [Files -> Content]
        /\ target[t] \in Versions
    BY <2>6, <2>7 DEF Trees
  <2>2. Planned(read[t].files, target[t])[Sources[at[t] + 1]] \in Content
    <3>1. Planned(read[t].files, target[t]) \in [Files -> Content]
      BY <2>1, PlannedType
    <3>2. Sources[at[t] + 1] \in Files
      BY <2>1
    <3> QED
      BY <3>1, <3>2
  <2>3. files' \in [Files -> Content]
    BY <1>4, <2>2 DEF Replace
  <2>4. at' \in [Tools -> 0..L]
    BY <1>4, <2>1 DEF Replace, L
  <2>5. /\ pc' \in [Tools -> Phases]
        /\ \A u \in Tools : pc'[u] = "replace" => at'[u] < L
    BY <1>4, <2>1, <2>4 DEF Replace, L
  <2> QED
    BY <1>4, <2>3, <2>4, <2>5 DEF Replace, locals, Others, L
<1>5. ASSUME NEW t \in Tools, ReplaceFails(t) PROVE TypeOK'
  BY <1>5 DEF ReplaceFails, Abandon, tree, locals, history, L
<1>6. ASSUME NEW t \in Tools, RefreshLock(t) PROVE TypeOK'
  <2>1. lock' \in [Projects -> Versions]
    BY <1>6, SourcesFacts DEF RefreshLock, Content
  <2> QED
    BY <1>6, <2>1 DEF RefreshLock, locals, Others
<1>7. ASSUME NEW t \in Tools, LockFails(t) PROVE TypeOK'
  BY <1>7 DEF LockFails, Abandon, tree, locals, history, L
<1>8. ASSUME NEW t \in Tools, Confirm(t) PROVE TypeOK'
  <2>1. Placed'
    BY <1>8, EndsPlaced DEF Confirm, Placed
  <2> QED
    BY <1>8, <2>1 DEF Confirm, tree, Placed
<1>9. ASSUME NEW t \in Tools, Reject(t) PROVE TypeOK'
  BY <1>9 DEF Reject, Abandon, tree, locals, history, L
<1>10. ASSUME NEW t \in Tools, PutBack(t) PROVE TypeOK'
  <2>1. at[t] + 1 \in 1..L /\ saved[t].files \in [Files -> Content]
    BY <1>10 DEF PutBack, Trees, L
  <2>2. files' \in [Files -> Content]
    BY <1>10, <2>1 DEF PutBack
  <2>3. at' \in [Tools -> 0..L]
    BY <1>10, <2>1 DEF PutBack, L
  <2> QED
    BY <1>10, <2>2, <2>3 DEF PutBack, locals, Others, L
<1>11. ASSUME NEW t \in Tools, PutBackLock(t) PROVE TypeOK'
  <2>1. lock' \in [Projects -> Versions]
    BY <1>11 DEF PutBackLock, Trees
  <2>2. Placed'
    BY <1>11, EndsPlaced DEF PutBackLock, Placed
  <2> QED
    BY <1>11, <2>1, <2>2 DEF PutBackLock, Others, Placed
<1>12. ASSUME NEW t \in Tools, PutBackFails(t) PROVE TypeOK'
  <2>1. Placed'
    BY <1>12, EndsPlaced DEF PutBackFails, Placed
  <2> QED
    BY <1>12, <2>1 DEF PutBackFails, tree, Causes, Placed
<1>13. ASSUME NEW t \in Tools, Die(t) PROVE TypeOK'
  <2>1. Placed'
    BY <1>13, EndsPlaced DEF Die, Placed
  <2> QED
    BY <1>13, <2>1 DEF Die, tree, Causes, Placed
<1>14. ASSUME NEW f \in Files, EditText(f) PROVE TypeOK'
  <2>1. edits' \in 0..MaxEdits
    BY <1>14, EditsAssumption DEF EditText
  <2>2. files' \in [Files -> Content]
    BY <1>14, <2>1 DEF EditText, Content
  <2> QED
    BY <1>14, <2>1, <2>2 DEF EditText, locals
<1>15. ASSUME NEW f \in Files, NEW v \in Versions, EditVersion(f, v) PROVE TypeOK'
  <2>1. edits' \in 0..MaxEdits
    BY <1>15, EditsAssumption DEF EditVersion
  <2>2. files' \in [Files -> Content]
    BY <1>15 DEF EditVersion, Content
  <2> QED
    BY <1>15, <2>1, <2>2 DEF EditVersion, locals, Causes
<1> QED
  BY <1>1, <1>2, <1>3, <1>4, <1>5, <1>6, <1>7, <1>8, <1>9, <1>10, <1>11, <1>12,
     <1>13, <1>14, <1>15 DEF Next

\* The state stays within its types.
THEOREM Typed == Spec => []TypeOK
<1> QED
  BY InitTypeOK, StepTypeOK, PTL DEF Spec

-----------------------------------------------------------------------------
(* DriftHasACause.  While nothing has happened that can leave the projections *)
(* adrift there is at most one set underway, the originals it saved agree with *)
(* one another, and its restoring loop has brought the sources it has passed   *)
(* back to the versions of those originals.                                    *)

Alone(t) == \A u \in Tools : Running(u) => u = t

SavedConverged(t) ==
  pc[t] \in {"replace", "lock", "check", "restore"} =>
    Converged(saved[t].files, saved[t].lock)

Restored(t) ==
  pc[t] = "restore" =>
    \A i \in 1..Len(Sources) : i <= at[t] =>
      files[Sources[i]].version = saved[t].files[Sources[i]].version

NoCause ==
  cause = {} =>
    /\ \A t \in Tools : Running(t) => Alone(t)
    /\ (\A t \in Tools : ~Running(t)) => Converged(files, lock)
    /\ \A t \in Tools : pc[t] = "planned" => Converged(files, lock)
    /\ \A t \in Tools : SavedConverged(t) /\ Restored(t)

\* Convergence only looks at versions.
LEMMA ConvergedVersions ==
  ASSUME NEW fs, NEW gs, NEW lk,
         \A f \in Files : gs[f].version = fs[f].version,
         Converged(fs, lk)
  PROVE  Converged(gs, lk)
BY SourcesFacts DEF Converged, ReleaseVersion

LEMMA InitNoCause == Init => NoCause
<1> SUFFICES ASSUME Init PROVE NoCause
  OBVIOUS
<1>1. Converged(files, lock)
  BY SourcesFacts DEF Init, Converged, ReleaseVersion
<1> QED
  BY <1>1 DEF Init, NoCause, Running, SavedConverged, Restored

LEMMA StepNoCause == TypeOK /\ NoCause /\ [Next]_vars => NoCause'
<1> SUFFICES ASSUME TypeOK, NoCause, [Next]_vars, cause' = {}
             PROVE  NoCause'
  BY DEF NoCause
<1> DEFINE L == Len(Sources)
<1>0. L \in Nat \ {0} /\ \A i \in 1..L : Sources[i] \in Files
  BY SourcesFacts
<1> HIDE DEF L
<1>1. CASE UNCHANGED vars
  BY <1>1 DEF vars, NoCause, Alone, Running, SavedConverged, Restored, Converged,
              ReleaseVersion
<1>2. ASSUME NEW t \in Tools, NEW v \in Versions, Plan(t, v) PROVE NoCause'
  <2>1. cause = {} /\ Others(t) = {}
    BY <1>2 DEF Plan
  <2>2. \A u \in Tools : Running(u)' => u = t
    BY <1>2, <2>1 DEF Plan, Others, Running, TypeOK
  <2>3. Converged(files, lock)'
    BY <1>2 DEF Plan, tree, Converged, ReleaseVersion
  <2>4. \A u \in Tools : SavedConverged(u)' /\ Restored(u)'
    BY <1>2, <2>2 DEF Plan, SavedConverged, Restored, Running, TypeOK
  <2> QED
    BY <2>2, <2>3, <2>4 DEF NoCause, Alone
<1>3. ASSUME NEW t \in Tools, Save(t) PROVE NoCause'
  <2>1. cause = {} /\ Converged(files, lock) /\ Alone(t)
    BY <1>3 DEF Save, history, NoCause, Running
  <2>2. \A u \in Tools : Running(u)' => u = t
    BY <1>3, <2>1 DEF Save, Alone, Running, TypeOK
  <2>3. saved'[t].files = files /\ saved'[t].lock = lock /\ pc'[t] = "replace"
    BY <1>3 DEF Save, TypeOK
  <2>4. SavedConverged(t)' /\ Restored(t)'
    BY <2>1, <2>3 DEF SavedConverged, Restored, Converged, ReleaseVersion
  <2>5. \A u \in Tools : u # t => pc'[u] \in {"idle", "dead"}
    BY <2>2 DEF Running
  <2> QED
    BY <2>2, <2>3, <2>4, <2>5 DEF NoCause, Alone, SavedConverged, Restored, Running
<1>4. ASSUME NEW t \in Tools,
             \/ Replace(t) \/ ReplaceFails(t) \/ RefreshLock(t)
             \/ LockFails(t) \/ Reject(t)
      PROVE  NoCause'
  <2>1. /\ cause = {} /\ Running(t) /\ saved' = saved
        /\ pc[t] \in {"replace", "lock", "check"}
        /\ pc'[t] \in {"replace", "lock", "check", "restore"}
        /\ \A u \in Tools \ {t} : pc'[u] = pc[u]
        /\ pc'[t] = "restore" => at'[t] = 0
    BY <1>4 DEF Replace, ReplaceFails, RefreshLock, LockFails, Reject, Abandon,
                history, locals, Running, TypeOK
  <2>2. \A u \in Tools : u # t => pc'[u] \in {"idle", "dead"}
    BY <2>1 DEF NoCause, Alone, Running, TypeOK
  <2>3. SavedConverged(t)' /\ Restored(t)'
    BY <2>1 DEF NoCause, SavedConverged, Restored, Converged, ReleaseVersion
  <2> QED
    BY <2>1, <2>2, <2>3 DEF NoCause, Alone, SavedConverged, Restored, Running
<1>5. ASSUME NEW t \in Tools, Confirm(t) PROVE NoCause'
  <2>1. /\ cause = {} /\ Running(t) /\ Converged(files, lock)'
        /\ \A u \in Tools \ {t} : pc'[u] = pc[u]
        /\ pc'[t] = "idle"
    BY <1>5 DEF Confirm, Ends, tree, Running, Converged, ReleaseVersion, TypeOK
  <2>2. \A u \in Tools : pc'[u] \in {"idle", "dead"}
    BY <2>1 DEF NoCause, Alone, Running, TypeOK
  <2> QED
    BY <2>1, <2>2 DEF NoCause, Alone, SavedConverged, Restored, Running
<1>6. ASSUME NEW t \in Tools, PutBack(t) PROVE NoCause'
  <2>6. at[t] \in 0..L /\ at[t] < L
    BY <1>6 DEF PutBack, TypeOK, L
  <2>7. at[t] \in Nat /\ at[t] + 1 \in 1..L
    BY <1>0, <2>6
  <2>1. /\ cause = {} /\ Running(t) /\ saved' = saved /\ pc' = pc
        /\ at[t] \in Nat /\ at[t] + 1 \in 1..L /\ at'[t] = at[t] + 1
        /\ saved[t] \in Trees
    BY <1>6, <2>7 DEF PutBack, locals, Running, TypeOK
  <2>2. SavedConverged(t)'
    BY <2>1 DEF NoCause, SavedConverged, Converged, ReleaseVersion
  <2>3. Restored(t)'
    <3> SUFFICES ASSUME NEW i \in 1..L, i <= at[t] + 1, pc[t] = "restore"
                 PROVE  files'[Sources[i]].version = saved[t].files[Sources[i]].version
      BY <2>1 DEF Restored, L
    <3> DEFINE next == Sources[at[t] + 1]
    <3>1. Sources[i] \in Files /\ next \in Files
      BY <1>0, <2>1
    <3>2. files' = [files EXCEPT ![next] = saved[t].files[next]]
      BY <1>6 DEF PutBack
    <3>3. CASE Sources[i] = next
      BY <3>1, <3>2, <3>3 DEF TypeOK
    <3>4. CASE Sources[i] # next
      <4>1. i # at[t] + 1
        BY <3>4
      <4>2. i <= at[t]
        BY <2>1, <4>1
      <4>3. files[Sources[i]].version = saved[t].files[Sources[i]].version
        BY <2>1, <4>2 DEF NoCause, Restored, L
      <4> QED
        BY <3>1, <3>2, <3>4, <4>3 DEF TypeOK
    <3> QED
      BY <3>3, <3>4
  <2>4. \A u \in Tools : u # t => pc'[u] \in {"idle", "dead"}
    BY <2>1 DEF NoCause, Alone, Running, TypeOK
  <2>5. pc[t] = "restore"
    BY <1>6 DEF PutBack
  <2> QED
    BY <2>1, <2>2, <2>3, <2>4, <2>5 DEF NoCause, Alone, SavedConverged, Restored, Running
<1>7. ASSUME NEW t \in Tools, PutBackLock(t) PROVE NoCause'
  <2>1. /\ cause = {} /\ Running(t) /\ files' = files /\ lock' = saved[t].lock
        /\ pc[t] = "restore" /\ at[t] = L
        /\ \A u \in Tools \ {t} : pc'[u] = pc[u]
        /\ pc'[t] = "idle"
    BY <1>7 DEF PutBackLock, Ends, Running, TypeOK, L
  <2>2. \A u \in Tools : pc'[u] \in {"idle", "dead"}
    BY <2>1 DEF NoCause, Alone, Running, TypeOK
  <2>3. \A i \in 1..L : files[Sources[i]].version = saved[t].files[Sources[i]].version
    BY <1>0, <2>1 DEF NoCause, Restored, L
  <2>4. \A f \in Files : files[f].version = saved[t].files[f].version
    BY <2>3, SourcesFacts DEF L
  <2>5. Converged(saved[t].files, saved[t].lock)
    BY <2>1 DEF NoCause, SavedConverged
  <2>6. Converged(files, saved[t].lock)
    BY <2>4, <2>5, ConvergedVersions
  <2>7. Converged(files, lock)'
    BY <2>1, <2>6 DEF Converged, ReleaseVersion
  <2> QED
    BY <2>1, <2>2, <2>7 DEF NoCause, Alone, SavedConverged, Restored, Running
<1>8. ASSUME NEW t \in Tools, PutBackFails(t) \/ Die(t) PROVE NoCause'
  BY <1>8 DEF PutBackFails, Die
<1>9. ASSUME NEW f \in Files, EditText(f) PROVE NoCause'
  <2>1. /\ cause = {} /\ pc' = pc /\ at' = at /\ saved' = saved /\ lock' = lock
        /\ \A g \in Files : files'[g].version = files[g].version
    BY <1>9 DEF EditText, locals, TypeOK, Content
  <2>2. Converged(files, lock) => Converged(files', lock')
    BY <2>1, ConvergedVersions
  <2>3. \A u \in Tools : SavedConverged(u)'
    BY <2>1 DEF NoCause, SavedConverged, Converged, ReleaseVersion
  <2>4. \A u \in Tools : Restored(u)'
    BY <1>0, <2>1 DEF NoCause, Restored, L
  <2>5. Converged(files', lock') => Converged(files, lock)'
    BY DEF Converged, ReleaseVersion
  <2> QED
    BY <2>1, <2>2, <2>3, <2>4, <2>5 DEF NoCause, Alone, Running
<1>10. ASSUME NEW f \in Files, NEW v \in Versions, EditVersion(f, v) PROVE NoCause'
  BY <1>10 DEF EditVersion
<1> QED
  BY <1>1, <1>2, <1>3, <1>4, <1>5, <1>6, <1>7, <1>8, <1>9, <1>10 DEF Next

\* Drift with no set underway has a cause: a death, a failed restore, two overlapping
\* sets or a version written by hand, whatever fails and whenever.
THEOREM DriftExplained == Spec => []DriftHasACause
<1>1. NoCause => DriftHasACause
  BY DEF NoCause, DriftHasACause
<1> QED
  BY <1>1, InitTypeOK, StepTypeOK, InitNoCause, StepNoCause, PTL DEF Spec

-----------------------------------------------------------------------------
(* SetIsAllOrNothing.  A set that nobody disturbs knows the whole tree: what   *)
(* it has passed is planned (or restored), what is to come is as it was read.  *)

Undisturbed(t) ==
  LET planned == Planned(read[t].files, target[t])
      Passed(i) == i <= at[t]
  IN
  /\ pc[t] = "planned" => files = read[t].files /\ lock = read[t].lock
  /\ pc[t] \in {"replace", "lock", "check", "restore"} => saved[t] = read[t]
  /\ pc[t] = "replace" =>
       \A i \in 1..Len(Sources) : Passed(i) => files[Sources[i]] = planned[Sources[i]]
  /\ pc[t] \in {"lock", "check"} => files = planned
  /\ pc[t] = "check" => \A p \in Projects : lock[p] = target[t]
  /\ pc[t] = "restore" =>
       \A i \in 1..Len(Sources) : Passed(i) => files[Sources[i]] = read[t].files[Sources[i]]

Private == \A t \in Tools \ touched : Undisturbed(t)

\* A step that writes nothing, or that disturbs every other set, keeps the others' part.
LEMMA OthersUndisturbed ==
  ASSUME TypeOK, Private, NEW t \in Tools,
         \A u \in Tools \ {t} : /\ pc'[u] = pc[u] /\ at'[u] = at[u]
                                /\ target'[u] = target[u] /\ read'[u] = read[u]
                                /\ saved'[u] = saved[u],
         \/ touched \subseteq touched' \cup {t} /\ files' = files /\ lock' = lock
         \/ touched \cup Others(t) \subseteq touched' \cup {t}
  PROVE  \A u \in Tools \ {t} : u \notin touched' => Undisturbed(u)'
<1> SUFFICES ASSUME NEW u \in Tools \ {t}, u \notin touched' PROVE Undisturbed(u)'
  OBVIOUS
<1>1. Undisturbed(u)
  BY DEF Private
<1>2. CASE files' = files /\ lock' = lock
  BY <1>1, <1>2 DEF Undisturbed
<1>3. CASE touched \cup Others(t) \subseteq touched' \cup {t}
  <2>1. pc'[u] \in {"idle", "dead"}
    BY <1>3 DEF Others, Running
  <2> QED
    BY <2>1 DEF Undisturbed
<1> QED
  BY <1>2, <1>3

LEMMA InitPrivate == Init => Private
BY DEF Init, Private, Undisturbed

LEMMA StepPrivate == TypeOK /\ Private /\ [Next]_vars => Private'
<1> SUFFICES ASSUME TypeOK, Private, [Next]_vars PROVE Private'
  OBVIOUS
<1> DEFINE L == Len(Sources)
<1>0. L \in Nat \ {0} /\ \A i \in 1..L : Sources[i] \in Files
  BY SourcesFacts
<1> HIDE DEF L
<1>1. CASE UNCHANGED vars
  BY <1>1 DEF vars, Private, Undisturbed
<1>2. ASSUME NEW t \in Tools,
             \/ \E v \in Versions : Plan(t, v)
             \/ Save(t) \/ ReplaceFails(t) \/ LockFails(t)
             \/ Confirm(t) \/ Reject(t) \/ PutBackFails(t) \/ Die(t)
      PROVE  Private'
  <2>1. \A u \in Tools \ {t} : u \notin touched' => Undisturbed(u)'
    <3>1. \A u \in Tools \ {t} : /\ pc'[u] = pc[u] /\ at'[u] = at[u]
                                 /\ target'[u] = target[u] /\ read'[u] = read[u]
                                 /\ saved'[u] = saved[u]
      BY <1>2 DEF Plan, Save, ReplaceFails, LockFails, Confirm, Reject, PutBackFails,
                  Die, Abandon, Ends, locals, TypeOK
    <3>2. touched \subseteq touched' \cup {t} /\ files' = files /\ lock' = lock
      BY <1>2 DEF Plan, Save, ReplaceFails, LockFails, Confirm, Reject, PutBackFails,
                  Die, tree, history
    <3> QED
      BY <3>1, <3>2, OthersUndisturbed
  <2>2. ASSUME t \notin touched', \E v \in Versions : Plan(t, v)
        PROVE  Undisturbed(t)'
    BY <2>2 DEF Plan, tree, Undisturbed, TypeOK
  <2>3. ASSUME t \notin touched', Save(t) PROVE Undisturbed(t)'
    <3>1. Undisturbed(t) /\ pc[t] = "planned" /\ read[t] \in Trees
      BY <2>3 DEF Save, history, Private, TypeOK, Running
    <3>2. [files |-> files, lock |-> lock] = read[t]
      BY <3>1 DEF Undisturbed, Trees
    <3> QED
      BY <1>0, <2>3, <3>2 DEF Save, Undisturbed, TypeOK, L
  <2>4. ASSUME t \notin touched', ReplaceFails(t) \/ LockFails(t) \/ Reject(t)
        PROVE  Undisturbed(t)'
    <3>1. /\ Undisturbed(t) /\ pc[t] \in {"replace", "lock", "check"}
          /\ pc'[t] = "restore" /\ at'[t] = 0 /\ saved' = saved /\ read' = read
      BY <2>4 DEF ReplaceFails, LockFails, Reject, Abandon, history, locals, Private, TypeOK
    <3> QED
      BY <3>1 DEF Undisturbed
  <2>5. ASSUME Confirm(t) \/ PutBackFails(t) \/ Die(t) PROVE Undisturbed(t)'
    <3>1. pc'[t] \in {"idle", "dead"}
      BY <2>5 DEF Confirm, PutBackFails, Die, Ends, TypeOK
    <3> QED
      BY <3>1 DEF Undisturbed
  <2> QED
    BY <1>2, <2>1, <2>2, <2>3, <2>4, <2>5 DEF Private
<1>3. ASSUME NEW t \in Tools,
             Replace(t) \/ RefreshLock(t) \/ PutBack(t) \/ PutBackLock(t)
      PROVE  \A u \in Tools \ {t} : u \notin touched' => Undisturbed(u)'
  <2>1. \A u \in Tools \ {t} : /\ pc'[u] = pc[u] /\ at'[u] = at[u]
                               /\ target'[u] = target[u] /\ read'[u] = read[u]
                               /\ saved'[u] = saved[u]
    BY <1>3 DEF Replace, RefreshLock, PutBack, PutBackLock, Ends, locals, TypeOK
  <2>2. touched \cup Others(t) \subseteq touched' \cup {t}
    BY <1>3 DEF Replace, RefreshLock, PutBack, PutBackLock
  <2> QED
    BY <2>1, <2>2, OthersUndisturbed
<1>4. ASSUME NEW t \in Tools, Replace(t), t \notin touched' PROVE Undisturbed(t)'
  <2> DEFINE planned == Planned(read[t].files, target[t])
             next == Sources[at[t] + 1]
  <2>1. at[t] \in 0..L /\ at[t] < L
    BY <1>4 DEF Replace, TypeOK, L
  <2>2. at[t] \in Nat /\ at[t] + 1 \in 1..L
    BY <1>0, <2>1
  <2>3. /\ Undisturbed(t) /\ pc[t] = "replace"
        /\ files' = [files EXCEPT ![next] = planned[next]]
        /\ at'[t] = at[t] + 1
        /\ saved' = saved /\ read' = read /\ target' = target
        /\ pc'[t] = IF at[t] + 1 = L THEN "lock" ELSE "replace"
    BY <1>4 DEF Replace, locals, Private, TypeOK, L
  <2>4. \A i \in 1..L : i <= at[t] + 1 => files'[Sources[i]] = planned[Sources[i]]
    <3> SUFFICES ASSUME NEW i \in 1..L, i <= at[t] + 1
                 PROVE  files'[Sources[i]] = planned[Sources[i]]
      OBVIOUS
    <3>1. Sources[i] \in Files /\ next \in Files
      BY <1>0, <2>2
    <3>2. CASE Sources[i] = next
      BY <2>3, <3>1, <3>2 DEF TypeOK
    <3>3. CASE Sources[i] # next
      <4>1. i <= at[t]
        BY <2>2, <3>3
      <4>2. files[Sources[i]] = planned[Sources[i]]
        BY <2>3, <4>1 DEF Undisturbed, L
      <4> QED
        BY <2>3, <3>1, <3>3, <4>2 DEF TypeOK
    <3> QED
      BY <3>2, <3>3
  <2>5. at[t] + 1 = L => files' = planned
    <3> SUFFICES ASSUME at[t] + 1 = L PROVE files' = planned
      OBVIOUS
    <3>1. \A f \in Files : files'[f] = planned[f]
      BY <2>4, SourcesFacts DEF L
    <3>2. files' = [f \in Files |-> files'[f]] /\ planned = [f \in Files |-> planned[f]]
      BY <2>3 DEF TypeOK, Planned
    <3> QED
      BY <3>1, <3>2
  <2>6. saved[t] = read[t]
    BY <2>3 DEF Undisturbed
  <2> HIDE DEF next
  <2> QED
    BY <2>3, <2>4, <2>5, <2>6 DEF Undisturbed, L
<1>5. ASSUME NEW t \in Tools, RefreshLock(t), t \notin touched' PROVE Undisturbed(t)'
  <2>1. /\ Undisturbed(t) /\ pc[t] = "lock" /\ pc'[t] = "check"
        /\ files' = files /\ lock' = [p \in Projects |-> files[p].version]
        /\ saved' = saved /\ read' = read /\ target' = target
    BY <1>5 DEF RefreshLock, locals, Private, TypeOK
  <2>2. files = Planned(read[t].files, target[t])
    BY <2>1 DEF Undisturbed
  <2>3. read[t] \in Trees /\ target[t] \in Versions
    BY <2>1 DEF TypeOK, Running
  <2>4. \A f \in Files : files[f].version = target[t]
    BY <2>2, <2>3, PlannedType DEF Trees
  <2>5. \A p \in Projects : lock'[p] = target[t]
    BY <2>1, <2>4, SourcesFacts
  <2> QED
    BY <2>1, <2>2, <2>5 DEF Undisturbed
<1>6. ASSUME NEW t \in Tools, PutBack(t), t \notin touched' PROVE Undisturbed(t)'
  <2> DEFINE next == Sources[at[t] + 1]
  <2>1. at[t] \in 0..L /\ at[t] < L
    BY <1>6 DEF PutBack, TypeOK, L
  <2>2. at[t] \in Nat /\ at[t] + 1 \in 1..L
    BY <1>0, <2>1
  <2>3. /\ Undisturbed(t) /\ pc[t] = "restore" /\ pc' = pc
        /\ files' = [files EXCEPT ![next] = saved[t].files[next]]
        /\ at'[t] = at[t] + 1
        /\ saved' = saved /\ read' = read /\ target' = target
    BY <1>6 DEF PutBack, locals, Private, TypeOK
  <2>4. saved[t] = read[t]
    BY <2>3 DEF Undisturbed
  <2>5. \A i \in 1..L : i <= at[t] + 1 => files'[Sources[i]] = read[t].files[Sources[i]]
    <3> SUFFICES ASSUME NEW i \in 1..L, i <= at[t] + 1
                 PROVE  files'[Sources[i]] = read[t].files[Sources[i]]
      OBVIOUS
    <3>1. Sources[i] \in Files /\ next \in Files
      BY <1>0, <2>2
    <3>2. CASE Sources[i] = next
      BY <2>3, <2>4, <3>1, <3>2 DEF TypeOK
    <3>3. CASE Sources[i] # next
      <4>1. i <= at[t]
        BY <2>2, <3>3
      <4>2. files[Sources[i]] = read[t].files[Sources[i]]
        BY <2>3, <4>1 DEF Undisturbed, L
      <4> QED
        BY <2>3, <3>1, <3>3, <4>2 DEF TypeOK
    <3> QED
      BY <3>2, <3>3
  <2> HIDE DEF next
  <2> QED
    BY <2>3, <2>4, <2>5 DEF Undisturbed, L
<1>7. ASSUME NEW t \in Tools, PutBackLock(t) PROVE Undisturbed(t)'
  <2>1. pc'[t] = "idle"
    BY <1>7 DEF PutBackLock, Ends, TypeOK
  <2> QED
    BY <2>1 DEF Undisturbed
<1>8. ASSUME NEW t \in Tools,
             Replace(t) \/ RefreshLock(t) \/ PutBack(t) \/ PutBackLock(t)
      PROVE  Private'
  BY <1>3, <1>4, <1>5, <1>6, <1>7, <1>8 DEF Private
<1>9. ASSUME NEW f \in Files, EditText(f) \/ \E v \in Versions : EditVersion(f, v)
      PROVE  Private'
  <2>1. /\ touched' = touched \cup {t \in Tools : Running(t)}
        /\ pc' = pc
    BY <1>9 DEF EditText, EditVersion
  <2>2. \A t \in Tools \ touched' : pc'[t] \in {"idle", "dead"}
    BY <2>1 DEF Running
  <2> QED
    BY <2>2 DEF Private, Undisturbed
<1> QED
  BY <1>1, <1>2, <1>8, <1>9 DEF Next

\* A set nobody disturbed either leaves every source as planned and every lock row at the
\* new version, or puts every source and the lock back as it found them.
THEOREM AllOrNothing == Spec => SetIsAllOrNothing
<1> DEFINE A == \A t \in Tools \ touched :
                 /\ Succeeds(t) => /\ files = Planned(read[t].files, target[t])
                                   /\ \A p \in Projects : lock[p] = target[t]
                 /\ GivesUp(t) => [files |-> files', lock |-> lock'] = read[t]
<1>1. TypeOK /\ Private /\ [Next]_vars => [A]_vars
  <2> SUFFICES ASSUME TypeOK, Private, Next PROVE A
    OBVIOUS
  <2> SUFFICES ASSUME NEW t \in Tools \ touched
               PROVE  /\ Succeeds(t) => /\ files = Planned(read[t].files, target[t])
                                        /\ \A p \in Projects : lock[p] = target[t]
                      /\ GivesUp(t) => [files |-> files', lock |-> lock'] = read[t]
    OBVIOUS
  <2>1. Undisturbed(t)
    BY DEF Private
  <2>2. ASSUME Succeeds(t)
        PROVE  /\ files = Planned(read[t].files, target[t])
               /\ \A p \in Projects : lock[p] = target[t]
    BY <2>1, <2>2 DEF Succeeds, Undisturbed
  <2>3. ASSUME GivesUp(t) PROVE [files |-> files', lock |-> lock'] = read[t]
    <3>1. PutBackLock(t)
      BY <2>3 DEF GivesUp, Next, Plan, Save, Replace, ReplaceFails, RefreshLock, LockFails,
                  Confirm, Reject, PutBack, PutBackLock, PutBackFails, Die, Abandon, Ends,
                  EditText, EditVersion, TypeOK
    <3>2. /\ pc[t] = "restore" /\ at[t] = Len(Sources)
          /\ files' = files /\ lock' = saved[t].lock
          /\ read[t] \in Trees
      BY <3>1 DEF PutBackLock, TypeOK, Running
    <3>3. saved[t] = read[t]
      BY <2>1, <3>2 DEF Undisturbed
    <3>4. \A i \in 1..Len(Sources) : files[Sources[i]] = read[t].files[Sources[i]]
      BY <2>1, <3>2, SourcesFacts DEF Undisturbed
    <3>5. \A f \in Files : files[f] = read[t].files[f]
      BY <3>4, SourcesFacts
    <3>6. files = read[t].files
      BY <3>2, <3>5 DEF TypeOK, Trees
    <3> QED
      BY <3>2, <3>3, <3>6 DEF Trees
  <2> QED
    BY <2>2, <2>3
<1>2. Spec => [][A]_vars
  BY <1>1, InitTypeOK, StepTypeOK, InitPrivate, StepPrivate, PTL DEF Spec
<1> QED
  BY <1>2 DEF SetIsAllOrNothing

-----------------------------------------------------------------------------
(* What the library's recursive operators on sequences do. *)

LEMMA LeastFacts ==
  ASSUME NEW S \in SUBSET Nat, S # {}
  PROVE  \E i \in S : \A k \in S : i <= k
<1> DEFINE Less == OpToRel(<, Nat)
<1>1. IsWellFoundedOn(Less, Nat)
  BY NatLessThanWellFounded
<1>2. \A a, b \in Nat : a < b => <<a, b>> \in Less
  BY DEF OpToRel
<1> HIDE DEF Less
<1>3. PICK i \in S : \A k \in S : ~(<<k, i>> \in Less)
  BY <1>1, WFMin
<1>4. \A k \in S : ~(k < i)
  BY <1>2, <1>3
<1> QED
  BY <1>4

Flattens(F, seqs, m) ==
  F = [i \in 1..m |-> IF i = 1 THEN seqs[i] ELSE F[i - 1] \o seqs[i]]

LEMMA FlatExists ==
  ASSUME NEW seqs, NEW n \in Nat
  PROVE  \E F : Flattens(F, seqs, n)
<1> DEFINE Bad == {m \in Nat : ~\E F : Flattens(F, seqs, m)}
<1>1. SUFFICES ASSUME Bad # {} PROVE FALSE
  OBVIOUS
<1>2. PICK m \in Bad : \A k \in Bad : m <= k
  BY <1>1, LeastFacts
<1>3. m # 0
  <2>1. Flattens([i \in 1..0 |-> seqs[i]], seqs, 0)
    BY DEF Flattens
  <2> QED
    BY <2>1
<1>4. m - 1 \in Nat /\ m - 1 \notin Bad
  BY <1>2, <1>3
<1>5. PICK G : Flattens(G, seqs, m - 1)
  BY <1>4
<1> DEFINE H == [i \in 1..m |-> IF i = 1 THEN seqs[i] ELSE G[i - 1] \o seqs[i]]
<1>6. ASSUME NEW i \in 1..(m - 1) PROVE G[i] = H[i]
  <2>1. i \in 1..m
    BY <1>4
  <2>2. H[i] = IF i = 1 THEN seqs[i] ELSE G[i - 1] \o seqs[i]
    BY <2>1
  <2>3. G[i] = IF i = 1 THEN seqs[i] ELSE G[i - 1] \o seqs[i]
    BY <1>5 DEF Flattens
  <2> QED
    BY <2>2, <2>3
<1>7. Flattens(H, seqs, m)
  <2>1. ASSUME NEW i \in 1..m, i # 1 PROVE G[i - 1] = H[i - 1]
    <3>1. i - 1 \in 1..(m - 1)
      BY <1>4, <2>1
    <3> QED
      BY <1>6, <3>1
  <2> QED
    BY <2>1 DEF Flattens
<1> QED
  BY <1>7

LEMMA FlattenIs ==
  ASSUME NEW S, NEW seqs \in Seq(S), Len(seqs) # 0
  PROVE  \E F : Flattens(F, seqs, Len(seqs)) /\ FlattenSeq(seqs) = F[Len(seqs)]
<1> DEFINE n == Len(seqs)
           F == CHOOSE G : Flattens(G, seqs, n)
<1>1. n \in Nat
  OBVIOUS
<1>2. Flattens(F, seqs, n)
  BY <1>1, FlatExists
<1>3. FlattenSeq(seqs) = F[n]
  BY DEF FlattenSeq, Flattens
<1> QED
  BY <1>2, <1>3

(* All of the elements of all of the sequences, and no others. *)
LEMMA FlattenFacts ==
  ASSUME NEW S, NEW seqs \in Seq(Seq(S))
  PROVE  /\ FlattenSeq(seqs) \in Seq(S)
         /\ Range(FlattenSeq(seqs)) = UNION {Range(seqs[i]) : i \in DOMAIN seqs}
<1> DEFINE n == Len(seqs)
<1>1. n \in Nat /\ DOMAIN seqs = 1..n
  BY LenProperties
<1>2. CASE n = 0
  <2>1. FlattenSeq(seqs) = seqs /\ DOMAIN seqs = {}
    BY <1>1, <1>2 DEF FlattenSeq
  <2>2. seqs = <<>>
    BY <1>2, EmptySeq
  <2>3. <<>> \in Seq(S)
    OBVIOUS
  <2> QED
    BY <2>1, <2>2, <2>3 DEF Range
<1>3. CASE n # 0
  <2>1. PICK F : Flattens(F, seqs, n) /\ FlattenSeq(seqs) = F[n]
    BY <1>3, FlattenIs
  <2> HIDE DEF n
  <2>2. \A i \in 1..n : F[i] = IF i = 1 THEN seqs[i] ELSE F[i - 1] \o seqs[i]
    BY <2>1 DEF Flattens
  <2> DEFINE Good(i) == F[i] \in Seq(S) /\ Range(F[i]) = UNION {Range(seqs[k]) : k \in 1..i}
             Bad == {i \in 1..n : ~Good(i)}
  <2>3. ASSUME Bad # {} PROVE FALSE
    <3>1. Bad \in SUBSET Nat
      BY <1>1
    <3>2. PICK i \in Bad : \A k \in Bad : i <= k
      BY <2>3, <3>1, LeastFacts
    <3> HIDE DEF Bad
    <3>3. i \in 1..n /\ ~Good(i)
      BY DEF Bad
    <3>4. seqs[i] \in Seq(S)
      BY <1>1, <3>3
    <3>5. CASE i = 1
      <4>1. F[i] = seqs[i] /\ 1..1 = {1}
        BY <2>2, <3>3, <3>5
      <4> QED
        BY <3>3, <3>4, <3>5, <4>1
    <3>6. CASE i # 1
      <4>1. i - 1 \in 1..n /\ ~(i <= i - 1)
        BY <1>1, <3>3, <3>6
      <4>2. Good(i - 1)
        BY <3>2, <4>1 DEF Bad
      <4>3. F[i] = F[i - 1] \o seqs[i]
        BY <2>2, <3>3, <3>6
      <4>4. F[i] \in Seq(S)
        BY <3>4, <4>2, <4>3, ConcatProperties
      <4>5. Range(F[i]) = Range(F[i - 1]) \cup Range(seqs[i])
        BY <3>4, <4>2, <4>3, RangeConcatenation
      <4>6. \A k : k \in 1..i <=> k \in 1..(i - 1) \/ k = i
        BY <1>1, <3>3
      <4>7. Range(F[i]) = UNION {Range(seqs[k]) : k \in 1..i}
        BY <4>2, <4>5, <4>6
      <4> QED
        BY <3>3, <4>4, <4>7
    <3> QED
      BY <3>5, <3>6
  <2>4. n \in 1..n /\ Good(n)
    BY <1>1, <1>3, <2>3
  <2> QED
    BY <1>1, <2>1, <2>4
<1> QED
  BY <1>2, <1>3

-----------------------------------------------------------------------------
(* The search for dependency cycles. *)

Steppings(A, nodes, visit, targets, trail, st, m) ==
  A = [i \in 0..m |->
        IF i = 0 THEN st
        ELSE IF targets[i] \in nodes THEN visit[<<targets[i], trail, A[i - 1]>>]
        ELSE A[i - 1]]

LEMMA SteppingExists ==
  ASSUME NEW nodes, NEW visit, NEW targets, NEW trail, NEW st, NEW n \in Nat
  PROVE  \E A : Steppings(A, nodes, visit, targets, trail, st, n)
<1> DEFINE Is(A, m) == Steppings(A, nodes, visit, targets, trail, st, m)
           Bad == {m \in Nat : ~\E A : Is(A, m)}
<1>1. SUFFICES ASSUME Bad # {} PROVE FALSE
  OBVIOUS
<1>2. PICK m \in Bad : \A k \in Bad : m <= k
  BY <1>1, LeastFacts
<1>3. m # 0
  <2>1. 0..0 = {0}
    OBVIOUS
  <2>2. Is([i \in 0..0 |-> st], 0)
    BY <2>1 DEF Steppings
  <2> QED
    BY <2>2
<1>4. m - 1 \in Nat /\ m - 1 \notin Bad
  BY <1>2, <1>3
<1>5. PICK G : Is(G, m - 1)
  BY <1>4
<1> DEFINE Value(A, i) == IF i = 0 THEN st
                          ELSE IF targets[i] \in nodes THEN visit[<<targets[i], trail, A[i - 1]>>]
                          ELSE A[i - 1]
           H == [i \in 0..m |-> Value(G, i)]
<1>6. ASSUME NEW i \in 0..(m - 1) PROVE G[i] = H[i]
  <2>1. i \in 0..m
    BY <1>4
  <2>2. H[i] = Value(G, i)
    BY <2>1
  <2>3. G[i] = Value(G, i)
    BY <1>5 DEF Steppings
  <2> QED
    BY <2>2, <2>3
<1>7. Is(H, m)
  <2>1. ASSUME NEW i \in 0..m PROVE Value(G, i) = Value(H, i)
    <3>1. CASE i = 0
      BY <3>1
    <3>2. CASE i # 0
      <4>1. i - 1 \in 0..(m - 1)
        BY <1>4, <3>2
      <4>2. G[i - 1] = H[i - 1]
        BY <1>6, <4>1
      <4> HIDE DEF H
      <4> QED
        BY <4>2
    <3> QED
      BY <3>1, <3>2
  <2>2. H = [i \in 0..m |-> Value(H, i)]
    <3>1. \A i \in 0..m : Value(G, i) = Value(H, i)
      BY <2>1
    <3> HIDE DEF Value
    <3> QED
      BY <3>1
  <2> HIDE DEF H
  <2> QED
    BY <2>2 DEF Steppings
<1> QED
  BY <1>7

LoopedBy(A, nodes, visit, targets, trail, st) ==
  /\ A[0] = st /\ Loop(nodes, visit, targets, trail, st) = A[Len(targets)]
  /\ \A i \in 1..Len(targets) :
       A[i] = IF targets[i] \in nodes THEN visit[<<targets[i], trail, A[i - 1]>>] ELSE A[i - 1]

LEMMA LoopIs ==
  ASSUME NEW T, NEW nodes, NEW visit, NEW targets \in Seq(T), NEW trail, NEW st
  PROVE  \E A : LoopedBy(A, nodes, visit, targets, trail, st)
<1> DEFINE n == Len(targets)
           A == CHOOSE G : Steppings(G, nodes, visit, targets, trail, st, n)
<1>1. n \in Nat
  OBVIOUS
<1>2. Steppings(A, nodes, visit, targets, trail, st, n)
  BY <1>1, SteppingExists
<1>3. Loop(nodes, visit, targets, trail, st) = A[n]
  BY DEF Loop, Steppings
<1> HIDE DEF A, n
<1>4. \A i \in 0..n : A[i] = IF i = 0 THEN st
        ELSE IF targets[i] \in nodes THEN visit[<<targets[i], trail, A[i - 1]>>] ELSE A[i - 1]
  BY <1>2 DEF Steppings
<1>5. 0 \in 0..n /\ \A i \in 1..n : i \in 0..n /\ i # 0
  BY <1>1
<1>6. A[0] = st
  BY <1>4, <1>5
<1>7. \A i \in 1..n : A[i] = IF targets[i] \in nodes THEN visit[<<targets[i], trail, A[i - 1]>>] ELSE A[i - 1]
  BY <1>4, <1>5
<1> QED
  BY <1>3, <1>6, <1>7 DEF n, LoopedBy

(* What every visit keeps, the loop keeps; and what one visit brings about    *)
(* and every later one keeps, the loop brings about.                          *)
LEMMA LoopKeeps ==
  ASSUME NEW T, NEW nodes, NEW visit, NEW targets \in Seq(T), NEW trail, NEW Good, NEW st \in Good,
         \A d \in nodes, s \in Good : d \in Range(targets) => visit[<<d, trail, s>>] \in Good
  PROVE  Loop(nodes, visit, targets, trail, st) \in Good
<1> DEFINE n == Len(targets)
<1>1. n \in Nat /\ DOMAIN targets = 1..n
  BY LenProperties
<1>0. PICK A : LoopedBy(A, nodes, visit, targets, trail, st)
  BY LoopIs
<1>2. /\ A[0] = st /\ Loop(nodes, visit, targets, trail, st) = A[n]
      /\ \A i \in 1..n :
           A[i] = IF targets[i] \in nodes THEN visit[<<targets[i], trail, A[i - 1]>>] ELSE A[i - 1]
  BY <1>0 DEF LoopedBy
<1> HIDE DEF n
<1> DEFINE Bad == {i \in 0..n : A[i] \notin Good}
<1>3. ASSUME Bad # {} PROVE FALSE
  <2>1. Bad \in SUBSET Nat
    BY <1>1
  <2>2. PICK i \in Bad : \A k \in Bad : i <= k
    BY <1>3, <2>1, LeastFacts
  <2>3. i \in 1..n /\ i - 1 \in 0..n /\ ~(i <= i - 1)
    BY <1>1, <1>2, <2>2
  <2>4. A[i - 1] \in Good
    BY <2>2, <2>3
  <2>5. targets[i] \in Range(targets)
    BY <1>1, <2>3 DEF Range
  <2>6. A[i] \in Good
    BY <1>2, <2>3, <2>4, <2>5
  <2> QED
    BY <2>2, <2>6
<1>4. A[n] \in Good
  BY <1>1, <1>3
<1> QED
  BY <1>2, <1>4

LEMMA LoopHits ==
  ASSUME NEW T, NEW nodes, NEW visit, NEW targets \in Seq(T), NEW trail, NEW Good, NEW st \in Good,
         \A d \in nodes, s \in Good : d \in Range(targets) => visit[<<d, trail, s>>] \in Good,
         NEW Hits \in SUBSET Good,
         \A d \in nodes, s \in Hits : d \in Range(targets) => visit[<<d, trail, s>>] \in Hits,
         NEW e \in nodes, e \in Range(targets), \A s \in Good : visit[<<e, trail, s>>] \in Hits
  PROVE  Loop(nodes, visit, targets, trail, st) \in Hits
<1> DEFINE n == Len(targets)
<1>1. n \in Nat /\ DOMAIN targets = 1..n
  BY LenProperties
<1>0. PICK A : LoopedBy(A, nodes, visit, targets, trail, st)
  BY LoopIs
<1>2. /\ A[0] = st /\ Loop(nodes, visit, targets, trail, st) = A[n]
      /\ \A i \in 1..n :
           A[i] = IF targets[i] \in nodes THEN visit[<<targets[i], trail, A[i - 1]>>] ELSE A[i - 1]
  BY <1>0 DEF LoopedBy
<1> HIDE DEF n
<1>r. \A i \in 1..n : targets[i] \in Range(targets)
  BY <1>1 DEF Range
<1> DEFINE Bad == {i \in 0..n : A[i] \notin Good}
<1>3. ASSUME Bad # {} PROVE FALSE
  <2>1. Bad \in SUBSET Nat
    BY <1>1
  <2>2. PICK i \in Bad : \A k \in Bad : i <= k
    BY <1>3, <2>1, LeastFacts
  <2>3. i \in 1..n /\ i - 1 \in 0..n /\ ~(i <= i - 1)
    BY <1>1, <1>2, <2>2
  <2>4. A[i - 1] \in Good
    BY <2>2, <2>3
  <2>6. A[i] \in Good
    BY <1>2, <1>r, <2>3, <2>4
  <2> QED
    BY <2>2, <2>6
<1>4. \A i \in 0..n : A[i] \in Good
  BY <1>3
<1>5. PICK j \in 1..n : targets[j] = e
  BY <1>1 DEF Range
<1>6. A[j] \in Hits
  <2>1. j - 1 \in 0..n
    BY <1>1
  <2>2. A[j - 1] \in Good
    BY <1>4, <2>1
  <2>3. A[j] = visit[<<e, trail, A[j - 1]>>]
    BY <1>2, <1>5
  <2> QED
    BY <2>2, <2>3
<1> DEFINE Misses == {i \in j..n : A[i] \notin Hits}
<1>7. ASSUME Misses # {} PROVE FALSE
  <2>1. Misses \in SUBSET Nat
    BY <1>1
  <2>2. PICK i \in Misses : \A k \in Misses : i <= k
    BY <1>7, <2>1, LeastFacts
  <2>3. i # j
    BY <1>6, <2>2
  <2>4. i \in 1..n /\ i - 1 \in j..n /\ ~(i <= i - 1)
    BY <1>1, <2>2, <2>3
  <2>5. A[i - 1] \in Hits
    BY <2>2, <2>4
  <2>6. A[i] \in Hits
    BY <1>2, <1>r, <2>4, <2>5
  <2> QED
    BY <2>2, <2>6
<1>8. n \in j..n
  BY <1>1
<1>9. A[n] \in Hits
  BY <1>7, <1>8
<1> QED
  BY <1>2, <1>9

LEMMA LoopAgrees ==
  ASSUME NEW T, NEW nodes, NEW v, NEW w, NEW targets \in Seq(T), NEW trail, NEW Good, NEW st \in Good,
         \A d \in nodes, s \in Good : v[<<d, trail, s>>] \in Good /\ w[<<d, trail, s>>] = v[<<d, trail, s>>]
  PROVE  Loop(nodes, w, targets, trail, st) = Loop(nodes, v, targets, trail, st)
<1> DEFINE n == Len(targets)
<1>1. n \in Nat
  OBVIOUS
<1>0. (\E A : LoopedBy(A, nodes, v, targets, trail, st)) /\ \E B : LoopedBy(B, nodes, w, targets, trail, st)
  BY LoopIs
<1>a. PICK A : LoopedBy(A, nodes, v, targets, trail, st)
  BY <1>0
<1>b. PICK B : LoopedBy(B, nodes, w, targets, trail, st)
  BY <1>0
<1>2. /\ A[0] = st /\ Loop(nodes, v, targets, trail, st) = A[n]
      /\ \A i \in 1..n :
           A[i] = IF targets[i] \in nodes THEN v[<<targets[i], trail, A[i - 1]>>] ELSE A[i - 1]
  BY <1>a DEF LoopedBy
<1>3. /\ B[0] = st /\ Loop(nodes, w, targets, trail, st) = B[n]
      /\ \A i \in 1..n :
           B[i] = IF targets[i] \in nodes THEN w[<<targets[i], trail, B[i - 1]>>] ELSE B[i - 1]
  BY <1>b DEF LoopedBy
<1> HIDE DEF n
<1> DEFINE Bad == {i \in 0..n : A[i] \notin Good \/ B[i] # A[i]}
<1>4. ASSUME Bad # {} PROVE FALSE
  <2>1. Bad \in SUBSET Nat
    BY <1>1
  <2>2. PICK i \in Bad : \A k \in Bad : i <= k
    BY <1>4, <2>1, LeastFacts
  <2>3. i \in 1..n /\ i - 1 \in 0..n /\ ~(i <= i - 1)
    BY <1>1, <1>2, <1>3, <2>2
  <2>4. A[i - 1] \in Good /\ B[i - 1] = A[i - 1]
    BY <2>2, <2>3
  <2>5. /\ A[i] = IF targets[i] \in nodes THEN v[<<targets[i], trail, A[i - 1]>>] ELSE A[i - 1]
        /\ B[i] = IF targets[i] \in nodes THEN w[<<targets[i], trail, A[i - 1]>>] ELSE A[i - 1]
    BY <1>2, <1>3, <2>3, <2>4
  <2>6. CASE targets[i] \in nodes
    BY <2>2, <2>4, <2>5, <2>6
  <2>7. CASE targets[i] \notin nodes
    BY <2>2, <2>4, <2>5, <2>7
  <2> QED
    BY <2>6, <2>7
<1>5. B[n] = A[n]
  BY <1>1, <1>4
<1> QED
  BY <1>2, <1>3, <1>5

(* The calls of visit, and how many nodes are not underway.  Every call from  *)
(* within another has one less left: it is this that the recursion is         *)
(* founded on.                                                                *)
Calls(nodes) == nodes \X Seq(nodes) \X Searches(nodes)
Left(nodes, st) == Cardinality(nodes \ st.active)
CallsBelow(nodes, k) == {call \in Calls(nodes) : Left(nodes, call[3]) < k}
Steady(visit, nodes, D) ==
  \A call \in D : visit[call] \in Searches(nodes) /\ visit[call].active = call[3].active
Body(graph, visit, call) == Visit(graph, visit, call[1], call[2], call[3])
Solves(graph, visit, D) == visit = [call \in D |-> Body(graph, visit, call)]

WellFormed(graph, nodes, T) ==
  /\ IsFiniteSet(nodes) /\ DOMAIN graph = nodes
  /\ \A id \in nodes : graph[id] \in Seq(T)

LEMMA SearchedFacts ==
  ASSUME NEW nodes, NEW a \in SUBSET nodes, NEW v \in SUBSET nodes, NEW c \in Seq(Seq(nodes))
  PROVE  /\ Searched(a, v, c) \in Searches(nodes)
         /\ Searched(a, v, c).active = a /\ Searched(a, v, c).visited = v /\ Searched(a, v, c).cycles = c
BY DEF Searched, Searches

LEMMA SearchFields ==
  ASSUME NEW nodes, NEW st \in Searches(nodes)
  PROVE  st.active \in SUBSET nodes /\ st.visited \in SUBSET nodes /\ st.cycles \in Seq(Seq(nodes))
BY DEF Searches

LEMMA CallFacts ==
  ASSUME NEW nodes, NEW call \in Calls(nodes)
  PROVE  call[1] \in nodes /\ call[2] \in Seq(nodes) /\ call[3] \in Searches(nodes)
BY DEF Calls

LEMMA LeftFacts ==
  ASSUME NEW nodes, IsFiniteSet(nodes), NEW st \in Searches(nodes)
  PROVE  /\ Left(nodes, st) \in Nat /\ Left(nodes, st) <= Cardinality(nodes) /\ Cardinality(nodes) \in Nat
         /\ \A node \in nodes \ st.active, s \in Searches(nodes) :
              s.active = st.active \cup {node} => Left(nodes, s) = Left(nodes, st) - 1
<1>1. Left(nodes, st) \in Nat /\ Left(nodes, st) <= Cardinality(nodes) /\ Cardinality(nodes) \in Nat
  <2>1. nodes \ st.active \subseteq nodes
    OBVIOUS
  <2>2. IsFiniteSet(nodes \ st.active)
    BY <2>1, FS_Subset
  <2> QED
    BY <2>1, <2>2, FS_Subset, FS_CardinalityType DEF Left
<1>2. ASSUME NEW node \in nodes \ st.active, NEW s \in Searches(nodes), s.active = st.active \cup {node}
      PROVE  Left(nodes, s) = Left(nodes, st) - 1
  <2>1. nodes \ s.active = (nodes \ st.active) \ {node}
    BY <1>2
  <2>2. IsFiniteSet(nodes \ st.active)
    BY FS_Subset
  <2>3. Cardinality((nodes \ st.active) \ {node}) = Cardinality(nodes \ st.active) - 1
    BY <2>2, FS_RemoveElement
  <2> QED
    BY <2>1, <2>3 DEF Left
<1> QED
  BY <1>1, <1>2

LEMMA BodyFacts ==
  ASSUME NEW T, NEW graph, NEW nodes, WellFormed(graph, nodes, T),
         NEW v, NEW w, NEW k \in Nat, NEW call \in CallsBelow(nodes, k + 1),
         Steady(v, nodes, CallsBelow(nodes, k)), \A c \in CallsBelow(nodes, k) : w[c] = v[c]
  PROVE  /\ Body(graph, w, call) = Body(graph, v, call)
         /\ Body(graph, v, call) \in Searches(nodes)
         /\ Body(graph, v, call).active = call[3].active
<1> DEFINE node == call[1]
           trail == call[2]
           st == call[3]
<1>1. node \in nodes /\ trail \in Seq(nodes) /\ st \in Searches(nodes) /\ Left(nodes, st) < k + 1
  BY CallFacts DEF CallsBelow
<1>2. st.active \in SUBSET nodes /\ st.visited \in SUBSET nodes /\ st.cycles \in Seq(Seq(nodes))
  BY <1>1, SearchFields
<1>3. IsFiniteSet(nodes) /\ DOMAIN graph = nodes /\ graph[node] \in Seq(T)
  BY <1>1 DEF WellFormed
<1>4. Append(trail, node) \in Seq(nodes)
  BY <1>1
<1> DEFINE more == Append(trail, node)
           entered == Searched(st.active \cup {node}, st.visited, st.cycles)
           inside(u) == Loop(nodes, u, graph[node], more, entered)
<1>5. \A u : Body(graph, u, call) =
        IF node \in st.active THEN Searched(st.active, st.visited, Append(st.cycles, more))
        ELSE IF node \in st.visited THEN st
        ELSE Searched(inside(u).active \ {node}, inside(u).visited \cup {node}, inside(u).cycles)
  BY <1>3 DEF Body, Visit
<1> HIDE DEF node, trail, st
<1>6. CASE node \in st.active
  <2> DEFINE a == st.active
             b == st.visited
             c == Append(st.cycles, more)
  <2>1. a \in SUBSET nodes /\ b \in SUBSET nodes /\ c \in Seq(Seq(nodes)) /\ a = st.active
    BY <1>2, <1>4
  <2>2. \A u : Body(graph, u, call) = Searched(a, b, c)
    BY <1>5, <1>6
  <2> HIDE DEF a, b, c
  <2>3. Searched(a, b, c) \in Searches(nodes) /\ Searched(a, b, c).active = a
    BY <2>1, SearchedFacts
  <2> QED
    BY <2>1, <2>2, <2>3 DEF st
<1>7. CASE node \notin st.active /\ node \in st.visited
  BY <1>1, <1>5, <1>7 DEF st
<1>8. CASE node \notin st.active /\ node \notin st.visited
  <2> DEFINE Good == {s \in Searches(nodes) : s.active = st.active \cup {node}}
  <2>1. entered \in Good
    <3> DEFINE a == st.active \cup {node}
               b == st.visited
               c == st.cycles
    <3>1. a \in SUBSET nodes /\ b \in SUBSET nodes /\ c \in Seq(Seq(nodes))
      BY <1>1, <1>2
    <3> HIDE DEF a, b, c
    <3>2. Searched(a, b, c) \in Searches(nodes) /\ Searched(a, b, c).active = a
      BY <3>1, SearchedFacts
    <3> QED
      BY <3>2 DEF a, b, c
  <2>2. ASSUME NEW d \in nodes, NEW s \in Good
        PROVE  v[<<d, more, s>>] \in Good /\ w[<<d, more, s>>] = v[<<d, more, s>>]
    <3>1. Left(nodes, s) = Left(nodes, st) - 1 /\ Left(nodes, st) \in Nat
      BY <1>1, <1>3, <1>8, LeftFacts
    <3>2. Left(nodes, s) < k
      BY <1>1, <3>1
    <3>3. <<d, more, s>> \in Calls(nodes)
      BY <1>4 DEF Calls
    <3>4. <<d, more, s>> \in CallsBelow(nodes, k)
      BY <3>2, <3>3 DEF CallsBelow
    <3>5. v[<<d, more, s>>] \in Searches(nodes) /\ v[<<d, more, s>>].active = s.active
      BY <3>4 DEF Steady
    <3> QED
      BY <3>4, <3>5
  <2> HIDE DEF Good, more, entered
  <2>3. inside(w) = inside(v)
    BY <1>3, <2>1, <2>2, LoopAgrees
  <2>4. inside(v) \in Good
    BY <1>3, <2>1, <2>2, LoopKeeps
  <2> HIDE DEF inside
  <2>5. inside(v) \in Searches(nodes) /\ inside(v).active = st.active \cup {node}
    BY <2>4 DEF Good
  <2>6. /\ inside(v).active \ {node} \in SUBSET nodes /\ inside(v).active \ {node} = st.active
        /\ inside(v).visited \cup {node} \in SUBSET nodes /\ inside(v).cycles \in Seq(Seq(nodes))
    BY <1>1, <1>2, <1>8, <2>5, SearchFields
  <2>7. Body(graph, v, call) = Searched(inside(v).active \ {node}, inside(v).visited \cup {node}, inside(v).cycles)
    BY <1>5, <1>8
  <2>8. Body(graph, w, call) = Searched(inside(v).active \ {node}, inside(v).visited \cup {node}, inside(v).cycles)
    BY <1>5, <1>8, <2>3
  <2> DEFINE a == inside(v).active \ {node}
             b == inside(v).visited \cup {node}
             c == inside(v).cycles
  <2>9. a \in SUBSET nodes /\ b \in SUBSET nodes /\ c \in Seq(Seq(nodes)) /\ a = st.active
    BY <2>6
  <2>10. Body(graph, v, call) = Searched(a, b, c) /\ Body(graph, w, call) = Searched(a, b, c)
    BY <2>7, <2>8
  <2> HIDE DEF a, b, c
  <2>11. Searched(a, b, c) \in Searches(nodes) /\ Searched(a, b, c).active = a
    BY <2>9, SearchedFacts
  <2> QED
    BY <2>9, <2>10, <2>11 DEF st
<1> QED
  BY <1>6, <1>7, <1>8

LEMMA VisitsExist ==
  ASSUME NEW T, NEW graph, NEW nodes, WellFormed(graph, nodes, T), NEW k \in Nat
  PROVE  \E v : Solves(graph, v, CallsBelow(nodes, k)) /\ Steady(v, nodes, CallsBelow(nodes, k))
<1> DEFINE Is(v, m) == Solves(graph, v, CallsBelow(nodes, m)) /\ Steady(v, nodes, CallsBelow(nodes, m))
           Bad == {m \in Nat : ~\E v : Is(v, m)}
<1>1. SUFFICES ASSUME Bad # {} PROVE FALSE
  OBVIOUS
<1>2. PICK m \in Bad : \A i \in Bad : m <= i
  BY <1>1, LeastFacts
<1>3. IsFiniteSet(nodes)
  BY DEF WellFormed
<1>4. m # 0
  <2>1. CallsBelow(nodes, 0) = {}
    <3>1. ASSUME NEW call \in Calls(nodes) PROVE ~(Left(nodes, call[3]) < 0)
      BY <1>3, CallFacts, LeftFacts
    <3> QED
      BY <3>1 DEF CallsBelow
  <2>2. Is([call \in {} |-> call], 0)
    BY <2>1 DEF Solves, Steady
  <2> QED
    BY <2>2
<1> DEFINE j == m - 1
           D == CallsBelow(nodes, j)
           E == CallsBelow(nodes, m)
<1>5. j \in Nat /\ j \notin Bad /\ m = j + 1
  BY <1>2, <1>4
<1>6. PICK v : Is(v, j)
  BY <1>5
<1>7. Solves(graph, v, D) /\ Steady(v, nodes, D) /\ E = CallsBelow(nodes, j + 1)
  BY <1>5, <1>6
<1> DEFINE w == [call \in E |-> Body(graph, v, call)]
<1>8. ASSUME NEW c \in D PROVE w[c] = v[c]
  <2>1. c \in E
    <3>1. c \in Calls(nodes) /\ Left(nodes, c[3]) < j
      BY DEF CallsBelow
    <3>2. Left(nodes, c[3]) \in Nat
      BY <1>3, <3>1, CallFacts, LeftFacts
    <3>3. Left(nodes, c[3]) < m
      BY <1>5, <3>1, <3>2
    <3> QED
      BY <3>1, <3>3 DEF CallsBelow
  <2>2. w[c] = Body(graph, v, c)
    BY <2>1
  <2>3. v[c] = Body(graph, v, c)
    BY <1>7 DEF Solves
  <2> QED
    BY <2>2, <2>3
<1> HIDE DEF D, j
<1>9. ASSUME NEW call \in E
      PROVE  /\ w[call] = Body(graph, v, call) /\ Body(graph, w, call) = Body(graph, v, call)
             /\ w[call] \in Searches(nodes) /\ w[call].active = call[3].active
  <2>1. w[call] = Body(graph, v, call)
    OBVIOUS
  <2> HIDE DEF w
  <2>2. /\ Body(graph, w, call) = Body(graph, v, call)
        /\ Body(graph, v, call) \in Searches(nodes)
        /\ Body(graph, v, call).active = call[3].active
    BY <1>5, <1>7, <1>8, BodyFacts DEF D
  <2> QED
    BY <2>1, <2>2
<1>10. Solves(graph, w, E)
  <2>1. w = [call \in E |-> Body(graph, v, call)]
    OBVIOUS
  <2> HIDE DEF w
  <2>2. [call \in E |-> Body(graph, v, call)] = [call \in E |-> Body(graph, w, call)]
    BY <1>9
  <2> QED
    BY <2>1, <2>2 DEF Solves
<1>11. Steady(w, nodes, E)
  <2> HIDE DEF w
  <2> QED
    BY <1>9 DEF Steady
<1>12. Is(w, m)
  BY <1>10, <1>11
<1> QED
  BY <1>2, <1>12

(* Visits is what visit's equation says it is, for every graph.               *)
LEMMA VisitsFacts ==
  ASSUME NEW T, NEW graph, NEW nodes, WellFormed(graph, nodes, T), NEW call \in Calls(nodes)
  PROVE  /\ Visits(graph)[call] = Body(graph, Visits(graph), call)
         /\ Visits(graph)[call] \in Searches(nodes) /\ Visits(graph)[call].active = call[3].active
<1> DEFINE n == Cardinality(nodes)
           F == Visits(graph)
<1>1. IsFiniteSet(nodes) /\ nodes = DOMAIN graph
  BY DEF WellFormed
<1>2. \A c \in Calls(nodes) : Left(nodes, c[3]) \in Nat /\ Left(nodes, c[3]) <= n /\ n \in Nat
  BY <1>1, CallFacts, LeftFacts
<1>3. n + 1 \in Nat
  BY <1>2
<1>4. CallsBelow(nodes, n + 1) = Calls(nodes)
  <2>1. \A c \in Calls(nodes) : Left(nodes, c[3]) < n + 1
    BY <1>2
  <2> HIDE DEF n
  <2> QED
    BY <2>1 DEF CallsBelow
<1> HIDE DEF n
<1>5. \E v : Solves(graph, v, CallsBelow(nodes, n + 1))
  BY <1>3, VisitsExist
<1>6. \E v : Solves(graph, v, Calls(nodes))
  BY <1>4, <1>5
<1>7. \E v : v = [c \in Calls(nodes) |-> Visit(graph, v, c[1], c[2], c[3])]
  BY <1>6 DEF Solves, Body
<1>8. F = [c \in Calls(nodes) |-> Visit(graph, F, c[1], c[2], c[3])]
  BY <1>1, <1>7 DEF Visits, Calls
<1> HIDE DEF F
<1>9. Solves(graph, F, Calls(nodes)) /\ \A c \in Calls(nodes) : F[c] = Body(graph, F, c)
  BY <1>8 DEF Solves, Body
<1> DEFINE Ok(c) == F[c] \in Searches(nodes) /\ F[c].active = c[3].active
           Bad == {k \in Nat : \E c \in Calls(nodes) : Left(nodes, c[3]) = k /\ ~Ok(c)}
<1>10. ASSUME Bad # {} PROVE FALSE
  <2>1. PICK k \in Bad : \A i \in Bad : k <= i
    BY <1>10, LeastFacts
  <2>2. PICK c \in Calls(nodes) : Left(nodes, c[3]) = k /\ ~Ok(c)
    BY <2>1
  <2>3. ASSUME NEW d \in CallsBelow(nodes, k) PROVE Ok(d)
    <3>1. d \in Calls(nodes) /\ Left(nodes, d[3]) < k
      BY DEF CallsBelow
    <3>2. Left(nodes, d[3]) \in Nat
      BY <1>2, <3>1
    <3>3. Left(nodes, d[3]) \notin Bad
      <4> DEFINE l == Left(nodes, d[3])
      <4>1. l \in Nat /\ l < k /\ k \in Nat
        BY <3>1, <3>2
      <4> HIDE DEF l, Bad
      <4>2. l \notin Bad
        BY <2>1, <4>1
      <4> QED
        BY <4>2 DEF l
    <3> HIDE DEF Ok
    <3> QED
      BY <3>1, <3>2, <3>3
  <2>4. Steady(F, nodes, CallsBelow(nodes, k))
    BY <2>3 DEF Steady
  <2>5. c \in CallsBelow(nodes, k + 1)
    <3>1. Left(nodes, c[3]) < k + 1
      BY <2>2
    <3> QED
      BY <3>1 DEF CallsBelow
  <2>6. Body(graph, F, c) \in Searches(nodes) /\ Body(graph, F, c).active = c[3].active
    BY <2>4, <2>5, BodyFacts
  <2>7. F[c] = Body(graph, F, c)
    BY <1>9
  <2> QED
    BY <2>2, <2>6, <2>7
<1>11. Ok(call)
  <2>1. Left(nodes, call[3]) \notin Bad
    BY <1>10
  <2> HIDE DEF Ok
  <2> QED
    BY <1>2, <2>1
<1> QED
  BY <1>9, <1>11 DEF F

(* A circle: every node of it has an edge into it.  Until a cycle has been    *)
(* found no search leaves a node of the circle behind as visited, and the     *)
(* visit of one, however it was reached, finds a cycle.                       *)
Clear(nodes, S, a) == {s \in Searches(nodes) : s.active = a /\ (s.cycles # <<>> \/ s.visited \cap S = {})}
Found(nodes, a) == {s \in Searches(nodes) : s.active = a /\ s.cycles # <<>>}
Finds(F, nodes, S, call) ==
  /\ call[3] \in Clear(nodes, S, call[3].active) => F[call] \in Clear(nodes, S, call[3].active)
  /\ call[3] \in Found(nodes, call[3].active) => F[call] \in Found(nodes, call[3].active)
  /\ call[3] \in Clear(nodes, S, call[3].active) /\ call[1] \in S => F[call] \in Found(nodes, call[3].active)

Circle(graph, S) == \A id \in S : \E d \in Range(graph[id]) : d \in S
DeeperFind(graph, nodes, S, call) ==
  \A c \in Calls(nodes) : Left(nodes, c[3]) < Left(nodes, call[3]) => Finds(Visits(graph), nodes, S, c)

LEMMA EnteredFacts ==
  ASSUME NEW nodes, NEW st \in Searches(nodes), NEW a \in SUBSET nodes,
         NEW entered, entered = Searched(a, st.visited, st.cycles)
  PROVE  /\ entered \in Searches(nodes) /\ entered.active = a
         /\ entered.visited = st.visited /\ entered.cycles = st.cycles
<1> DEFINE b == st.visited
           c == st.cycles
<1>1. b \in SUBSET nodes /\ c \in Seq(Seq(nodes))
  BY SearchFields
<1> HIDE DEF b, c
<1>2. /\ Searched(a, b, c) \in Searches(nodes) /\ Searched(a, b, c).active = a
      /\ Searched(a, b, c).visited = b /\ Searched(a, b, c).cycles = c
  BY <1>1, SearchedFacts
<1> QED
  BY <1>2 DEF b, c

LEMMA VisitFinds ==
  ASSUME NEW T, NEW graph, NEW nodes, WellFormed(graph, nodes, T), NEW S \in SUBSET nodes,
         Circle(graph, S),
         NEW call \in Calls(nodes),
         DeeperFind(graph, nodes, S, call)
  PROVE  Finds(Visits(graph), nodes, S, call)
<1> DEFINE node == call[1]
           trail == call[2]
           st == call[3]
           F == Visits(graph)
           X == F[call]
<1>1. node \in nodes /\ trail \in Seq(nodes) /\ st \in Searches(nodes)
  BY CallFacts
<1>2. st.active \in SUBSET nodes /\ st.visited \in SUBSET nodes /\ st.cycles \in Seq(Seq(nodes))
  BY <1>1, SearchFields
<1>3. IsFiniteSet(nodes) /\ DOMAIN graph = nodes /\ graph[node] \in Seq(T)
  BY <1>1 DEF WellFormed
<1> DEFINE more == Append(trail, node)
           a == st.active \cup {node}
           entered == Searched(a, st.visited, st.cycles)
           inside == Loop(nodes, F, graph[node], more, entered)
<1>4. more \in Seq(nodes)
  BY <1>1
<1>5. F[call] = Body(graph, F, call) /\ F[call] \in Searches(nodes) /\ F[call].active = st.active
  BY VisitsFacts
<1>6. F[call] =
        IF node \in st.active THEN Searched(st.active, st.visited, Append(st.cycles, more))
        ELSE IF node \in st.visited THEN st
        ELSE Searched(inside.active \ {node}, inside.visited \cup {node}, inside.cycles)
  BY <1>3, <1>5 DEF Body, Visit
<1>0. SUFFICES /\ st \in Clear(nodes, S, st.active) => X.cycles # <<>> \/ X.visited \cap S = {}
               /\ st \in Found(nodes, st.active) => X.cycles # <<>>
               /\ st \in Clear(nodes, S, st.active) /\ node \in S => X.cycles # <<>>
  <2>1. X \in Searches(nodes) /\ X.active = st.active
    BY <1>5
  <2> HIDE DEF st, node
  <2> QED
    BY <1>0, <2>1 DEF Finds, Clear, Found, st, node
<1> HIDE DEF node, trail, st
<1>7. CASE node \in st.active
  <2> DEFINE c == Append(st.cycles, more)
  <2>1. c \in Seq(Seq(nodes)) /\ c # <<>>
    <3> HIDE DEF more
    <3> QED
      BY <1>2, <1>4, AppendProperties
  <2>2. X = Searched(st.active, st.visited, c)
    BY <1>6, <1>7
  <2> HIDE DEF c, X
  <2>3. X.cycles = c
    BY <2>2 DEF Searched
  <2> QED
    BY <2>1, <2>3
<1>8. CASE node \notin st.active /\ node \in st.visited
  <2>1. X = st
    BY <1>6, <1>8
  <2> QED
    BY <1>8, <2>1 DEF Clear, Found
<1>9. CASE node \notin st.active /\ node \notin st.visited
  <2> DEFINE Good == Clear(nodes, S, a)
             Hits == Found(nodes, a)
  <2>1. a \in SUBSET nodes
    BY <1>1, <1>2
  <2>2. entered \in Searches(nodes) /\ entered.active = a /\ entered.visited = st.visited /\ entered.cycles = st.cycles
    <3>1. entered = Searched(a, st.visited, st.cycles)
      OBVIOUS
    <3> HIDE DEF a, entered
    <3>2. st \in Searches(nodes) /\ a \in SUBSET nodes
      BY <1>1, <2>1
    <3> QED
      BY <3>1, <3>2, EnteredFacts
  <2> HIDE DEF entered, more, X, F
  <2>3. ASSUME NEW d \in nodes, NEW s \in Searches(nodes), s.active = a
        PROVE  Finds(F, nodes, S, <<d, more, s>>)
    <3>1. <<d, more, s>> \in Calls(nodes)
      BY <1>4 DEF Calls
    <3>2. Left(nodes, s) = Left(nodes, st) - 1 /\ Left(nodes, st) \in Nat
      BY <1>1, <1>3, <1>9, <2>3, LeftFacts
    <3>3. Left(nodes, s) < Left(nodes, st)
      BY <3>2
    <3> QED
      BY <3>1, <3>3 DEF F, st, DeeperFind
  <2>4. ASSUME NEW d \in nodes, NEW s \in Good
        PROVE  F[<<d, more, s>>] \in Good /\ (d \in S => F[<<d, more, s>>] \in Hits)
    <3>1. s \in Searches(nodes) /\ s.active = a
      BY DEF Clear
    <3>2. Finds(F, nodes, S, <<d, more, s>>)
      BY <2>3, <3>1
    <3> QED
      BY <3>1, <3>2 DEF Finds
  <2>5. ASSUME NEW d \in nodes, NEW s \in Hits
        PROVE  F[<<d, more, s>>] \in Hits
    <3>1. s \in Searches(nodes) /\ s.active = a
      BY DEF Found
    <3>2. Finds(F, nodes, S, <<d, more, s>>)
      BY <2>3, <3>1
    <3> QED
      BY <3>1, <3>2 DEF Finds
  <2>6. Hits \in SUBSET Good
    BY DEF Clear, Found
  <2>7. st \in Clear(nodes, S, st.active) => entered \in Good
    BY <2>2 DEF Clear
  <2>8. st \in Found(nodes, st.active) => entered \in Hits
    BY <2>2 DEF Found
  <2>9. ASSUME st \in Clear(nodes, S, st.active) \/ st \in Found(nodes, st.active)
        PROVE  inside \in Good
    <3>1. entered \in Good
      BY <2>6, <2>7, <2>8, <2>9
    <3> HIDE DEF Good
    <3> QED
      BY <1>3, <2>4, <3>1, LoopKeeps
  <2>10. ASSUME st \in Found(nodes, st.active) PROVE inside \in Hits
    <3>1. entered \in Hits
      BY <2>8, <2>10
    <3> HIDE DEF Hits
    <3> QED
      BY <1>3, <2>5, <3>1, LoopKeeps
  <2>11. ASSUME st \in Clear(nodes, S, st.active), node \in S PROVE inside \in Hits
    <3>1. entered \in Good
      BY <2>7, <2>11
    <3>2. PICK e \in Range(graph[node]) : e \in S
      BY <2>11 DEF Circle
    <3>3. e \in nodes
      BY <3>2
    <3> HIDE DEF Good, Hits
    <3> QED
      BY <1>3, <2>4, <2>5, <2>6, <3>1, <3>2, <3>3, LoopHits
  <2>12. X.cycles = inside.cycles /\ X.visited = inside.visited \cup {node}
    BY <1>6, <1>9 DEF X, Searched
  <2> HIDE DEF inside, a
  <2>13. st \in Found(nodes, st.active) => X.cycles # <<>>
    BY <2>10, <2>12 DEF Found
  <2>14. st \in Clear(nodes, S, st.active) /\ node \in S => X.cycles # <<>>
    BY <2>11, <2>12 DEF Found
  <2>15. st \in Clear(nodes, S, st.active) /\ node \notin S => X.cycles # <<>> \/ X.visited \cap S = {}
    BY <2>9, <2>12 DEF Clear
  <2> QED
    BY <2>13, <2>14, <2>15
<1> QED
  BY <1>7, <1>8, <1>9

(* _cycles finds one in every graph that has a circle.                        *)
LEMMA CirclesAreFound ==
  ASSUME NEW T, NEW graph, NEW nodes, WellFormed(graph, nodes, T), NEW S \in SUBSET nodes,
         Circle(graph, S),
         NEW order \in Seq(nodes), NEW root \in S, root \in Range(order)
  PROVE  Cycles(graph, order) # <<>> /\ Cycles(graph, order) \in Seq(Seq(nodes))
<1> DEFINE F == Visits(graph)
           Good == Clear(nodes, S, {})
           Hits == Found(nodes, {})
           st == Searched({}, {}, <<>>)
           Bad == {k \in Nat : \E c \in Calls(nodes) : Left(nodes, c[3]) = k /\ ~Finds(F, nodes, S, c)}
<1>1. IsFiniteSet(nodes) /\ DOMAIN graph = nodes
  BY DEF WellFormed
<1>2. ASSUME NEW c \in Calls(nodes) PROVE Left(nodes, c[3]) \in Nat
  BY <1>1, CallFacts, LeftFacts
<1>3. ASSUME Bad # {} PROVE FALSE
  <2>1. PICK k \in Bad : \A i \in Bad : k <= i
    BY <1>3, LeastFacts
  <2>2. PICK call \in Calls(nodes) : Left(nodes, call[3]) = k /\ ~Finds(F, nodes, S, call)
    BY <2>1
  <2>3. ASSUME NEW c \in Calls(nodes), Left(nodes, c[3]) < Left(nodes, call[3])
        PROVE  Finds(F, nodes, S, c)
    <3> DEFINE l == Left(nodes, c[3])
    <3>1. l \in Nat /\ l < k /\ k \in Nat
      BY <1>2, <2>1, <2>2, <2>3
    <3> HIDE DEF l, Bad
    <3>2. l \notin Bad
      BY <2>1, <3>1
    <3> QED
      BY <3>1, <3>2 DEF Bad, l
  <2>4. Finds(F, nodes, S, call)
    BY <2>3, VisitFinds DEF DeeperFind
  <2> QED
    BY <2>2, <2>4
<1>4. ASSUME NEW c \in Calls(nodes) PROVE Finds(F, nodes, S, c)
  BY <1>2, <1>3
<1> HIDE DEF F
<1>5. st \in Good
  <2>1. {} \in SUBSET nodes /\ <<>> \in Seq(Seq(nodes))
    OBVIOUS
  <2>2. st \in Searches(nodes) /\ st.active = {} /\ st.visited = {}
    BY <2>1 DEF Searches, Searched
  <2> HIDE DEF st
  <2> QED
    BY <2>2 DEF Clear
<1> HIDE DEF st
<1>6. Hits \in SUBSET Good
  BY DEF Clear, Found
<1>7. ASSUME NEW d \in nodes, NEW s \in Good
      PROVE  F[<<d, <<>>, s>>] \in Good /\ (s \in Hits \/ d \in S => F[<<d, <<>>, s>>] \in Hits)
  <2>1. s \in Searches(nodes) /\ s.active = {}
    BY DEF Clear
  <2>2. <<>> \in Seq(nodes)
    OBVIOUS
  <2>3. <<d, <<>>, s>> \in Calls(nodes)
    BY <2>1, <2>2 DEF Calls
  <2>4. Finds(F, nodes, S, <<d, <<>>, s>>)
    BY <1>4, <2>3
  <2> QED
    BY <2>1, <2>4 DEF Finds
<1> HIDE DEF Good, Hits
<1>8. Loop(nodes, F, order, <<>>, st) \in Hits
  <2>1. \A d \in nodes, s \in Hits : F[<<d, <<>>, s>>] \in Hits
    BY <1>6, <1>7
  <2>2. root \in nodes
    OBVIOUS
  <2> QED
    BY <1>5, <1>6, <1>7, <2>1, <2>2, LoopHits
<1>9. Cycles(graph, order) = Loop(nodes, F, order, <<>>, st).cycles
  BY <1>1 DEF Cycles, F, st
<1> QED
  BY <1>8, <1>9, SearchFields DEF Hits, Found

-----------------------------------------------------------------------------
(* The catalogues. *)

\* What SaysAssumption gives of one catalogue.
Listed(cat) ==
  /\ cat.caps \in Seq(Caps(cat))
  /\ \A cap \in Caps(cat) : /\ cap.requires \in Seq(Range(cap.requires))
                            /\ cap.commands \in Seq(Range(cap.commands))

LEMMA AllListed == ASSUME NEW c \in Commits PROVE Listed(Says[c].cat)
BY SaysAssumption DEF Listed, Caps

LEMMA GreatestFacts ==
  ASSUME NEW n \in Nat, NEW I \in SUBSET (1..n), I # {}
  PROVE  Max(I) \in I
<1> DEFINE S == {n - i : i \in I}
<1>1. S \in SUBSET Nat /\ S # {}
  <2>1. \A i \in I : n - i \in Nat
    OBVIOUS
  <2> QED
    BY <2>1
<1>2. PICK k \in S : \A l \in S : k <= l
  BY <1>1, LeastFacts
<1>3. PICK m \in I : k = n - m
  BY <1>2
<1>4. \A i \in I : m >= i
  <2>1. ASSUME NEW i \in I PROVE m >= i
    <3>1. n - i \in S
      OBVIOUS
    <3>2. n - m <= n - i
      BY <1>2, <1>3, <3>1
    <3>3. i \in Nat /\ m \in Nat
      OBVIOUS
    <3> QED
      BY <3>2, <3>3
  <2> QED
    BY <2>1
<1> QED
  BY <1>3, <1>4 DEF Max

LEMMA ByIdFacts ==
  ASSUME NEW cat, Listed(cat), NEW id \in Ids(cat)
  PROVE  ById(cat, id) \in Caps(cat)
<1> DEFINE caps == cat.caps
           n == Len(caps)
           I == {i \in 1..n : caps[i].id = id}
<1>1. n \in Nat /\ DOMAIN caps = 1..n
  BY LenProperties DEF Listed
<1>2. I # {}
  BY <1>1 DEF Ids, Caps, Range
<1>3. I \in SUBSET (1..n)
  OBVIOUS
<1>4. SelectLastInSeq(caps, LAMBDA c : c.id = id) = Max(I)
  BY <1>2 DEF SelectLastInSeq
<1> HIDE DEF I
<1>5. Max(I) \in 1..n
  <2> HIDE DEF n
  <2>1. Max(I) \in I
    BY <1>1, <1>2, <1>3, GreatestFacts
  <2> QED
    BY <1>3, <2>1
<1>6. ById(cat, id) = caps[Max(I)]
  BY <1>4 DEF ById
<1> QED
  BY <1>1, <1>5, <1>6 DEF Caps, Range

\* A catalogue whose capabilities depend on one another in a circle is never valid.
LEMMA CirclesAreInvalid ==
  ASSUME NEW cat, Listed(cat), Circular(cat)
  PROVE  Validate(cat) # {}
<1> DEFINE nodes == Ids(cat)
           graph == [id \in Ids(cat) |-> ById(cat, id).requires]
           order == [i \in DOMAIN cat.caps |-> cat.caps[i].id]
           T == UNION {Range(c.requires) : c \in Caps(cat)}
           n == Len(cat.caps)
<1>1. n \in Nat /\ DOMAIN cat.caps = 1..n
  BY LenProperties DEF Listed
<1>2. PICK S \in SUBSET nodes :
        S # {} /\ \A id \in S : \E d \in Range(ById(cat, id).requires) : d \in S
  BY DEF Circular
<1>3. order \in Seq(nodes) /\ Len(order) = n
  <2>1. order \in [1..n -> nodes]
    BY <1>1 DEF Ids, Caps, Range
  <2> HIDE DEF order, nodes, n
  <2> QED
    BY <1>1, <2>1, SeqDef, LenProperties
<1>4. Range(order) = nodes
  BY <1>1 DEF Ids, Caps, Range
<1>5. IsFiniteSet(nodes)
  <2>1. ASSUME NEW id \in nodes PROVE \E i \in 1..Len(order) : order[i] = id
    <3>1. \E i \in DOMAIN order : order[i] = id
      BY <1>4 DEF Range
    <3>2. DOMAIN order = 1..Len(order)
      BY <1>1, <1>3
    <3> HIDE DEF order
    <3> QED
      BY <3>1, <3>2
  <2> HIDE DEF order, nodes
  <2> QED
    BY <1>3, <2>1 DEF IsFiniteSet
<1>6. WellFormed(graph, nodes, T)
  <2>1. DOMAIN graph = nodes
    OBVIOUS
  <2>2. ASSUME NEW id \in nodes PROVE graph[id] \in Seq(T)
    <3>1. PICK cap \in Caps(cat) : cap = ById(cat, id)
      BY ByIdFacts
    <3>2. graph[id] = cap.requires /\ Range(cap.requires) \subseteq T
      BY <3>1
    <3> DEFINE s == cap.requires
               R == Range(s)
    <3>3. s \in Seq(R)
      BY DEF Listed
    <3> HIDE DEF s, R, T
    <3>4. s \in Seq(T)
      BY <3>2, <3>3 DEF R, s
    <3> QED
      BY <3>2, <3>4 DEF s
  <2> QED
    BY <1>5, <2>1, <2>2 DEF WellFormed
<1>7. Circle(graph, S)
  BY <1>2 DEF Circle
<1>8. PICK root \in S : root \in Range(order)
  BY <1>2, <1>4
<1> HIDE DEF nodes, graph, order, T, n
<1>9. Cycles(graph, order) # <<>> /\ Cycles(graph, order) \in Seq(Seq(nodes))
  BY <1>2, <1>3, <1>6, <1>7, <1>8, CirclesAreFound
<1> DEFINE cycles == Cycles(graph, order)
<1>10. 1 \in DOMAIN cycles
  <2> HIDE DEF cycles
  <2>1. Len(cycles) \in Nat /\ DOMAIN cycles = 1..Len(cycles) /\ Len(cycles) # 0
    BY <1>9, LenProperties, EmptySeq DEF cycles
  <2> QED
    BY <2>1
<1>11. cycles[1] \in Range(cycles)
  BY <1>10 DEF Range
<1> DEFINE diagnostic == <<"dependencies", cycles[1]>>
<1>12. diagnostic \in DependencyDiagnostics(cat)
  BY <1>11 DEF DependencyDiagnostics, graph, order
<1>13. diagnostic \in Validate(cat) \/ Validate(cat) = {<<"catalogue", "empty">>}
  <2> HIDE DEF diagnostic
  <2> QED
    BY <1>12 DEF Validate
<1> QED
  BY <1>13

-----------------------------------------------------------------------------
(* The steps of `just ops workflow ci`. *)

StepsIn(cat) == {<<"distribution", "wheel">>}
                \cup UNION {{<<cap.id, k.name>> : k \in Range(cap.commands)} : cap \in Caps(cat)}

LEMMA StepsFacts ==
  ASSUME NEW cat, Listed(cat), NEW lane
  PROVE  /\ Steps(cat, lane) \in Seq(StepsIn(cat))
         /\ \A cap \in Caps(cat) : \A k \in Range(cap.commands) :
              k.aggregate = lane => <<cap.id, k.name>> \in Range(Steps(cat, lane))
<1> DEFINE P == StepsIn(cat)
           Of(cap) == [j \in DOMAIN cap.commands |->
             IF cap.commands[j].aggregate = lane THEN <<<<cap.id, cap.commands[j].name>>>> ELSE <<>>]
           All == [i \in DOMAIN cat.caps |-> FlattenSeq(Of(cat.caps[i]))]
<1>1. Len(cat.caps) \in Nat /\ DOMAIN cat.caps = 1..Len(cat.caps)
  BY LenProperties DEF Listed
<1>2. ASSUME NEW cap \in Caps(cat) PROVE Of(cap) \in Seq(Seq(P))
  <2> DEFINE n == Len(cap.commands)
  <2>1. n \in Nat /\ DOMAIN cap.commands = 1..n
    BY LenProperties DEF Listed
  <2>2. ASSUME NEW j \in 1..n PROVE Of(cap)[j] \in Seq(P)
    <3> DEFINE step == <<cap.id, cap.commands[j].name>>
    <3>0. cap.commands[j] \in Range(cap.commands)
      BY <2>1 DEF Range
    <3>1. step \in P
      BY <3>0 DEF StepsIn
    <3>2. Of(cap)[j] = IF cap.commands[j].aggregate = lane THEN <<step>> ELSE <<>>
      BY <2>1
    <3> HIDE DEF step, P
    <3>3. <<step>> \in Seq(P) /\ <<>> \in Seq(P)
      BY <3>1
    <3> QED
      BY <3>2, <3>3
  <2>3. Of(cap) = [j \in 1..n |-> Of(cap)[j]]
    BY <2>1
  <2> HIDE DEF n, Of, P
  <2>4. Of(cap) \in [1..n -> Seq(P)]
    BY <2>2, <2>3
  <2> QED
    BY <2>1, <2>4, SeqDef
<1>3. ASSUME NEW cap \in Caps(cat)
      PROVE  /\ FlattenSeq(Of(cap)) \in Seq(P)
             /\ \A k \in Range(cap.commands) :
                  k.aggregate = lane => <<cap.id, k.name>> \in Range(FlattenSeq(Of(cap)))
  <2>1. /\ FlattenSeq(Of(cap)) \in Seq(P)
        /\ Range(FlattenSeq(Of(cap))) = UNION {Range(Of(cap)[j]) : j \in DOMAIN Of(cap)}
    <3> HIDE DEF Of, P
    <3> QED
      BY <1>2, FlattenFacts
  <2>2. ASSUME NEW k \in Range(cap.commands), k.aggregate = lane
        PROVE  \E j \in DOMAIN Of(cap) : Of(cap)[j] = <<<<cap.id, k.name>>>>
    BY <2>2 DEF Range
  <2>3. ASSUME NEW x PROVE x \in Range(<<x>>)
    BY DEF Range
  <2> HIDE DEF Of, P
  <2> QED
    BY <2>1, <2>2, <2>3
<1>4. All \in Seq(Seq(P))
  <2> DEFINE n == Len(cat.caps)
  <2>1. \A i \in 1..n : cat.caps[i] \in Caps(cat)
    BY <1>1 DEF Caps, Range
  <2> HIDE DEF Of, P
  <2>2. \A i \in 1..n : FlattenSeq(Of(cat.caps[i])) \in Seq(P)
    BY <1>3, <2>1
  <2>3. n \in Nat /\ All = [i \in 1..n |-> FlattenSeq(Of(cat.caps[i]))]
    BY <1>1
  <2> HIDE DEF All, n
  <2>4. All \in [1..n -> Seq(P)]
    BY <2>2, <2>3
  <2> QED
    BY <2>3, <2>4, SeqDef
<1>5. Steps(cat, lane) = FlattenSeq(All)
  BY DEF Steps
<1>6. FlattenSeq(All) \in Seq(P) /\ Range(FlattenSeq(All)) = UNION {Range(All[i]) : i \in DOMAIN All}
  <2> HIDE DEF All, P
  <2> QED
    BY <1>4, FlattenFacts
<1>7. ASSUME NEW cap \in Caps(cat) PROVE \E i \in DOMAIN All : All[i] = FlattenSeq(Of(cap))
  <2> HIDE DEF Of
  <2> QED
    BY DEF Caps, Range
<1> HIDE DEF All, Of, P
<1> QED
  BY <1>3, <1>5, <1>6, <1>7 DEF P

LEMMA ProofsFacts ==
  ASSUME NEW cat, Listed(cat)
  PROVE  /\ Proofs(cat) \in Seq(Range(Proofs(cat))) /\ Proofs(cat) # <<>>
         /\ <<"distribution", "wheel">> \in Range(Proofs(cat))
         /\ \A cap \in Caps(cat) : \A k \in Range(cap.commands) :
              k.aggregate \in {"check", "test"} => <<cap.id, k.name>> \in Range(Proofs(cat))
<1> DEFINE P == StepsIn(cat)
           check == Steps(cat, "check")
           test == Steps(cat, "test")
           wheel == <<<<"distribution", "wheel">>>>
<1>1. check \in Seq(P) /\ test \in Seq(P)
  BY StepsFacts
<1>2. wheel \in Seq(P) /\ <<"distribution", "wheel">> \in Range(wheel)
  <2> DEFINE step == <<"distribution", "wheel">>
  <2>1. step \in P
    BY DEF StepsIn
  <2>2. wheel = <<step>>
    OBVIOUS
  <2> HIDE DEF step, P, wheel
  <2>3. wheel \in Seq(P) /\ step \in Range(wheel)
    BY <2>1, <2>2 DEF Range
  <2> QED
    BY <2>3 DEF step
<1> HIDE DEF P, check, test, wheel
<1>3. check \o test \in Seq(P) /\ Range(check \o test) = Range(check) \cup Range(test)
  BY <1>1, ConcatProperties, RangeConcatenation
<1> DEFINE lanes == check \o test
<1> HIDE DEF lanes
<1>4. lanes \o wheel \in Seq(P) /\ Range(lanes \o wheel) = Range(lanes) \cup Range(wheel)
  <2>1. lanes \in Seq(P)
    BY <1>3 DEF lanes
  <2>2. lanes \o wheel \in Seq(P)
    BY <1>2, <2>1, ConcatProperties
  <2> QED
    BY <1>2, <2>1, <2>2, RangeConcatenation
<1>5. Proofs(cat) = lanes \o wheel
  BY DEF Proofs, lanes, check, test, wheel
<1>6. Proofs(cat) \in Seq(P) /\ Range(Proofs(cat)) = Range(check) \cup Range(test) \cup Range(wheel)
  BY <1>3, <1>4, <1>5 DEF lanes
<1>7. Proofs(cat) \in Seq(Range(Proofs(cat)))
  BY <1>6, SeqOfRange
<1>8. Proofs(cat) # <<>>
  <2>1. Range(<<>>) = {}
    BY DEF Range
  <2> QED
    BY <1>2, <1>6, <2>1
<1>9. ASSUME NEW cap \in Caps(cat), NEW k \in Range(cap.commands), k.aggregate \in {"check", "test"}
      PROVE  <<cap.id, k.name>> \in Range(Proofs(cat))
  <2>1. CASE k.aggregate = "check"
    BY <1>6, <2>1, StepsFacts DEF check
  <2>2. CASE k.aggregate = "test"
    BY <1>6, <2>2, StepsFacts DEF test
  <2> QED
    BY <1>9, <2>1, <2>2
<1> QED
  BY <1>2, <1>6, <1>7, <1>8, <1>9

-----------------------------------------------------------------------------
(* The inductive invariant of the release.                                    *)

RunPhases == Active \cup {"queued", "done", "failed", "cancelled"}
Objects == [commit : Commits, annotated : BOOLEAN, push : Nat]
StepNames == UNION {Range(Proofs(Says[c].cat)) : c \in Commits}
Locals == [TagNames -> Objects \cup {Nothing}]
Run == [tag : TagNames, sha : Commits, pc : RunPhases, head : Commits,
        local : Locals, todo : Seq(StepNames)]
Bundle == [exists : BOOLEAN, wheels : Commits \cup {Nothing}, sums : Commits \cup {Nothing}]

Twin(c, tags) == \E u \in TagNames : VersionOf[u] = Says[c].version /\ <<u, c>> \in tags
Sound(c) == Says[c].converged /\ Validate(Says[c].cat) = {}
Proven(c) == Sound(c) /\ \A step \in Range(Proofs(Says[c].cat)) : step \notin Says[c].broken
\* What has not been run yet may fail; what has been run does not.
Outstanding(c, todo) ==
  \A step \in Range(Proofs(Says[c].cat)) : step \in Says[c].broken => step \in Range(todo)

\* A run past the verification has the tag that let it pass; one half way through its
\* proofs has still to run every one that fails; one past them has run them all.
RunOk(run, tags) ==
  /\ run.pc # "ci" => run.todo = <<>>
  /\ run.pc \in {"ci", "package", "create", "wheels", "sums"} => Twin(run.head, tags)
  /\ run.pc = "ci" /\ run.todo # <<>> => Sound(run.head) /\ Outstanding(run.head, run.todo)
  /\ run.pc \in {"package", "create", "wheels", "sums"} => Proven(run.head)

BundleOk(bundle, tags) ==
  /\ bundle.wheels # Nothing => Twin(bundle.wheels, tags) /\ Proven(bundle.wheels)
  /\ bundle.sums # Nothing => Proven(bundle.sums)

TagsOk(objects, tags) ==
  \A t \in TagNames :
    objects[t] # Nothing /\ objects[t].annotated => <<t, objects[t].commit>> \in tags

ReleaseInv ==
  /\ remote \in Locals
  /\ TagsOk(remote, pushed)
  /\ runs \in Seq(Run)
  /\ \A r \in DOMAIN runs : RunOk(runs[r], pushed)
  /\ release \in [TagNames -> Bundle]
  /\ \A t \in TagNames : BundleOk(release[t], pushed)

LEMMA RunEdits ==
  ASSUME NEW run \in Run, NEW p \in RunPhases
  PROVE  /\ [run EXCEPT !.pc = p] \in Run /\ [run EXCEPT !.pc = p].pc = p
         /\ [run EXCEPT !.pc = p].head = run.head /\ [run EXCEPT !.pc = p].todo = run.todo
BY DEF Run

LEMMA RunIs ==
  ASSUME ReleaseInv, NEW r \in DOMAIN runs
  PROVE  /\ runs[r] \in Run /\ RunOk(runs[r], pushed)
         /\ runs[r].tag \in TagNames /\ runs[r].sha \in Commits /\ runs[r].head \in Commits
         /\ runs[r].local \in Locals /\ runs[r].todo \in Seq(StepNames)
<1>1. runs[r] \in Run
  <2>1. DOMAIN runs = 1..Len(runs)
    BY LenProperties DEF ReleaseInv
  <2> QED
    BY <2>1 DEF ReleaseInv
<1> QED
  BY <1>1 DEF ReleaseInv, Run

LEMMA OneRun ==
  ASSUME ReleaseInv, NEW r \in DOMAIN runs, NEW new \in Run, RunOk(new, pushed),
         runs' = [runs EXCEPT ![r] = new], remote' = remote, pushed' = pushed,
         release' \in [TagNames -> Bundle], \A t \in TagNames : BundleOk(release'[t], pushed)
  PROVE  ReleaseInv'
<1>1. runs \in Seq(Run) /\ \A q \in DOMAIN runs : RunOk(runs[q], pushed)
  BY DEF ReleaseInv
<1>2. runs' \in Seq(Run)
  BY <1>1, ExceptSeq
<1>3. DOMAIN runs' = DOMAIN runs /\ \A q \in DOMAIN runs : runs'[q] = IF q = r THEN new ELSE runs[q]
  OBVIOUS
<1>4. \A q \in DOMAIN runs' : RunOk(runs'[q], pushed)
  BY <1>1, <1>3
<1> QED
  BY <1>2, <1>4 DEF ReleaseInv

LEMMA SupersededFacts ==
  ASSUME NEW tags, NEW rs \in Seq(Run), \A q \in DOMAIN rs : RunOk(rs[q], tags), NEW t
  PROVE  /\ Superseded(rs, t) \in Seq(Run) /\ DOMAIN Superseded(rs, t) = DOMAIN rs
         /\ \A q \in DOMAIN rs : RunOk(Superseded(rs, t)[q], tags)
         /\ \A q \in DOMAIN rs : rs[q].pc = "failed" => Superseded(rs, t)[q] = rs[q]
<1> DEFINE n == Len(rs)
           New == Superseded(rs, t)
<1>1. n \in Nat /\ DOMAIN rs = 1..n /\ \A q \in 1..n : rs[q] \in Run
  BY LenProperties
<1>2. DOMAIN New = 1..n /\ \A q \in 1..n :
        New[q] = IF rs[q].tag = t /\ rs[q].pc = "queued" THEN [rs[q] EXCEPT !.pc = "cancelled"] ELSE rs[q]
  BY <1>1 DEF Superseded
<1>3. New = [q \in 1..n |-> New[q]]
  BY <1>1 DEF Superseded
<1> HIDE DEF n, New
<1>4. ASSUME NEW q \in 1..n PROVE New[q] \in Run /\ RunOk(New[q], tags)
  <2>1. rs[q] \in Run /\ RunOk(rs[q], tags)
    BY <1>1
  <2>2. CASE rs[q].tag = t /\ rs[q].pc = "queued"
    <3> DEFINE run == rs[q]
               new == [run EXCEPT !.pc = "cancelled"]
    <3>1. New[q] = new
      BY <1>2, <2>2
    <3>2. new \in Run /\ new.pc = "cancelled" /\ new.todo = run.todo
      BY <2>1, RunEdits DEF RunPhases
    <3>3. run.todo = <<>>
      BY <2>1, <2>2 DEF RunOk
    <3> HIDE DEF new, run
    <3> QED
      BY <3>1, <3>2, <3>3 DEF RunOk
  <2>3. CASE ~(rs[q].tag = t /\ rs[q].pc = "queued")
    <3>1. New[q] = rs[q]
      BY <1>2, <2>3
    <3> QED
      BY <2>1, <3>1
  <2> QED
    BY <2>2, <2>3
<1>5. New \in Seq(Run)
  <2>1. New \in [1..n -> Run]
    BY <1>3, <1>4
  <2> QED
    BY <1>1, <2>1, SeqDef DEF n
<1> QED
  BY <1>1, <1>2, <1>4, <1>5 DEF New

LEMMA TwinsStay ==
  ASSUME NEW tags, NEW more, tags \subseteq more
  PROVE  /\ \A run : RunOk(run, tags) => RunOk(run, more)
         /\ \A bundle : BundleOk(bundle, tags) => BundleOk(bundle, more)
<1>1. \A c : Twin(c, tags) => Twin(c, more)
  BY DEF Twin
<1> QED
  BY <1>1 DEF RunOk, BundleOk

LEMMA InitReleaseInv == ReleaseInit => ReleaseInv
<1> SUFFICES ASSUME ReleaseInit PROVE ReleaseInv
  OBVIOUS
<1>1. remote \in Locals /\ TagsOk(remote, pushed)
  BY DEF ReleaseInit, Locals, TagsOk
<1>2. runs \in Seq(Run) /\ DOMAIN runs = {}
  BY DEF ReleaseInit
<1>3. release \in [TagNames -> Bundle] /\ \A t \in TagNames : BundleOk(release[t], pushed)
  BY DEF ReleaseInit, NoRelease, Bundle, BundleOk
<1> QED
  BY <1>1, <1>2, <1>3 DEF ReleaseInv

LEMMA PushKeeps ==
  ASSUME ReleaseInv, NEW t \in TagNames, NEW c \in Commits, NEW annotated \in BOOLEAN,
         Push(t, c, annotated)
  PROVE  ReleaseInv'
<1> DEFINE object == TagObject(c, annotated, Len(runs) + 1)
           new == [tag |-> t, sha |-> c, pc |-> "queued", head |-> c,
                   local |-> [u \in TagNames |-> Nothing], todo |-> <<>>]
           kept == Superseded(runs, t)
<1>1. runs \in Seq(Run) /\ \A r \in DOMAIN runs : RunOk(runs[r], pushed)
  BY DEF ReleaseInv
<1>2. /\ remote' = [remote EXCEPT ![t] = object] /\ runs' = Append(kept, new)
      /\ pushed' = (IF annotated THEN pushed \cup {<<t, c>>} ELSE pushed) /\ release' = release
  BY DEF Push
<1>3. pushed \subseteq pushed'
  BY <1>2
<1>4. object \in Objects /\ object.commit = c /\ object.annotated = annotated
  <2>1. Len(runs) + 1 \in Nat
    BY <1>1, LenProperties
  <2> DEFINE push == Len(runs) + 1
  <2> HIDE DEF push
  <2> QED
    BY <2>1 DEF TagObject, Objects, push
<1>5. new \in Run /\ RunOk(new, pushed')
  <2>1. [u \in TagNames |-> Nothing] \in Locals /\ <<>> \in Seq(StepNames)
    BY DEF Locals
  <2> QED
    BY <2>1 DEF Run, RunOk, RunPhases
<1>6. kept \in Seq(Run) /\ \A q \in DOMAIN kept : RunOk(kept[q], pushed)
  BY <1>1, SupersededFacts
<1> HIDE DEF new, kept, object
<1>7. /\ runs' \in Seq(Run) /\ Len(kept) \in Nat /\ DOMAIN kept = 1..Len(kept)
      /\ Len(runs') = Len(kept) + 1 /\ DOMAIN runs' = 1..Len(runs')
      /\ \A q \in 1..Len(kept) : runs'[q] = kept[q]
      /\ runs'[Len(kept) + 1] = new
  <2>1. Append(kept, new) \in Seq(Run) /\ Len(Append(kept, new)) = Len(kept) + 1
        /\ (\A q \in 1..Len(kept) : Append(kept, new)[q] = kept[q]) /\ Append(kept, new)[Len(kept) + 1] = new
    BY <1>5, <1>6, AppendProperties
  <2> QED
    BY <1>2, <1>6, <2>1, LenProperties
<1>8. ASSUME NEW q \in DOMAIN runs' PROVE RunOk(runs'[q], pushed')
  <2> DEFINE n == Len(kept)
  <2>1. q \in 1..(n + 1) /\ n \in Nat
    BY <1>7
  <2> HIDE DEF n
  <2>2. q \in 1..n \/ q = n + 1
    BY <2>1
  <2>3. CASE q \in 1..n
    <3>1. runs'[q] = kept[q] /\ RunOk(kept[q], pushed)
      BY <1>6, <1>7, <2>3 DEF n
    <3> QED
      BY <1>3, <3>1, TwinsStay
  <2>4. CASE q = n + 1
    BY <1>5, <1>7, <2>4 DEF n
  <2> QED
    BY <2>2, <2>3, <2>4
<1>9. remote' \in Locals
  BY <1>2, <1>4 DEF ReleaseInv, Locals
<1>10. ASSUME NEW u \in TagNames, remote'[u] # Nothing, remote'[u].annotated
       PROVE  <<u, remote'[u].commit>> \in pushed'
  <2>1. CASE u = t
    <3>1. remote'[u] = object
      BY <1>2, <2>1 DEF ReleaseInv, Locals
    <3> QED
      BY <1>2, <1>4, <1>10, <2>1, <3>1
  <2>2. CASE u # t
    <3>1. remote'[u] = remote[u]
      BY <1>2, <2>2 DEF ReleaseInv, Locals
    <3>2. <<u, remote[u].commit>> \in pushed
      BY <1>10, <3>1 DEF ReleaseInv, TagsOk
    <3> QED
      BY <1>3, <3>1, <3>2
  <2> QED
    BY <2>1, <2>2
<1>11. \A u \in TagNames : BundleOk(release'[u], pushed')
  <2>1. \A u \in TagNames : BundleOk(release[u], pushed)
    BY DEF ReleaseInv
  <2> QED
    BY <1>2, <1>3, <2>1, TwinsStay
<1> QED
  BY <1>2, <1>7, <1>8, <1>9, <1>10, <1>11 DEF ReleaseInv, TagsOk

LEMMA DeleteKeeps ==
  ASSUME ReleaseInv, NEW t \in TagNames, Delete(t)
  PROVE  ReleaseInv'
<1>1. remote' \in Locals
  BY DEF Delete, ReleaseInv, Locals
<1>2. \A u \in TagNames : remote'[u] # Nothing => remote'[u] = remote[u]
  BY DEF Delete, ReleaseInv, Locals
<1>3. TagsOk(remote', pushed)
  BY <1>2 DEF ReleaseInv, TagsOk
<1> QED
  BY <1>1, <1>3 DEF Delete, ReleaseInv

LEMMA RerunKeeps ==
  ASSUME ReleaseInv, NEW r \in DOMAIN runs, Rerun(r)
  PROVE  ReleaseInv'
<1> DEFINE t == runs[r].tag
           kept == Superseded(runs, t)
           run == kept[r]
           new == [run EXCEPT !.pc = "queued"]
<1>1. runs \in Seq(Run) /\ \A q \in DOMAIN runs : RunOk(runs[q], pushed)
  BY DEF ReleaseInv
<1>2. runs' = [kept EXCEPT ![r] = new] /\ runs[r].pc = "failed"
  BY DEF Rerun, RunAt
<1> HIDE DEF t
<1>3. /\ kept \in Seq(Run) /\ DOMAIN kept = DOMAIN runs
      /\ \A q \in DOMAIN runs : RunOk(kept[q], pushed)
      /\ kept[r] = runs[r]
  BY <1>1, <1>2, SupersededFacts
<1>4. run \in Run /\ run.todo = <<>>
  BY <1>2, <1>3, RunIs DEF RunOk
<1>5. new \in Run /\ new.pc = "queued" /\ new.todo = <<>>
  <2> HIDE DEF run
  <2> QED
    BY <1>4, RunEdits DEF RunPhases
<1> HIDE DEF new, run, kept
<1>6. RunOk(new, pushed)
  BY <1>5 DEF RunOk
<1>7. runs' \in Seq(Run)
  BY <1>2, <1>3, <1>5, ExceptSeq
<1>8. \A q \in DOMAIN runs' : RunOk(runs'[q], pushed)
  BY <1>2, <1>3, <1>6
<1> QED
  BY <1>7, <1>8 DEF Rerun, ReleaseInv

\* A step of a run that only changes its phase.
LEMMA AdvanceKeeps ==
  ASSUME ReleaseInv, NEW r \in DOMAIN runs, NEW p \in RunPhases, Advance(r, p),
         p # "ci" => runs[r].todo = <<>>,
         p \in {"ci", "package", "create", "wheels", "sums"} => Twin(runs[r].head, pushed),
         p = "ci" => runs[r].todo = <<>>,
         p \in {"package", "create", "wheels", "sums"} => Proven(runs[r].head),
         remote' = remote, pushed' = pushed,
         release' \in [TagNames -> Bundle], \A t \in TagNames : BundleOk(release'[t], pushed)
  PROVE  ReleaseInv'
<1> DEFINE run == runs[r]
           new == [run EXCEPT !.pc = p]
<1>1. runs' = [runs EXCEPT ![r] = new]
  BY DEF Advance
<1>2. run \in Run
  BY RunIs
<1>3. new \in Run /\ new.pc = p /\ new.head = run.head /\ new.todo = run.todo
  <2> HIDE DEF run
  <2> QED
    BY <1>2, RunEdits
<1> HIDE DEF new
<1>4. RunOk(new, pushed)
  BY <1>3 DEF RunOk
<1> QED
  BY <1>1, <1>3, <1>4, OneRun

LEMMA BundlesKept ==
  ASSUME ReleaseInv, release' = release
  PROVE  release' \in [TagNames -> Bundle] /\ \A t \in TagNames : BundleOk(release'[t], pushed)
BY DEF ReleaseInv

LEMMA BundlesChange ==
  ASSUME ReleaseInv, NEW t \in TagNames, NEW new \in Bundle, BundleOk(new, pushed),
         release' = [release EXCEPT ![t] = new]
  PROVE  release' \in [TagNames -> Bundle] /\ \A u \in TagNames : BundleOk(release'[u], pushed)
<1>1. release \in [TagNames -> Bundle] /\ \A u \in TagNames : BundleOk(release[u], pushed)
  BY DEF ReleaseInv
<1>2. \A u \in TagNames : release'[u] = IF u = t THEN new ELSE release[u]
  BY <1>1
<1>3. release' \in [TagNames -> Bundle]
  BY <1>1
<1> QED
  BY <1>1, <1>2, <1>3

LEMMA StartKeeps ==
  ASSUME ReleaseInv, NEW r \in DOMAIN runs, Start(r)
  PROVE  ReleaseInv'
<1>1. /\ runs[r].pc = "queued" /\ Advance(r, "checkout")
      /\ remote' = remote /\ pushed' = pushed /\ release' = release
  BY DEF Start, RunAt
<1>2. runs[r].todo = <<>>
  BY <1>1, RunIs DEF RunOk
<1>3. "checkout" \in RunPhases
  BY DEF RunPhases, Active
<1> QED
  BY <1>1, <1>2, <1>3, BundlesKept, AdvanceKeeps

LEMMA CheckoutKeeps ==
  ASSUME ReleaseInv, NEW r \in DOMAIN runs, Checkout(r)
  PROVE  ReleaseInv'
<1> DEFINE run == runs[r]
<1>1. PICK c \in {run.sha} \cup {o.commit : o \in {remote[run.tag]} \ {Nothing}} :
        runs' = [runs EXCEPT ![r].pc = "fetch", ![r].head = c, ![r].local = remote]
  BY DEF Checkout
<1>2. /\ runs[r].pc = "checkout"
      /\ remote' = remote /\ pushed' = pushed /\ release' = release
  BY DEF Checkout, RunAt
<1>3. run \in Run /\ run.todo = <<>> /\ run.tag \in TagNames /\ run.sha \in Commits
  BY <1>2, RunIs DEF RunOk
<1>4. c \in Commits
  <2>1. remote[run.tag] \in Objects \cup {Nothing}
    BY <1>3 DEF ReleaseInv, Locals
  <2>2. \A o \in Objects : o.commit \in Commits
    BY DEF Objects
  <2> QED
    BY <1>1, <1>3, <2>1, <2>2
<1> DEFINE new == [run EXCEPT !.pc = "fetch", !.head = c, !.local = remote]
<1>5. runs' = [runs EXCEPT ![r] = new]
  BY <1>1
<1>6. new \in Run /\ new.pc = "fetch" /\ new.todo = run.todo
  <2>1. remote \in Locals
    BY DEF ReleaseInv
  <2> HIDE DEF run
  <2> QED
    BY <1>3, <1>4, <2>1 DEF Run, RunPhases, Active
<1> HIDE DEF new, run
<1>7. RunOk(new, pushed)
  BY <1>3, <1>6 DEF RunOk
<1> QED
  BY <1>2, <1>5, <1>6, <1>7, BundlesKept, OneRun

LEMMA FetchTagKeeps ==
  ASSUME ReleaseInv, NEW r \in DOMAIN runs, FetchTag(r)
  PROVE  ReleaseInv'
<1> DEFINE run == runs[r]
           t == run.tag
           new == [run EXCEPT !.pc = "verify", !.local[t] = remote[t]]
<1>1. /\ runs[r].pc = "fetch" /\ runs' = [runs EXCEPT ![r].pc = "verify", ![r].local[t] = remote[t]]
      /\ remote' = remote /\ pushed' = pushed /\ release' = release
  BY DEF FetchTag, RunAt
<1>2. run \in Run /\ run.todo = <<>> /\ t \in TagNames /\ run.local \in Locals
  BY <1>1, RunIs DEF RunOk
<1>3. runs' = [runs EXCEPT ![r] = new]
  BY <1>1
<1> HIDE DEF run
<1> DEFINE local == [run.local EXCEPT ![t] = remote[t]]
<1>4. local \in Locals
  BY <1>2 DEF ReleaseInv, Locals
<1>5. new = [run EXCEPT !.pc = "verify", !.local = local]
  OBVIOUS
<1> HIDE DEF new, local
<1>6. new \in Run /\ new.pc = "verify" /\ new.todo = run.todo
  BY <1>2, <1>4, <1>5 DEF Run, RunPhases, Active
<1>7. RunOk(new, pushed)
  BY <1>2, <1>6 DEF RunOk
<1> QED
  BY <1>1, <1>3, <1>6, <1>7, BundlesKept, OneRun DEF run

\* The tag the verification asks for was pushed, annotated, with the commit it is on.
LEMMA VerifyReleaseKeeps ==
  ASSUME ReleaseInv, NEW r \in DOMAIN runs, VerifyRelease(r)
  PROVE  ReleaseInv'
<1>1. /\ runs[r].pc = "verify" /\ Advance(r, "ci") /\ Verified(runs[r].head, runs[r].local)
      /\ remote' = remote /\ pushed' = pushed /\ release' = release
  BY DEF VerifyRelease, RunAt
<1>2. runs[r].todo = <<>>
  BY <1>1, RunIs DEF RunOk
<1>3. Twin(runs[r].head, pushed)
  <2>1. PICK t \in TagNames :
          /\ VersionOf[t] = Says[runs[r].head].version /\ runs[r].local[t] # Nothing
          /\ runs[r].local[t].annotated /\ runs[r].local[t].commit = runs[r].head
          /\ remote[t] = runs[r].local[t]
    BY <1>1 DEF Verified
  <2>2. <<t, runs[r].head>> \in pushed
    BY <2>1 DEF ReleaseInv, TagsOk
  <2> QED
    BY <2>1, <2>2 DEF Twin
<1>4. "ci" \in RunPhases
  BY DEF RunPhases, Active
<1> QED
  BY <1>1, <1>2, <1>3, <1>4, BundlesKept, AdvanceKeeps

LEMMA ValidatedKeeps ==
  ASSUME ReleaseInv, NEW r \in DOMAIN runs, Validated(r)
  PROVE  ReleaseInv'
<1> DEFINE run == runs[r]
           c == run.head
           todo == Proofs(Says[c].cat)
           new == [run EXCEPT !.todo = todo]
<1>1. /\ run.pc = "ci" /\ Sound(c) /\ runs' = [runs EXCEPT ![r].todo = todo]
      /\ remote' = remote /\ pushed' = pushed /\ release' = release
  BY DEF Validated, RunAt, Sound
<1>2. run \in Run /\ RunOk(run, pushed) /\ c \in Commits
  BY RunIs
<1>3. todo \in Seq(StepNames)
  <2> DEFINE own == Range(todo)
  <2>1. todo \in Seq(own) /\ own \subseteq StepNames
    BY <1>2, AllListed, ProofsFacts DEF StepNames
  <2> HIDE DEF own, todo
  <2> QED
    BY <2>1
<1>4. runs' = [runs EXCEPT ![r] = new]
  BY <1>1
<1> HIDE DEF run
<1>5. Outstanding(c, todo)
  BY DEF Outstanding
<1> HIDE DEF todo
<1>6. new \in Run /\ new.pc = "ci" /\ new.head = c /\ new.todo = todo
  BY <1>1, <1>2, <1>3 DEF Run
<1> HIDE DEF new
<1>7. RunOk(new, pushed)
  BY <1>1, <1>2, <1>5, <1>6 DEF RunOk
<1> QED
  BY <1>1, <1>4, <1>6, <1>7, BundlesKept, OneRun DEF run

LEMMA HeadAndTail ==
  ASSUME NEW S, NEW s \in Seq(S), s # <<>>
  PROVE  Tail(s) \in Seq(S) /\ \A x \in Range(s) : x = Head(s) \/ x \in Range(Tail(s))
<1> DEFINE n == Len(s)
<1>1. /\ n \in Nat /\ DOMAIN s = 1..n /\ n # 0
      /\ Tail(s) \in Seq(S) /\ Len(Tail(s)) = n - 1
      /\ \A i \in 1..Len(Tail(s)) : Tail(s)[i] = s[i + 1]
  BY LenProperties, EmptySeq, HeadTailProperties
<1>2. DOMAIN Tail(s) = 1..(n - 1) /\ \A i \in 1..(n - 1) : Tail(s)[i] = s[i + 1]
  BY <1>1, LenProperties
<1>3. Head(s) = s[1]
  BY <1>1
<1> HIDE DEF n
<1>4. ASSUME NEW i \in 1..n, i # 1 PROVE s[i] \in Range(Tail(s))
  <2>1. i - 1 \in 1..(n - 1)
    BY <1>1, <1>4
  <2>2. Tail(s)[i - 1] = s[(i - 1) + 1]
    BY <1>2, <2>1
  <2>3. (i - 1) + 1 = i
    BY <1>1
  <2>4. Tail(s)[i - 1] = s[i]
    BY <2>2, <2>3
  <2> QED
    BY <1>2, <2>1, <2>4 DEF Range
<1> QED
  BY <1>1, <1>3, <1>4 DEF Range

LEMMA RouteFacts ==
  ASSUME NEW cat, NEW id, NEW command, NEW exit, Route(cat, id, command, exit) = 0
  PROVE  exit = 0
BY DEF Route

LEMMA ProofPassesKeeps ==
  ASSUME ReleaseInv, NEW r \in DOMAIN runs, ProofPasses(r)
  PROVE  ReleaseInv'
<1> DEFINE run == runs[r]
           c == run.head
           step == Head(run.todo)
           rest == Tail(run.todo)
           p == IF rest = <<>> THEN "package" ELSE "ci"
           exit == IF step \in Says[c].broken THEN 1 ELSE 0
           new == [run EXCEPT !.todo = rest, !.pc = p]
<1>1. /\ run.pc = "ci" /\ run.todo # <<>> /\ Route(Says[c].cat, step[1], step[2], exit) = 0
      /\ runs' = [runs EXCEPT ![r].todo = Tail(@), ![r].pc = p]
      /\ remote' = remote /\ pushed' = pushed /\ release' = release
  BY DEF ProofPasses, RunAt
<1>2. run \in Run /\ RunOk(run, pushed) /\ run.todo \in Seq(StepNames)
  BY RunIs
<1>3. runs' = [runs EXCEPT ![r] = new]
  BY <1>1
<1> HIDE DEF run
<1>4. step \notin Says[c].broken
  <2>1. exit = 0
    <3> HIDE DEF exit, step, c
    <3> QED
      BY <1>1, RouteFacts
  <2> QED
    BY <2>1
<1>5. rest \in Seq(StepNames) /\ \A x \in Range(run.todo) : x = step \/ x \in Range(rest)
  BY <1>1, <1>2, HeadAndTail
<1> HIDE DEF step, rest
<1>6. Sound(c) /\ Outstanding(c, run.todo) /\ Twin(c, pushed)
  BY <1>1, <1>2 DEF RunOk
<1>7. Outstanding(c, rest)
  BY <1>4, <1>5, <1>6 DEF Outstanding
<1>8. p \in RunPhases /\ (rest = <<>> => p = "package") /\ (rest # <<>> => p = "ci")
  BY DEF RunPhases, Active
<1>9. rest = <<>> => Proven(c)
  <2>1. Range(<<>>) = {}
    BY DEF Range
  <2> QED
    BY <1>6, <1>7, <2>1 DEF Outstanding, Proven
<1> HIDE DEF p
<1>10. new \in Run /\ new.pc = p /\ new.head = c /\ new.todo = rest
  BY <1>2, <1>5, <1>8 DEF Run
<1> HIDE DEF new, c
<1>11. RunOk(new, pushed)
  <2>1. CASE rest = <<>>
    BY <1>6, <1>8, <1>9, <1>10, <2>1 DEF RunOk
  <2>2. CASE rest # <<>>
    BY <1>6, <1>7, <1>8, <1>10, <2>2 DEF RunOk
  <2> QED
    BY <2>1, <2>2
<1> QED
  BY <1>1, <1>3, <1>10, <1>11, BundlesKept, OneRun DEF run

LEMMA PackageKeeps ==
  ASSUME ReleaseInv, NEW r \in DOMAIN runs, Package(r)
  PROVE  ReleaseInv'
<1>1. /\ runs[r].pc = "package" /\ Advance(r, "create")
      /\ remote' = remote /\ pushed' = pushed /\ release' = release
  BY DEF Package, RunAt
<1>2. runs[r].todo = <<>> /\ Twin(runs[r].head, pushed) /\ Proven(runs[r].head)
  BY <1>1, RunIs DEF RunOk
<1>3. "create" \in RunPhases
  BY DEF RunPhases, Active
<1> QED
  BY <1>1, <1>2, <1>3, BundlesKept, AdvanceKeeps

\* The bundle of a release after one of its assets has been replaced.
LEMMA BundleEdits ==
  ASSUME NEW b \in Bundle, NEW c \in Commits, NEW tags, BundleOk(b, tags), Twin(c, tags), Proven(c)
  PROVE  /\ [b EXCEPT !.exists = TRUE] \in Bundle /\ BundleOk([b EXCEPT !.exists = TRUE], tags)
         /\ [b EXCEPT !.wheels = c] \in Bundle /\ BundleOk([b EXCEPT !.wheels = c], tags)
         /\ [b EXCEPT !.sums = c] \in Bundle /\ BundleOk([b EXCEPT !.sums = c], tags)
<1>1. /\ [b EXCEPT !.exists = TRUE] \in Bundle
      /\ [b EXCEPT !.exists = TRUE].wheels = b.wheels /\ [b EXCEPT !.exists = TRUE].sums = b.sums
  BY DEF Bundle
<1>2. /\ [b EXCEPT !.wheels = c] \in Bundle
      /\ [b EXCEPT !.wheels = c].wheels = c /\ [b EXCEPT !.wheels = c].sums = b.sums
  BY DEF Bundle
<1>3. /\ [b EXCEPT !.sums = c] \in Bundle
      /\ [b EXCEPT !.sums = c].wheels = b.wheels /\ [b EXCEPT !.sums = c].sums = c
  BY DEF Bundle
<1> DEFINE x == [b EXCEPT !.exists = TRUE]
           y == [b EXCEPT !.wheels = c]
           z == [b EXCEPT !.sums = c]
<1>4. x \in Bundle /\ x.wheels = b.wheels /\ x.sums = b.sums
  BY <1>1
<1>5. y \in Bundle /\ y.wheels = c /\ y.sums = b.sums
  BY <1>2
<1>6. z \in Bundle /\ z.wheels = b.wheels /\ z.sums = c
  BY <1>3
<1> HIDE DEF x, y, z
<1>7. BundleOk(x, tags) /\ BundleOk(y, tags) /\ BundleOk(z, tags)
  BY <1>4, <1>5, <1>6 DEF BundleOk
<1> QED
  BY <1>4, <1>5, <1>6, <1>7 DEF x, y, z

\* The three steps that write to the release of the run's tag.
LEMMA PublishKeeps ==
  ASSUME ReleaseInv, NEW r \in DOMAIN runs, CreateRelease(r) \/ UploadWheels(r) \/ UploadSums(r)
  PROVE  ReleaseInv'
<1> DEFINE t == runs[r].tag
           c == runs[r].head
           b == release[t]
<1>1. t \in TagNames /\ c \in Commits /\ b \in Bundle /\ BundleOk(b, pushed)
  BY RunIs DEF ReleaseInv
<1>2. runs[r].pc \in {"create", "wheels", "sums"} /\ remote' = remote /\ pushed' = pushed
  BY DEF CreateRelease, UploadWheels, UploadSums, RunAt
<1>3. runs[r].todo = <<>> /\ Twin(c, pushed) /\ Proven(c)
  BY <1>2, RunIs DEF RunOk
<1>4. \E new \in Bundle : BundleOk(new, pushed) /\ release' = [release EXCEPT ![t] = new]
  <2> DEFINE x == [b EXCEPT !.exists = TRUE]
             y == [b EXCEPT !.wheels = c]
             z == [b EXCEPT !.sums = c]
  <2>1. /\ x \in Bundle /\ BundleOk(x, pushed) /\ y \in Bundle /\ BundleOk(y, pushed)
        /\ z \in Bundle /\ BundleOk(z, pushed)
    <3> HIDE DEF b, c
    <3> QED
      BY <1>1, <1>3, BundleEdits
  <2>2. CASE CreateRelease(r)
    <3>1. release' = [release EXCEPT ![t] = x]
      BY <2>2 DEF CreateRelease
    <3> HIDE DEF x
    <3> QED
      BY <2>1, <3>1
  <2>3. CASE UploadWheels(r)
    <3>1. release' = [release EXCEPT ![t] = y]
      BY <2>3 DEF UploadWheels
    <3> HIDE DEF y
    <3> QED
      BY <2>1, <3>1
  <2>4. CASE UploadSums(r)
    <3>1. release' = [release EXCEPT ![t] = z]
      BY <2>4 DEF UploadSums
    <3> HIDE DEF z
    <3> QED
      BY <2>1, <3>1
  <2> QED
    BY <2>2, <2>3, <2>4
<1>5. PICK new \in Bundle : BundleOk(new, pushed) /\ release' = [release EXCEPT ![t] = new]
  BY <1>4
<1>6. release' \in [TagNames -> Bundle] /\ \A u \in TagNames : BundleOk(release'[u], pushed)
  <2> HIDE DEF t
  <2> QED
    BY <1>1, <1>5, BundlesChange
<1>7. PICK p \in {"wheels", "sums", "done"} : Advance(r, p)
  BY DEF CreateRelease, UploadWheels, UploadSums
<1>8. p \in RunPhases /\ p # "ci"
  BY DEF RunPhases, Active
<1> QED
  BY <1>2, <1>3, <1>6, <1>7, <1>8, AdvanceKeeps

LEMMA FailKeeps ==
  ASSUME ReleaseInv, NEW r \in DOMAIN runs, Fail(r)
  PROVE  ReleaseInv'
<1> DEFINE run == runs[r]
           p == "failed"
           todo == <<>>
           new == [run EXCEPT !.pc = p, !.todo = todo]
<1>1. /\ runs' = [runs EXCEPT ![r].pc = "failed", ![r].todo = <<>>]
      /\ remote' = remote /\ pushed' = pushed /\ release' = release
  BY DEF Fail
<1>2. runs' = [runs EXCEPT ![r] = new]
  BY <1>1
<1>3. run \in Run
  BY RunIs
<1> HIDE DEF run
<1>4. todo \in Seq(StepNames) /\ p \in RunPhases
  BY DEF RunPhases
<1>5. new \in Run /\ new.pc = p /\ new.todo = todo
  <2> HIDE DEF todo, p
  <2> QED
    BY <1>3, <1>4 DEF Run
<1> HIDE DEF new
<1>6. RunOk(new, pushed)
  BY <1>5 DEF RunOk
<1> QED
  BY <1>1, <1>2, <1>5, <1>6, BundlesKept, OneRun DEF run

\* Every step of the developer and of the workflow keeps the invariant.
THEOREM ReleaseIsInvariant == ReleaseSpec => []ReleaseInv
<1>1. ReleaseInv /\ UNCHANGED releaseVars => ReleaseInv'
  BY DEF ReleaseInv, releaseVars
<1>2. ReleaseInv /\ ReleaseNext => ReleaseInv'
  <2> SUFFICES ASSUME ReleaseInv, ReleaseNext PROVE ReleaseInv'
    OBVIOUS
  <2>1. ASSUME NEW t \in TagNames, NEW c \in Commits, NEW annotated \in BOOLEAN, Push(t, c, annotated)
        PROVE  ReleaseInv'
    BY <2>1, PushKeeps
  <2>2. ASSUME NEW t \in TagNames, Delete(t) PROVE ReleaseInv'
    BY <2>2, DeleteKeeps
  <2>3. ASSUME NEW r \in DOMAIN runs, Rerun(r) PROVE ReleaseInv'
    BY <2>3, RerunKeeps
  <2>4. ASSUME NEW r \in DOMAIN runs, Start(r) PROVE ReleaseInv'
    BY <2>4, StartKeeps
  <2>5. ASSUME NEW r \in DOMAIN runs, Checkout(r) PROVE ReleaseInv'
    BY <2>5, CheckoutKeeps
  <2>6. ASSUME NEW r \in DOMAIN runs, FetchTag(r) PROVE ReleaseInv'
    BY <2>6, FetchTagKeeps
  <2>7. ASSUME NEW r \in DOMAIN runs, VerifyRelease(r) PROVE ReleaseInv'
    BY <2>7, VerifyReleaseKeeps
  <2>8. ASSUME NEW r \in DOMAIN runs, Validated(r) PROVE ReleaseInv'
    BY <2>8, ValidatedKeeps
  <2>9. ASSUME NEW r \in DOMAIN runs, ProofPasses(r) PROVE ReleaseInv'
    BY <2>9, ProofPassesKeeps
  <2>10. ASSUME NEW r \in DOMAIN runs, Package(r) PROVE ReleaseInv'
    BY <2>10, PackageKeeps
  <2>11. ASSUME NEW r \in DOMAIN runs, CreateRelease(r) \/ UploadWheels(r) \/ UploadSums(r)
         PROVE  ReleaseInv'
    BY <2>11, PublishKeeps
  <2>12. ASSUME NEW r \in DOMAIN runs, Fail(r) PROVE ReleaseInv'
    BY <2>12, FailKeeps
  <2> QED
    BY <2>1, <2>2, <2>3, <2>4, <2>5, <2>6, <2>7, <2>8, <2>9, <2>10, <2>11, <2>12 DEF ReleaseNext
<1> QED
  BY <1>1, <1>2, InitReleaseInv, PTL DEF ReleaseSpec

\* A release whose wheels are of another version than its tag names is attached only
\* where the annotated tag of that other version has been pushed on the same commit,
\* however tags are moved or deleted and runs race or are re-run.
THEOREM MislabelsHaveTwins == ReleaseSpec => []MislabelNeedsTwin
<1>1. ReleaseInv => MislabelNeedsTwin
  BY DEF ReleaseInv, BundleOk, Twin, MislabelNeedsTwin
<1> QED
  BY <1>1, ReleaseIsInvariant, PTL

\* Whatever is attached to a release was built from a commit whose projections agree,
\* whose capabilities do not depend on one another in a circle, and on which every
\* command of the check and the test lane succeeds, as does the wheel proof.
THEOREM PublishedIsProven == ReleaseSpec => []OnlyProvenIsPublished
<1>1. ReleaseInv => OnlyProvenIsPublished
  <2> SUFFICES ASSUME ReleaseInv, NEW c \in Published \ {Nothing}
               PROVE  /\ Says[c].converged
                      /\ ~Circular(Says[c].cat)
                      /\ <<"distribution", "wheel">> \notin Says[c].broken
                      /\ \A cap \in Range(Says[c].cat.caps) : \A k \in Range(cap.commands) :
                           k.aggregate \in {"check", "test"} => <<cap.id, k.name>> \notin Says[c].broken
    BY DEF OnlyProvenIsPublished
  <2>1. PICK t \in TagNames : c = release[t].wheels \/ c = release[t].sums
    BY DEF Published
  <2>2. release[t] \in Bundle /\ BundleOk(release[t], pushed)
    BY DEF ReleaseInv
  <2>3. c \in Commits /\ Proven(c)
    BY <2>1, <2>2 DEF Bundle, BundleOk
  <2>4. Listed(Says[c].cat)
    BY <2>3, AllListed
  <2>5. Says[c].converged /\ Validate(Says[c].cat) = {}
    BY <2>3 DEF Proven, Sound
  <2>6. ~Circular(Says[c].cat)
    BY <2>4, <2>5, CirclesAreInvalid
  <2>7. <<"distribution", "wheel">> \notin Says[c].broken
    BY <2>3, <2>4, ProofsFacts DEF Proven
  <2>8. ASSUME NEW cap \in Range(Says[c].cat.caps), NEW k \in Range(cap.commands),
               k.aggregate \in {"check", "test"}
        PROVE  <<cap.id, k.name>> \notin Says[c].broken
    <3>1. <<cap.id, k.name>> \in Range(Proofs(Says[c].cat))
      BY <2>4, <2>8, ProofsFacts DEF Caps
    <3> QED
      BY <2>3, <3>1 DEF Proven
  <2> QED
    BY <2>5, <2>6, <2>7, <2>8
<1> QED
  BY <1>1, ReleaseIsInvariant, PTL
===============================================================================
