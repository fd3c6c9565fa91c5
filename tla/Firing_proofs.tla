----------------------------- MODULE Firing_proofs -----------------------------
(***************************************************************************)
(* When an entry fires, and what the wrapper it runs then does: theorems   *)
(* about the wrapper, for any number of concurrent invocations, any exit   *)
(* codes and any number of signals and kills, about crontab lines on       *)
(* launchd, for every line and every minute, and about the period of what  *)
(* says "every".                                                           *)
(***************************************************************************)
EXTENDS WrapperRun, FireTimes, SequenceTheorems, WellFoundedInduction, TLAPS

-----------------------------------------------------------------------------
(* The wrapper. *)


(* What TypeOK needs to be inductive: a shell on its way out has something *)
(* to exit with, and one past its command has the command's result.        *)
Known ==
  \A r \in Runs :
    /\ pc[r] \in OnExit => status[r] # None
    /\ pc[r] \in {"replay", "report", "finished"} => result[r] # None

Types == TypeOK /\ Known

LEMMA InitTypes == Init => Types
<1> SUFFICES ASSUME Init PROVE Types
  OBVIOUS
<1>1. hits \in 0 .. MaxHits
  BY HitsAssumption DEF Init
<1>2. log \in [Runs -> Seq(Entry)]
  BY DEF Init
<1>3. TypeOK
  BY <1>1, <1>2 DEF Init, TypeOK, Labels
<1>4. Known
  BY DEF Init, Known, OnExit
<1> QED
  BY <1>3, <1>4 DEF Types

(* What logging an event does to the log, written or not. *)
LEMMA LogsFacts ==
  ASSUME TypeOK, NEW r \in Runs, NEW e, NEW c, [event |-> e, code |-> c] \in Entry,
         Logs(r, e, c)
  PROVE  /\ log' \in [Runs -> Seq(Entry)] /\ unwritten' \in [Runs -> BOOLEAN]
         /\ \A s \in Runs \ {r} :
              /\ log'[s] = log[s] /\ unwritten'[s] = unwritten[s]
              /\ Finishes(s)' = Finishes(s)
         /\ unwritten[r] => unwritten'[r]
         /\ e = "job_started" => Finishes(r)' = Finishes(r)
         /\ e = "job_finished" /\ Finishes(r) = {} =>
              \A i, k \in Finishes(r)' : i = k /\ log'[r][i].code = c
         /\ e = "job_finished" => Finishes(r)' # {} \/ unwritten'[r]
         /\ log[r] # <<>> => log'[r] # <<>>
<1> DEFINE new == [event |-> e, code |-> c]
<1>1. /\ log \in [Runs -> Seq(Entry)] /\ unwritten \in [Runs -> BOOLEAN]
      /\ new \in Entry /\ new.event = e /\ new.code = c
  BY DEF TypeOK
<1> HIDE DEF new
<1>2. CASE log' = [log EXCEPT ![r] = Append(@, new)] /\ UNCHANGED unwritten
  <2> DEFINE l == log[r]
  <2>1. l \in Seq(Entry) /\ log'[r] = Append(l, new)
    BY <1>1, <1>2
  <2>2. \A s \in Runs \ {r} : log'[s] = log[s]
    BY <1>1, <1>2
  <2>3. log' \in [Runs -> Seq(Entry)]
    BY <1>1, <1>2
  <2>4. /\ Len(l) \in Nat /\ Len(Append(l, new)) = Len(l) + 1
        /\ Append(l, new)[Len(l) + 1] = new
        /\ \A i \in 1 .. Len(l) : Append(l, new)[i] = l[i]
    BY <1>1, <2>1
  <2> HIDE DEF l
  <2>5. Finishes(r) = {i \in 1 .. Len(l) : l[i].event = "job_finished"}
    BY DEF Finishes, l
  <2>6. Finishes(r)' = {i \in 1 .. Len(l) + 1 : Append(l, new)[i].event = "job_finished"}
    BY <2>1, <2>4 DEF Finishes
  <2>7. e = "job_started" => Finishes(r)' = Finishes(r)
    BY <1>1, <2>4, <2>5, <2>6
  <2>8. e = "job_finished" => Len(l) + 1 \in Finishes(r)'
    BY <1>1, <2>4, <2>6
  <2>9. Finishes(r) = {} => \A i \in Finishes(r)' : i = Len(l) + 1
    BY <2>4, <2>5, <2>6
  <2>10. Finishes(r) = {} =>
           \A i, k \in Finishes(r)' : i = k /\ log'[r][i].code = c
    BY <1>1, <2>1, <2>4, <2>9
  <2>11. \A s \in Runs \ {r} : Finishes(s)' = Finishes(s)
    BY <2>2 DEF Finishes
  <2>12. log'[r] # <<>>
    BY <2>1, <2>4
  <2> QED
    BY <1>1, <1>2, <2>2, <2>3, <2>7, <2>8, <2>10, <2>11, <2>12
<1>3. CASE unwritten' = [unwritten EXCEPT ![r] = TRUE] /\ UNCHANGED log
  <2>1. \A s \in Runs : Finishes(s)' = Finishes(s)
    BY <1>3 DEF Finishes
  <2>2. /\ unwritten' \in [Runs -> BOOLEAN] /\ unwritten'[r]
        /\ \A s \in Runs \ {r} : unwritten'[s] = unwritten[s]
    BY <1>1, <1>3
  <2> HIDE DEF Finishes
  <2> QED
    BY <1>1, <1>3, <2>1, <2>2
<1> QED
  BY <1>2, <1>3 DEF Logs, new

(* The entries the wrapper logs. *)
LEMMA EntryFacts ==
  ASSUME Types, NEW r \in Runs
  PROVE  /\ [event |-> "job_started", code |-> None] \in Entry
         /\ pc[r] = "finished" =>
              [event |-> "job_finished", code |-> result[r]] \in Entry
         /\ pc[r] = "exit_finished" =>
              [event |-> "job_finished", code |-> status[r]] \in Entry
<1>1. pc[r] = "finished" => result[r] \in Codes
  BY DEF Types, TypeOK, Known
<1>2. pc[r] = "exit_finished" => status[r] \in Codes \cup SignalCodes
  BY DEF Types, TypeOK, Known, OnExit
<1> QED
  BY <1>1, <1>2 DEF Entry

LEMMA StepTypes == Types /\ [Next]_vars => Types'
<1> SUFFICES ASSUME Types, [Next]_vars PROVE Types'
  OBVIOUS
<1> USE CodesAssumption, HitsAssumption
    DEF Types, TypeOK, Known, Labels, Untrapped, Body, OnExit, Entry
<1>1. CASE UNCHANGED vars
  BY <1>1 DEF vars
<1>2. ASSUME NEW r \in Runs, Invoke(r) PROVE Types'
  BY <1>2 DEF Invoke, Goto
<1>3. ASSUME NEW r \in Runs, Setup(r) PROVE Types'
  BY <1>3 DEF Setup, At, Goto
<1>4. ASSUME NEW r \in Runs, SetupFails(r) PROVE Types'
  BY <1>4 DEF SetupFails, At, Gone, Goto
<1>5. ASSUME NEW r \in Runs, NameLock(r) PROVE Types'
  BY <1>5 DEF NameLock, At, Goto
<1>6. ASSUME NEW r \in Runs, MakeLock(r) PROVE Types'
  BY <1>6 DEF MakeLock, At, Goto
<1>7. ASSUME NEW r \in Runs, SkipRun(r) PROVE Types'
  <2>1. CASE UNCHANGED unwritten /\ status' = [status EXCEPT ![r] = 0]
    BY <1>7, <2>1 DEF SkipRun, At, Goto
  <2>2. CASE status' = [status EXCEPT ![r] = 1]
             /\ unwritten' = [unwritten EXCEPT ![r] = TRUE]
    BY <1>7, <2>2 DEF SkipRun, At, Goto
  <2> QED
    BY <1>7, <2>1, <2>2 DEF SkipRun
<1>8. ASSUME NEW r \in Runs, Begin(r) PROVE Types'
  BY <1>8 DEF Begin, At, Goto
<1>9. ASSUME NEW r \in Runs, LogStarted(r) PROVE Types'
  <2>1. log' \in [Runs -> Seq(Entry)] /\ unwritten' \in [Runs -> BOOLEAN]
    BY <1>9, EntryFacts, LogsFacts DEF LogStarted, At
  <2> QED
    BY <1>9, <2>1 DEF LogStarted, At, Goto
<1>10. ASSUME NEW r \in Runs, StartCommand(r) PROVE Types'
  BY <1>10 DEF StartCommand, At, Goto
<1>11. ASSUME NEW r \in Runs, StepFails(r) PROVE Types'
  BY <1>11 DEF StepFails, At, Goto
<1>12. ASSUME NEW r \in Runs, CommandEnds(r) PROVE Types'
  <2>1. PICK c \in Codes :
          IF pc[r] = "command"
          THEN result' = [result EXCEPT ![r] = c] /\ Goto(r, "replay")
          ELSE UNCHANGED <<result, pc>>
    BY <1>12 DEF CommandEnds
  <2>2. result' \in [Runs -> Codes \cup {None}]
    BY <2>1
  <2>3. pc' \in [Runs -> Labels]
    BY <2>1 DEF Goto
  <2>4. TypeOK'
    BY <1>12, <2>2, <2>3 DEF CommandEnds
  <2>5. Known'
    BY <1>12, <2>1 DEF CommandEnds, Goto
  <2> QED
    BY <2>4, <2>5
<1>13. ASSUME NEW r \in Runs, ReplayOutput(r) PROVE Types'
  BY <1>13 DEF ReplayOutput, At, Goto
<1>14. ASSUME NEW r \in Runs, Report(r) PROVE Types'
  BY <1>14 DEF Report, At, Goto
<1>15. ASSUME NEW r \in Runs, LogFinished(r) PROVE Types'
  <2>1. log' \in [Runs -> Seq(Entry)] /\ unwritten' \in [Runs -> BOOLEAN]
    BY <1>15, EntryFacts, LogsFacts DEF LogFinished, At
  <2>2. PICK code \in Codes : status' = [status EXCEPT ![r] = code]
    BY <1>15 DEF LogFinished, At
  <2>3. status' \in [Runs -> Codes \cup SignalCodes \cup {None}] /\ Known'
    BY <1>15, <2>2 DEF LogFinished, At, Goto
  <2> QED
    BY <1>15, <2>1, <2>3 DEF LogFinished, At, Goto
<1>16. ASSUME NEW r \in Runs, ExitReport(r) PROVE Types'
  BY <1>16 DEF ExitReport, At, Goto
<1>17. ASSUME NEW r \in Runs, ExitLogFinished(r) PROVE Types'
  <2>1. log' \in [Runs -> Seq(Entry)] /\ unwritten' \in [Runs -> BOOLEAN]
    BY <1>17, EntryFacts, LogsFacts DEF ExitLogFinished, At
  <2> QED
    BY <1>17, <2>1 DEF ExitLogFinished, At, Goto
<1>18. ASSUME NEW r \in Runs, Unlock(r) PROVE Types'
  BY <1>18 DEF Unlock, At, Gone, Goto
<1>19. ASSUME NEW r \in Runs, Signal(r) PROVE Types'
  BY <1>19 DEF Signal, Hit
<1>20. ASSUME NEW r \in Runs, TakeSignal(r) PROVE Types'
  BY <1>20 DEF TakeSignal, Goto
<1>21. ASSUME NEW r \in Runs, TakeSignalInExit(r) PROVE Types'
  BY <1>21 DEF TakeSignalInExit, Gone, Goto
<1>22. ASSUME NEW r \in Runs, Kill(r) PROVE Types'
  BY <1>22 DEF Kill, Hit, Gone, Goto
<1>23. ASSUME NEW r \in Runs, ExitLogFails(r) PROVE Types'
  <2>1. log' \in [Runs -> Seq(Entry)] /\ unwritten' \in [Runs -> BOOLEAN]
    BY <1>23, EntryFacts, LogsFacts DEF ExitLogFails, At
  <2> QED
    BY <1>23, <2>1 DEF ExitLogFails, At, Gone, Goto
<1> QED
  BY <1>1, <1>2, <1>3, <1>4, <1>5, <1>6, <1>7, <1>8, <1>9, <1>10, <1>11,
     <1>12, <1>13, <1>14, <1>15, <1>16, <1>17, <1>18, <1>19, <1>20, <1>21,
     <1>22, <1>23 DEF Next, Step

LEMMA AlwaysTypes == Spec => []Types
  BY InitTypes, StepTypes, PTL DEF Spec

(* Every variable of the wrapper keeps its type: in particular every       *)
(* job_finished event carries a real exit code.                            *)
THEOREM TypeCorrect == Spec => []TypeOK
<1>1. Types => TypeOK
  BY DEF Types
<1> QED
  BY <1>1, AlwaysTypes, PTL

----------------------------------------------------------------------------
(* The lock.  Past it, a shell of a forbid job holds it; a shell that only *)
(* named it is on its way out; and until some shell takes a lock that is   *)
(* in use, by a shell or by a command a killed shell left running, whoever *)
(* uses it is alone and the directory is there.                            *)
InLocked == {"begin", "started", "temps", "command", "replay", "report",
             "finished"}

LockInv ==
  /\ \A r \in Runs :
       /\ forbid /\ pc[r] \in InLocked => Holding(r)
       /\ held[r] = "named" => pc[r] \in {"lock"} \cup OnExit
       /\ pc[r] \in {"idle", "setup", "name"} => held[r] = "unset"
       /\ pc[r] = "lock" => held[r] = "named"
       /\ alive[r] => pc[r] \in {"command", "idle"}
  /\ forbid /\ ~robbed =>
       /\ \A r \in Runs : InUse(r) => lock
       /\ \A r, s \in Runs : InUse(r) /\ InUse(s) => r = s

LEMMA InitLock == Init => LockInv
  BY DEF Init, LockInv, InLocked, Holding, InUse, OnExit

LEMMA StepLock == Types /\ LockInv /\ [Next]_vars => LockInv'
<1> SUFFICES ASSUME Types, LockInv, [Next]_vars PROVE LockInv'
  OBVIOUS
<1> USE DEF Types, TypeOK, LockInv, InLocked, Holding, InUse, Labels,
            Untrapped, Body, OnExit
<1>1. CASE UNCHANGED vars
  BY <1>1 DEF vars
<1>2. ASSUME NEW r \in Runs, Invoke(r) PROVE LockInv'
  BY <1>2 DEF Invoke, Goto
<1>3. ASSUME NEW r \in Runs, Setup(r) PROVE LockInv'
  BY <1>3 DEF Setup, At, Goto
<1>4. ASSUME NEW r \in Runs, SetupFails(r) PROVE LockInv'
  BY <1>4 DEF SetupFails, At, Gone, Goto
<1>5. ASSUME NEW r \in Runs, NameLock(r) PROVE LockInv'
  BY <1>5 DEF NameLock, At, Goto
<1>6. ASSUME NEW r \in Runs, MakeLock(r) PROVE LockInv'
  BY <1>6 DEF MakeLock, At, Goto
<1>7. ASSUME NEW r \in Runs, SkipRun(r) PROVE LockInv'
  BY <1>7 DEF SkipRun, At, Goto
<1>8. ASSUME NEW r \in Runs, Begin(r) PROVE LockInv'
  BY <1>8 DEF Begin, At, Goto
<1>9. ASSUME NEW r \in Runs, LogStarted(r) PROVE LockInv'
  BY <1>9 DEF LogStarted, At, Goto
<1>10. ASSUME NEW r \in Runs, StartCommand(r) PROVE LockInv'
  BY <1>10 DEF StartCommand, At, Goto
<1>11. ASSUME NEW r \in Runs, StepFails(r) PROVE LockInv'
  BY <1>11 DEF StepFails, At, Goto
<1>12. ASSUME NEW r \in Runs, CommandEnds(r) PROVE LockInv'
  BY <1>12 DEF CommandEnds, Goto
<1>13. ASSUME NEW r \in Runs, ReplayOutput(r) PROVE LockInv'
  BY <1>13 DEF ReplayOutput, At, Goto
<1>14. ASSUME NEW r \in Runs, Report(r) PROVE LockInv'
  BY <1>14 DEF Report, At, Goto
<1>15. ASSUME NEW r \in Runs, LogFinished(r) PROVE LockInv'
  BY <1>15 DEF LogFinished, At, Goto
<1>16. ASSUME NEW r \in Runs, ExitReport(r) PROVE LockInv'
  BY <1>16 DEF ExitReport, At, Goto
<1>17. ASSUME NEW r \in Runs, ExitLogFinished(r) PROVE LockInv'
  BY <1>17 DEF ExitLogFinished, At, Goto
<1>18. ASSUME NEW r \in Runs, Unlock(r) PROVE LockInv'
  BY <1>18 DEF Unlock, At, Gone, Goto
<1>19. ASSUME NEW r \in Runs, Signal(r) PROVE LockInv'
  BY <1>19 DEF Signal, Hit
<1>20. ASSUME NEW r \in Runs, TakeSignal(r) PROVE LockInv'
  BY <1>20 DEF TakeSignal, Goto
<1>21. ASSUME NEW r \in Runs, TakeSignalInExit(r) PROVE LockInv'
  BY <1>21 DEF TakeSignalInExit, Gone, Goto
<1>22. ASSUME NEW r \in Runs, Kill(r) PROVE LockInv'
  BY <1>22 DEF Kill, Hit, Gone, Goto
<1>23. ASSUME NEW r \in Runs, ExitLogFails(r) PROVE LockInv'
  BY <1>23 DEF ExitLogFails, At, Gone, Goto
<1> QED
  BY <1>1, <1>2, <1>3, <1>4, <1>5, <1>6, <1>7, <1>8, <1>9, <1>10, <1>11,
     <1>12, <1>13, <1>14, <1>15, <1>16, <1>17, <1>18, <1>19, <1>20, <1>21,
     <1>22, <1>23 DEF Next, Step

(* forbid keeps two commands of a job apart, orphans of a kill included,   *)
(* except where on_exit has removed a lock directory that was in use and   *)
(* that its shell had not made.                                            *)
THEOREM OverlapIsRobbery == Spec => []OverlapNeedsRobbery
<1>1. LockInv => OverlapNeedsRobbery
  BY DEF LockInv, OverlapNeedsRobbery, InUse
<1> QED
  BY <1>1, AlwaysTypes, InitLock, StepLock, PTL DEF Spec

----------------------------------------------------------------------------
(* The report.  A shell has logged nothing before RUN_STARTED is set, has  *)
(* not finished before FINISH_REPORTED is, and comes to on_exit unreported *)
(* only with a failure to report.                                          *)
Unstarted == {"setup", "name", "lock", "begin"}
Unreported == {"started", "temps", "command", "replay", "report"}
Owing(r) == begun[r] /\ ~reported[r]     \* a finish is still to be reported

ReportOf(r) ==
  /\ pc[r] \in Unstarted => ~begun[r] /\ ~reported[r]
  /\ pc[r] \in Unreported \cup {"exit_finished", "finished"} => begun[r]
  /\ pc[r] \in Unreported => ~reported[r]
  /\ pc[r] \in {"finished", "exit_finished"} => reported[r] /\ Finishes(r) = {}
  /\ ~reported[r] => Finishes(r) = {}
  /\ ~begun[r] => log[r] = <<>>
  /\ pc[r] = "exit" /\ Owing(r) => status[r] # 0
  /\ pc[r] = "exit_finished" => status[r] # 0
  /\ held[r] = "named" => ~begun[r] /\ ~alive[r]
  /\ \A i, k \in Finishes(r) : i = k /\ (log[r][i].code = 0 => result[r] = 0)

ReportInv == \A r \in Runs : ReportOf(r)

LEMMA InitReport == Init => ReportInv
<1> SUFFICES ASSUME Init, NEW r \in Runs PROVE ReportOf(r)
  BY DEF ReportInv
<1>1. Len(log[r]) = 0
  BY DEF Init
<1>2. Finishes(r) = {}
  BY <1>1 DEF Finishes
<1> QED
  BY <1>2 DEF Init, ReportOf, Unstarted, Unreported, Owing

LEMMA StepReport ==
  Types /\ LockInv /\ ReportInv /\ [Next]_vars => ReportInv'
<1> SUFFICES ASSUME Types, LockInv, ReportInv, [Next]_vars PROVE ReportInv'
  OBVIOUS
<1>1. CASE UNCHANGED vars
  BY <1>1 DEF vars, ReportInv, ReportOf, Unstarted, Unreported, Owing, Finishes
<1> USE CodesAssumption DEF ReportInv, ReportOf, Unstarted, Unreported, Owing,
        Finishes, Types, TypeOK, Labels, Untrapped, Body, OnExit
<1>2. ASSUME NEW r \in Runs, Invoke(r) PROVE ReportInv'
  BY <1>2 DEF Invoke, Goto
<1>3. ASSUME NEW r \in Runs, Setup(r) PROVE ReportInv'
  BY <1>3 DEF Setup, At, Goto
<1>4. ASSUME NEW r \in Runs, SetupFails(r) PROVE ReportInv'
  BY <1>4 DEF SetupFails, At, Gone, Goto
<1>5. ASSUME NEW r \in Runs, NameLock(r) PROVE ReportInv'
  BY <1>5 DEF NameLock, At, Goto, LockInv
<1>6. ASSUME NEW r \in Runs, MakeLock(r) PROVE ReportInv'
  BY <1>6 DEF MakeLock, At, Goto
<1>7. ASSUME NEW r \in Runs, SkipRun(r) PROVE ReportInv'
  BY <1>7 DEF SkipRun, At, Goto
<1>8. ASSUME NEW r \in Runs, Begin(r) PROVE ReportInv'
  BY <1>8 DEF Begin, At, Goto, LockInv
<1>9. ASSUME NEW r \in Runs, LogStarted(r) PROVE ReportInv'
  <2>1. /\ \A s \in Runs : Finishes(s)' = Finishes(s)
        /\ \A s \in Runs \ {r} : log'[s] = log[s]
    <3> HIDE DEF Finishes
    <3>1. Logs(r, "job_started", None) /\ [event |-> "job_started", code |-> None] \in Entry
      BY <1>9, EntryFacts DEF LogStarted
    <3> QED
      BY <3>1, LogsFacts
  <2>2. ReportOf(r)'
    <3> HIDE DEF Finishes
    <3>1. Finishes(r)' = {}
      BY <1>9, <2>1 DEF LogStarted, At
    <3> QED
      BY <1>9, <3>1 DEF LogStarted, At, Goto
  <2>3. ASSUME NEW s \in Runs \ {r} PROVE ReportOf(s)'
    <3> HIDE DEF Finishes
    <3> QED
      BY <1>9, <2>1 DEF LogStarted, At, Goto
  <2> QED
    BY <2>2, <2>3
<1>10. ASSUME NEW r \in Runs, StartCommand(r) PROVE ReportInv'
  BY <1>10 DEF StartCommand, At, Goto
<1>11. ASSUME NEW r \in Runs, StepFails(r) PROVE ReportInv'
  BY <1>11 DEF StepFails, At, Goto
<1>12. ASSUME NEW r \in Runs, CommandEnds(r) PROVE ReportInv'
  <2>1. pc[r] \in {"command", "idle"}
    BY <1>12 DEF CommandEnds, LockInv
  <2>2. CASE pc[r] = "command"
    <3>1. Finishes(r) = {} /\ \A s \in Runs : Finishes(s)' = Finishes(s)
      BY <1>12, <2>2 DEF CommandEnds
    <3>2. \A s \in Runs \ {r} : result'[s] = result[s]
      BY <1>12 DEF CommandEnds
    <3> HIDE DEF Finishes
    <3> QED
      BY <1>12, <2>2, <3>1, <3>2 DEF CommandEnds, Goto
  <2>3. CASE pc[r] = "idle"
    BY <1>12, <2>3 DEF CommandEnds
  <2> QED
    BY <2>1, <2>2, <2>3
<1>13. ASSUME NEW r \in Runs, ReplayOutput(r) PROVE ReportInv'
  BY <1>13 DEF ReplayOutput, At, Goto
<1>14. ASSUME NEW r \in Runs, Report(r) PROVE ReportInv'
  BY <1>14 DEF Report, At, Goto
<1>15. ASSUME NEW r \in Runs, LogFinished(r) PROVE ReportInv'
  <2>1. /\ Finishes(r) = {}
        /\ result[r] = 0 => result[r] = 0
    BY <1>15 DEF LogFinished, At
  <2> HIDE DEF Finishes
  <2>2. /\ \A s \in Runs \ {r} : log'[s] = log[s] /\ Finishes(s)' = Finishes(s)
        /\ \A i, k \in Finishes(r)' : i = k /\ log'[r][i].code = result[r]
    <3>1. /\ Logs(r, "job_finished", result[r])
          /\ [event |-> "job_finished", code |-> result[r]] \in Entry
          /\ TypeOK
      BY <1>15, EntryFacts DEF LogFinished, At
    <3> HIDE DEF TypeOK
    <3> QED
      BY <2>1, <3>1, LogsFacts
  <2>3. ReportOf(r)'
    BY <1>15, <2>1, <2>2 DEF LogFinished, At, Goto
  <2>4. ASSUME NEW s \in Runs \ {r} PROVE ReportOf(s)'
    BY <1>15, <2>2 DEF LogFinished, At, Goto
  <2> QED
    BY <2>3, <2>4
<1>16. ASSUME NEW r \in Runs, ExitReport(r) PROVE ReportInv'
  BY <1>16 DEF ExitReport, At, Goto
<1>17. ASSUME NEW r \in Runs, ExitLogFinished(r) PROVE ReportInv'
  <2>1. /\ Finishes(r) = {}
        /\ status[r] = 0 => result[r] = 0
    BY <1>17 DEF ExitLogFinished, At
  <2> HIDE DEF Finishes
  <2>2. /\ \A s \in Runs \ {r} : log'[s] = log[s] /\ Finishes(s)' = Finishes(s)
        /\ \A i, k \in Finishes(r)' : i = k /\ log'[r][i].code = status[r]
    <3>1. /\ Logs(r, "job_finished", status[r])
          /\ [event |-> "job_finished", code |-> status[r]] \in Entry
          /\ TypeOK
      BY <1>17, EntryFacts DEF ExitLogFinished, At
    <3> HIDE DEF TypeOK
    <3> QED
      BY <2>1, <3>1, LogsFacts
  <2>3. ReportOf(r)'
    BY <1>17, <2>1, <2>2 DEF ExitLogFinished, At, Goto
  <2>4. ASSUME NEW s \in Runs \ {r} PROVE ReportOf(s)'
    BY <1>17, <2>2 DEF ExitLogFinished, At, Goto
  <2> QED
    BY <2>3, <2>4
<1>18. ASSUME NEW r \in Runs, Unlock(r) PROVE ReportInv'
  BY <1>18 DEF Unlock, At, Gone, Goto
<1>19. ASSUME NEW r \in Runs, Signal(r) PROVE ReportInv'
  BY <1>19 DEF Signal, Hit
<1>20. ASSUME NEW r \in Runs, TakeSignal(r) PROVE ReportInv'
  BY <1>20 DEF TakeSignal, Goto
<1>21. ASSUME NEW r \in Runs, TakeSignalInExit(r) PROVE ReportInv'
  BY <1>21 DEF TakeSignalInExit, Gone, Goto
<1>22. ASSUME NEW r \in Runs, Kill(r) PROVE ReportInv'
  BY <1>22 DEF Kill, Hit, Gone, Goto
<1>23. ASSUME NEW r \in Runs, ExitLogFails(r) PROVE ReportInv'
  <2>1. /\ Finishes(r) = {}
        /\ status[r] = 0 => result[r] = 0
    BY <1>23 DEF ExitLogFails, At
  <2> HIDE DEF Finishes
  <2>2. /\ \A s \in Runs \ {r} : log'[s] = log[s] /\ Finishes(s)' = Finishes(s)
        /\ \A i, k \in Finishes(r)' : i = k /\ log'[r][i].code = status[r]
    <3>1. /\ Logs(r, "job_finished", status[r])
          /\ [event |-> "job_finished", code |-> status[r]] \in Entry
          /\ TypeOK
      BY <1>23, EntryFacts DEF ExitLogFails, At
    <3> HIDE DEF TypeOK
    <3> QED
      BY <2>1, <3>1, LogsFacts
  <2>3. ReportOf(r)'
    BY <1>23, <2>1, <2>2 DEF ExitLogFails, At, Gone, Goto
  <2>4. ASSUME NEW s \in Runs \ {r} PROVE ReportOf(s)'
    BY <1>23, <2>2 DEF ExitLogFails, At, Gone, Goto
  <2> QED
    BY <2>3, <2>4
<1> QED
  BY <1>1, <1>2, <1>3, <1>4, <1>5, <1>6, <1>7, <1>8, <1>9, <1>10, <1>11,
     <1>12, <1>13, <1>14, <1>15, <1>16, <1>17, <1>18, <1>19, <1>20, <1>21,
     <1>22, <1>23 DEF Next, Step

LEMMA AlwaysReport == Spec => [](Types /\ LockInv /\ ReportInv)
  BY InitTypes, StepTypes, InitLock, StepLock, InitReport, StepReport, PTL
  DEF Spec

(* A run reports one end, and a success only of a command that succeeded,  *)
(* wherever signals and kills strike.                                      *)
THEOREM ReportIsTrue == Spec => []OneTrueReport
<1>1. ReportInv => OneTrueReport
  BY DEF ReportInv, ReportOf, OneTrueReport
<1> QED
  BY <1>1, AlwaysReport, PTL

----------------------------------------------------------------------------
(* The missing report.  A shell nobody hit has no signal to take; with a   *)
(* start logged, no finish, and nothing it failed to write it is still on  *)
(* its way to the finish; and a skipped one will exit with 0.              *)
ToFinish == {"temps", "command", "replay", "report", "finished",
             "exit_finished"}

HitInv ==
  \A r \in Runs :
    /\ pc[r] = "idle" \/ ~hit[r] => signal[r] = None
    /\ ~hit[r] /\ ~unwritten[r] /\ log[r] # <<>> /\ Finishes(r) = {} =>
         pc[r] \in ToFinish \/ (pc[r] = "exit" /\ Owing(r))
    /\ held[r] = "named" /\ pc[r] \in OnExit =>
         status[r] = 0 \/ hit[r] \/ unwritten[r]

LEMMA InitHit == Init => HitInv
  BY DEF Init, HitInv, OnExit

LEMMA StepHit ==
  Types /\ LockInv /\ ReportInv /\ HitInv /\ [Next]_vars => HitInv'
<1> SUFFICES ASSUME Types, LockInv, ReportInv, HitInv, [Next]_vars
             PROVE  HitInv'
  OBVIOUS
<1> USE CodesAssumption DEF HitInv, ToFinish, ReportInv, ReportOf, Unstarted,
        Unreported, Owing, Finishes, Types, TypeOK, Labels, Untrapped, Body,
        OnExit
<1>1. CASE UNCHANGED vars
  BY <1>1 DEF vars
<1>2. ASSUME NEW r \in Runs, Invoke(r) PROVE HitInv'
  BY <1>2 DEF Invoke, Goto
<1>3. ASSUME NEW r \in Runs, Setup(r) PROVE HitInv'
  BY <1>3 DEF Setup, At, Goto
<1>4. ASSUME NEW r \in Runs, SetupFails(r) PROVE HitInv'
  BY <1>4 DEF SetupFails, At, Gone, Goto
<1>5. ASSUME NEW r \in Runs, NameLock(r) PROVE HitInv'
  BY <1>5 DEF NameLock, At, Goto
<1>6. ASSUME NEW r \in Runs, MakeLock(r) PROVE HitInv'
  BY <1>6 DEF MakeLock, At, Goto
<1>7. ASSUME NEW r \in Runs, SkipRun(r) PROVE HitInv'
  BY <1>7 DEF SkipRun, At, Goto
<1>8. ASSUME NEW r \in Runs, Begin(r) PROVE HitInv'
  BY <1>8 DEF Begin, At, Goto
<1>9. ASSUME NEW r \in Runs, LogStarted(r) PROVE HitInv'
  <2> HIDE DEF Finishes
  <2>1. /\ \A s \in Runs \ {r} : /\ log'[s] = log[s] /\ Finishes(s)' = Finishes(s)
                                 /\ unwritten'[s] = unwritten[s]
        /\ unwritten[r] => unwritten'[r]
    BY <1>9, EntryFacts, LogsFacts DEF LogStarted, At
  <2> QED
    BY <1>9, <2>1 DEF LogStarted, At, Goto
<1>10. ASSUME NEW r \in Runs, StartCommand(r) PROVE HitInv'
  BY <1>10 DEF StartCommand, At, Goto
<1>11. ASSUME NEW r \in Runs, StepFails(r) PROVE HitInv'
  BY <1>11 DEF StepFails, At, Goto
<1>12. ASSUME NEW r \in Runs, CommandEnds(r) PROVE HitInv'
  BY <1>12 DEF CommandEnds, Goto
<1>13. ASSUME NEW r \in Runs, ReplayOutput(r) PROVE HitInv'
  BY <1>13 DEF ReplayOutput, At, Goto
<1>14. ASSUME NEW r \in Runs, Report(r) PROVE HitInv'
  <2>1. ASSUME NEW s \in Runs PROVE Finishes(s)' = Finishes(s)
    BY <1>14 DEF Report
  <2> HIDE DEF Finishes
  <2> QED
    BY <1>14, <2>1 DEF Report, At, Goto
<1>15. ASSUME NEW r \in Runs, LogFinished(r) PROVE HitInv'
  <2> HIDE DEF Finishes
  <2>1. /\ \A s \in Runs \ {r} : /\ log'[s] = log[s] /\ Finishes(s)' = Finishes(s)
                                 /\ unwritten'[s] = unwritten[s]
        /\ unwritten[r] => unwritten'[r]
        /\ Finishes(r)' # {} \/ unwritten'[r]
    BY <1>15, EntryFacts, LogsFacts DEF LogFinished, At
  <2>2. \A s \in Runs \ {r} : status'[s] = status[s]
    BY <1>15 DEF LogFinished
  <2>3. held[r] # "named"
    BY <1>15 DEF LogFinished, At
  <2> QED
    BY <1>15, <2>1, <2>2, <2>3 DEF LogFinished, At, Goto
<1>16. ASSUME NEW r \in Runs, ExitReport(r) PROVE HitInv'
  <2>1. ASSUME NEW s \in Runs PROVE Finishes(s)' = Finishes(s)
    BY <1>16 DEF ExitReport
  <2> HIDE DEF Finishes
  <2> QED
    BY <1>16, <2>1 DEF ExitReport, At, Goto
<1>17. ASSUME NEW r \in Runs, ExitLogFinished(r) PROVE HitInv'
  <2> HIDE DEF Finishes
  <2>1. /\ \A s \in Runs \ {r} : /\ log'[s] = log[s] /\ Finishes(s)' = Finishes(s)
                                 /\ unwritten'[s] = unwritten[s]
        /\ unwritten[r] => unwritten'[r]
        /\ Finishes(r)' # {} \/ unwritten'[r]
    BY <1>17, EntryFacts, LogsFacts DEF ExitLogFinished, At
  <2> QED
    BY <1>17, <2>1 DEF ExitLogFinished, At, Goto
<1>18. ASSUME NEW r \in Runs, Unlock(r) PROVE HitInv'
  BY <1>18 DEF Unlock, At, Gone, Goto
<1>19. ASSUME NEW r \in Runs, Signal(r) PROVE HitInv'
  BY <1>19 DEF Signal, Hit
<1>20. ASSUME NEW r \in Runs, TakeSignal(r) PROVE HitInv'
  BY <1>20 DEF TakeSignal, Goto
<1>21. ASSUME NEW r \in Runs, TakeSignalInExit(r) PROVE HitInv'
  BY <1>21 DEF TakeSignalInExit, Gone, Goto
<1>22. ASSUME NEW r \in Runs, Kill(r) PROVE HitInv'
  BY <1>22 DEF Kill, Hit, Gone, Goto
<1>23. ASSUME NEW r \in Runs, ExitLogFails(r) PROVE HitInv'
  <2> HIDE DEF Finishes
  <2>1. /\ \A s \in Runs \ {r} : /\ log'[s] = log[s] /\ Finishes(s)' = Finishes(s)
                                 /\ unwritten'[s] = unwritten[s]
        /\ unwritten[r] => unwritten'[r]
        /\ Finishes(r)' # {} \/ unwritten'[r]
    BY <1>23, EntryFacts, LogsFacts DEF ExitLogFails, At
  <2> QED
    BY <1>23, <2>1 DEF ExitLogFails, At, Gone, Goto
<1> QED
  BY <1>1, <1>2, <1>3, <1>4, <1>5, <1>6, <1>7, <1>8, <1>9, <1>10, <1>11,
     <1>12, <1>13, <1>14, <1>15, <1>16, <1>17, <1>18, <1>19, <1>20, <1>21,
     <1>22, <1>23 DEF Next, Step

LEMMA AlwaysHit == Spec => [](Types /\ LockInv /\ ReportInv /\ HitInv)
  BY AlwaysReport, InitHit, StepHit, PTL DEF Spec

(* In the log of a job whose shell is gone, a start with no finish can only *)
(* come of a signal, a kill or a write of the finish that failed.          *)
THEOREM MissingFinishIsExplained == Spec => []MissingFinishHasCause
<1>1. HitInv => MissingFinishHasCause
  BY DEF HitInv, MissingFinishHasCause, ToFinish
<1> QED
  BY <1>1, AlwaysHit, PTL

LEMMA SkipSteps ==
  ASSUME Types, LockInv, ReportInv, HitInv, [Next]_vars,
         NEW r \in Runs, held[r] = "named", pc'[r] = "idle"
  PROVE  /\ log'[r] = <<>> /\ ~alive'[r]
         /\ status'[r] = 0 \/ hit'[r] \/ unwritten'[r]
<1>1. /\ pc[r] \in {"lock"} \cup OnExit /\ pc[r] # "exit_finished"
      /\ ~begun[r] /\ ~alive[r] /\ log[r] = <<>>
  BY DEF LockInv, ReportInv, ReportOf
<1>2. pc[r] # "idle"
  BY <1>1 DEF OnExit
<1> USE DEF Types, TypeOK, Goto, Gone, At, OnExit
<1>3. Unlock(r) \/ TakeSignalInExit(r) \/ Kill(r)
  <2>1. PICK q \in Runs : Invoke(q) \/ Step(q) \/ CommandEnds(q) \/ Signal(q) \/ Kill(q)
    BY <1>2 DEF Next, vars
  <2>2. q = r
    BY <1>2, <2>1 DEF Invoke, Step, CommandEnds, Signal, Kill, Hit, Setup, SetupFails,
      NameLock, MakeLock, SkipRun, Begin, LogStarted, StartCommand, StepFails,
      ReplayOutput, Report, LogFinished, ExitReport, ExitLogFinished,
      ExitLogFails, Unlock, TakeSignal, TakeSignalInExit
  <2> QED
    BY <1>1, <1>2, <2>1, <2>2 DEF Invoke, Step, CommandEnds, Signal, Setup, SetupFails,
      NameLock, MakeLock, SkipRun, Begin, LogStarted, StartCommand, StepFails,
      ReplayOutput, Report, LogFinished, ExitReport, ExitLogFinished,
      ExitLogFails, TakeSignal
<1>4. CASE Unlock(r)
  <2>1. status'[r] = status[r] /\ UNCHANGED <<log, alive, hit, unwritten>>
    BY <1>4 DEF Unlock
  <2> QED
    BY <1>1, <1>4, <2>1 DEF Unlock, HitInv
<1>5. CASE TakeSignalInExit(r)
  <2>1. hit[r]
    BY <1>5 DEF TakeSignalInExit, HitInv
  <2> QED
    BY <1>1, <1>5, <2>1 DEF TakeSignalInExit
<1>6. CASE Kill(r)
  BY <1>1, <1>6 DEF Kill, Hit
<1> QED
  BY <1>3, <1>4, <1>5, <1>6

(* A run that found the lock taken neither runs its command nor logs, and  *)
(* what it does on its way out leaves it a success, unless it is signalled *)
(* or killed or cannot write.                                              *)
THEOREM SkipIsSilent == Spec => SkippedRunsAreSilent
<1>1. Types /\ LockInv /\ ReportInv /\ HitInv /\ [Next]_vars =>
        [\A r \in Runs :
           held[r] = "named" /\ pc'[r] = "idle" =>
             /\ log'[r] = <<>> /\ ~alive'[r]
             /\ status'[r] = 0 \/ hit'[r] \/ unwritten'[r]]_vars
  BY SkipSteps
<1> QED
  BY <1>1, AlwaysHit, PTL DEF Spec, SkippedRunsAreSilent

-----------------------------------------------------------------------------
(* When a schedule fires. *)

LEMMA BoundsFacts ==
  /\ \A k \in 1..5 : Bounds[k][1] \in Nat /\ Bounds[k][2] \in Nat
  /\ Bounds[1] = <<0, 59>> /\ Bounds[2] = <<0, 23>> /\ Bounds[3] = <<1, 31>>
  /\ Bounds[4] = <<1, 12>> /\ Bounds[5] = <<0, 7>>
<1>1. /\ Bounds[1] = <<0, 59>> /\ Bounds[2] = <<0, 23>> /\ Bounds[3] = <<1, 31>>
      /\ Bounds[4] = <<1, 12>> /\ Bounds[5] = <<0, 7>>
  BY DEF Bounds
<1>2. \A k \in 1..5 : k = 1 \/ k = 2 \/ k = 3 \/ k = 4 \/ k = 5
  OBVIOUS
<1> QED
  BY <1>1, <1>2

LEMMA LeastFacts ==
  ASSUME NEW S \in SUBSET Nat, S # {}
  PROVE  \E i \in S : \A k \in S : i <= k
<1> DEFINE Less == OpToRel(<, Nat)
<1>1. IsWellFoundedOn(Less, Nat)
  BY NatLessThanWellFounded
<1>2. \A a, b \in Nat : a < b => <<a, b>> \in Less
  BY DEF OpToRel
<1> HIDE DEF Less
<1>3. PICK i \in S : \A k \in S : ~(<<k, i>> \in Less)
  BY <1>1, WFMin
<1>4. \A k \in S : ~(k < i)
  BY <1>2, <1>3
<1> QED
  BY <1>4

Sums(F, n) == F = [m \in 1..n |-> IF m = 1 THEN 0 ELSE F[m - 1] + MonthLens[m - 1]]

LEMMA SumsExist ==
  ASSUME NEW n \in Nat
  PROVE  \E F : Sums(F, n)
<1> DEFINE Bad == {m \in Nat : ~\E F : Sums(F, m)}
<1>1. SUFFICES ASSUME Bad # {} PROVE FALSE
  OBVIOUS
<1>2. PICK m \in Bad : \A k \in Bad : m <= k
  BY <1>1, LeastFacts
<1>3. m # 0
  <2>1. Sums([i \in 1..0 |-> 0], 0)
    BY DEF Sums
  <2> QED
    BY <2>1
<1>4. m - 1 \in Nat /\ m - 1 \notin Bad
  BY <1>2, <1>3
<1>5. PICK G : Sums(G, m - 1)
  BY <1>4
<1> DEFINE H == [i \in 1..m |-> IF i = 1 THEN 0 ELSE G[i - 1] + MonthLens[i - 1]]
<1>6. ASSUME NEW i \in 1..m, i # 1 PROVE G[i - 1] = H[i - 1]
  <2>1. i - 1 \in 1..m /\ i - 1 \in 1..(m - 1)
    BY <1>4, <1>6
  <2>2. H[i - 1] = IF i - 1 = 1 THEN 0 ELSE G[(i - 1) - 1] + MonthLens[(i - 1) - 1]
    BY <2>1
  <2>3. G[i - 1] = IF i - 1 = 1 THEN 0 ELSE G[(i - 1) - 1] + MonthLens[(i - 1) - 1]
    BY <1>5, <2>1 DEF Sums
  <2> QED
    BY <2>2, <2>3
<1>7. Sums(H, m)
  BY <1>6 DEF Sums
<1> QED
  BY <1>2, <1>7

(* The days before each month, summed up. *)
LEMMA DaysFacts ==
  \E n \in 1..12 :
    /\ n = Len(MonthLens) /\ DOMAIN MonthLens = 1..n
    /\ DaysBefore[1] = 0 /\ Year = DaysBefore[n + 1]
    /\ \A m \in 1..n : MonthLens[m] \in 1..31 /\ DaysBefore[m + 1] = DaysBefore[m] + MonthLens[m]
    /\ \A m \in 1..(n + 1) : DaysBefore[m] \in Nat /\ (m > 1 => DaysBefore[m] > 0)
<1> DEFINE n == Len(MonthLens)
           D == DaysBefore
<1>1. n \in 1..12 /\ DOMAIN MonthLens = 1..n /\ \A m \in 1..n : MonthLens[m] \in 1..31
  BY TimesAssumption, LenProperties
<1>2. Sums(D, n + 1)
  <2>1. \E F : Sums(F, n + 1)
    BY <1>1, SumsExist
  <2> QED
    BY <2>1 DEF DaysBefore, Sums
<1>3. Year = D[n + 1]
  BY DEF Year
<1> HIDE DEF D, n
<1>4. D[1] = 0 /\ \A m \in 1..n : D[m + 1] = D[m] + MonthLens[m]
  <2>1. \A m \in 1..(n + 1) : D[m] = IF m = 1 THEN 0 ELSE D[m - 1] + MonthLens[m - 1]
    BY <1>2 DEF Sums
  <2>2. ASSUME NEW m \in 1..n PROVE D[m + 1] = D[m] + MonthLens[m]
    <3>1. m + 1 \in 1..(n + 1) /\ m + 1 # 1 /\ (m + 1) - 1 = m
      BY <1>1
    <3> QED
      BY <2>1, <3>1
  <2>3. 1 \in 1..(n + 1)
    BY <1>1
  <2> QED
    BY <2>1, <2>2, <2>3
<1>5. ASSUME NEW m \in 1..(n + 1) PROVE D[m] \in Nat /\ (m > 1 => D[m] > 0)
  <2> DEFINE Ok(k) == D[k] \in Nat /\ (k > 1 => D[k] > 0)
             Bad == {k \in 1..(n + 1) : ~Ok(k)}
  <2>1. ASSUME Bad # {} PROVE FALSE
    <3>1. Bad \in SUBSET Nat
      BY <1>1
    <3>2. PICK k \in Bad : \A l \in Bad : k <= l
      BY <2>1, <3>1, LeastFacts
    <3>3. k \in 1..(n + 1) /\ k # 1
      BY <1>4, <3>2
    <3>4. k - 1 \in 1..n /\ k - 1 \in 1..(n + 1) /\ ~(k <= k - 1) /\ (k - 1) + 1 = k
      BY <1>1, <3>3
    <3>5. Ok(k - 1)
      BY <3>2, <3>4
    <3>6. D[k] = D[k - 1] + MonthLens[k - 1] /\ MonthLens[k - 1] \in 1..31
      BY <1>1, <1>4, <3>4
    <3> QED
      BY <3>2, <3>5, <3>6
  <2> QED
    BY <2>1
<1> QED
  BY <1>1, <1>3, <1>4, <1>5 DEF D, n

(* Every day of the year lies in one of its months. *)
LEMMA CalendarFacts ==
  /\ DOMAIN MonthLens = 1..Len(MonthLens) /\ Len(MonthLens) \in 1..12
  /\ \A m \in DOMAIN MonthLens : MonthLens[m] \in 1..31 /\ DaysBefore[m] \in Nat
  /\ Year \in Nat \ {0}
  /\ \A d \in 0..(Year - 1) : \E m \in DOMAIN MonthLens :
       DaysBefore[m] <= d /\ d < DaysBefore[m] + MonthLens[m]
<1> DEFINE D == DaysBefore
           len == Len(MonthLens)
<1>1. PICK n \in 1..12 :
    /\ n = len /\ DOMAIN MonthLens = 1..n
    /\ D[1] = 0 /\ Year = D[n + 1]
    /\ \A m \in 1..n : MonthLens[m] \in 1..31 /\ D[m + 1] = D[m] + MonthLens[m]
    /\ \A m \in 1..(n + 1) : D[m] \in Nat /\ (m > 1 => D[m] > 0)
  BY DaysFacts
<1> HIDE DEF D, len
<1>2. Year \in Nat \ {0}
  <2>1. n + 1 \in 1..(n + 1) /\ n + 1 > 1
    BY <1>1
  <2> QED
    BY <1>1, <2>1
<1>3. ASSUME NEW d \in 0..(Year - 1)
      PROVE  \E m \in 1..n : D[m] <= d /\ d < D[m] + MonthLens[m]
  <2> DEFINE Later == {m \in 1..n : d < D[m + 1]}
  <2>1. n \in Later
    BY <1>1, <1>2, <1>3
  <2>2. Later \in SUBSET Nat
    BY <1>1
  <2>3. PICK m \in Later : \A k \in Later : m <= k
    BY <2>1, <2>2, LeastFacts
  <2>4. m \in 1..n /\ d < D[m] + MonthLens[m]
    BY <1>1, <2>3
  <2>5. D[m] <= d
    <3>1. CASE m = 1
      BY <1>1, <3>1, <1>2
    <3>2. CASE m # 1
      <4>1. m - 1 \in 1..n /\ (m - 1) + 1 = m /\ ~(m <= m - 1) /\ m \in 1..(n + 1)
        BY <1>1, <2>4, <3>2
      <4>2. ~(d < D[m])
        BY <2>3, <4>1
      <4>3. D[m] \in Nat /\ d \in Nat
        BY <1>1, <1>2, <4>1
      <4> QED
        BY <4>2, <4>3
    <3> QED
      BY <3>1, <3>2
  <2> QED
    BY <2>4, <2>5
<1>4. \A m \in 1..n : m \in 1..(n + 1)
  BY <1>1
<1> QED
  BY <1>1, <1>2, <1>3, <1>4 DEF D, len

(* The calendar values of a minute are within the bounds of their fields. *)
LEMMA InstantFacts ==
  ASSUME NEW t \in Nat
  PROVE  /\ Instant(t)[1] = t % 60
         /\ \A k \in 1..5 : Instant(t)[k] \in Nat /\ Bounds[k][1] <= Instant(t)[k] /\ Instant(t)[k] <= Bounds[k][2]
<1> DEFINE day == (t \div 1440) % Year
           Holds(m) == DaysBefore[m] <= day /\ day < DaysBefore[m] + MonthLens[m]
           month == CHOOSE m \in DOMAIN MonthLens : Holds(m)
<1>1. Instant(t) = <<t % 60, (t \div 60) % 24, day - DaysBefore[month] + 1, month, (t \div 1440) % 7>>
  BY DEF Instant
<1>2. day \in 0 .. Year - 1
  <2>1. t \div 1440 \in Nat /\ Year \in Nat /\ Year > 0
    BY CalendarFacts
  <2> QED
    BY <2>1
<1>3. month \in DOMAIN MonthLens /\ Holds(month)
  <2>1. \E m \in DOMAIN MonthLens : Holds(m)
    BY <1>2, CalendarFacts
  <2> QED
    BY <2>1
<1> HIDE DEF month
<1>4. month \in 1 .. 12 /\ DaysBefore[month] \in Nat /\ MonthLens[month] \in 1 .. 31
  <2>1. DaysBefore[month] \in Nat /\ MonthLens[month] \in 1 .. 31
    BY <1>3, CalendarFacts
  <2>2. month \in DOMAIN MonthLens
    BY <1>3
  <2> DEFINE months == DOMAIN MonthLens
             n == Len(MonthLens)
  <2>3. months = 1..n /\ n \in 1..12
    BY CalendarFacts
  <2>4. month \in months
    BY <2>2
  <2> HIDE DEF months, n
  <2>5. month \in 1 .. 12
    BY <2>3, <2>4
  <2> QED
    BY <2>1, <2>5
<1>5. day - DaysBefore[month] + 1 \in 1 .. 31
  <2> DEFINE before == DaysBefore[month]
             length == MonthLens[month]
  <2>1. day \in Nat
    BY <1>2, CalendarFacts
  <2>2. before \in Nat /\ length \in 1 .. 31 /\ before <= day /\ day < before + length
    BY <1>3, <1>4
  <2> HIDE DEF day, before, length
  <2>3. day - before + 1 \in 1 .. 31
    BY <2>1, <2>2
  <2> QED
    BY <2>3 DEF before
<1> HIDE DEF day
<1>6. t % 60 \in 0 .. 59 /\ (t \div 60) % 24 \in 0 .. 23 /\ (t \div 1440) % 7 \in 0 .. 6
  OBVIOUS
<1>7. \A k \in 1..5 : k = 1 \/ k = 2 \/ k = 3 \/ k = 4 \/ k = 5
  OBVIOUS
<1> QED
  BY <1>1, <1>4, <1>5, <1>6, <1>7, BoundsFacts

(* Unless it raises, launchd's list of the values of a field is what cron     *)
(* matches.                                                                   *)
LEMMA ListIsMatched ==
  ASSUME NEW field \in Seq(Parts), NEW k \in 1..5, NEW v \in Nat, ~FieldRaises(field)
  PROVE  v \in CalendarField(field, k) <=> \E i \in DOMAIN field : PartMatches(field[i], v, k)
<1>1. ASSUME NEW i \in DOMAIN field
      PROVE  LET part == field[i]
                 start == IF part.form = "*" THEN Bounds[k][1] ELSE part.lo
                 end == IF part.form = "*" \/ (part.form = "value" /\ part.step # 0)
                        THEN Bounds[k][2] ELSE part.hi
                 step == IF part.step = 0 THEN 1 ELSE part.step
             IN  v \in {u \in start..end : (u - start) % step = 0} <=> PartMatches(part, v, k)
  <2> DEFINE part == field[i]
             start == IF part.form = "*" THEN Bounds[k][1] ELSE part.lo
             end == IF part.form = "*" \/ (part.form = "value" /\ part.step # 0)
                    THEN Bounds[k][2] ELSE part.hi
             step == IF part.step = 0 THEN 1 ELSE part.step
  <2>1. part \in Parts
    OBVIOUS
  <2>2. part.lo \in Nat /\ part.hi \in Nat /\ part.step \in Nat
    BY <2>1 DEF Parts
  <2>3. start \in Nat /\ end \in Nat
    BY <2>2, BoundsFacts
  <2>4. PartMatches(part, v, k) <=> start <= v /\ v <= end /\ (part.step # 0 => (v - start) % part.step = 0)
    BY DEF PartMatches
  <2>5. (v - start) % step = 0 <=> (part.step # 0 => (v - start) % part.step = 0)
    <3>1. CASE part.step = 0
      <4>1. step = 1 /\ (v - start) % 1 = 0
        BY <2>3, <3>1
      <4> QED
        BY <3>1, <4>1
    <3>2. CASE part.step # 0
      BY <3>2
    <3> QED
      BY <3>1, <3>2
  <2> HIDE DEF start, end, step, part
  <2>6. v \in {u \in start..end : (u - start) % step = 0} <=> start <= v /\ v <= end /\ (v - start) % step = 0
    BY <2>3
  <2>7. v \in {u \in start..end : (u - start) % step = 0} <=> PartMatches(part, v, k)
    BY <2>4, <2>5, <2>6
  <2> QED
    BY <2>7 DEF start, end, step, part
<1> QED
  BY <1>1 DEF CalendarField

(* An absent key agrees with every minute, as a star does. *)
LEMMA StarMatches ==
  ASSUME NEW t \in Nat, NEW k \in 1..5
  PROVE  FieldMatches(Star, Instant(t)[k], k)
<1>1. 1 \in DOMAIN Star /\ Star[1] = [form |-> "*", lo |-> 0, hi |-> 0, step |-> 0]
  BY DEF Star, AnyValue
<1>2. PartMatches(Star[1], Instant(t)[k], k)
  BY <1>1, InstantFacts DEF PartMatches
<1> QED
  BY <1>1, <1>2 DEF FieldMatches


(* What the two daemons make of a crontab line. *)

LEMMA CronOfCrontab ==
  ASSUME job.schedule.kind = "cron", NEW t
  PROVE  FiredByCron(t) <=> CronFires(job.schedule.fields, t)
<1>1. CronScheduleErrors({job.schedule}) = {}
  BY DEF CronScheduleErrors, CronIncompatible
<1>2. RenderCron(job.schedule) = job.schedule.fields
  BY DEF RenderCron
<1> QED
  BY <1>1, <1>2 DEF FiredByCron

Given(fields) == {k \in 1..5 : fields[k] # Star}
Listed(fields) == [k \in Given(fields) |-> CalendarField(fields[k], k)]

LEMMA LaunchdOfCrontab ==
  ASSUME NEW s, s.kind = "cron"
  PROVE  LET r == RenderLaunchd(s) IN
         /\ MinuteStep(s.fields) =>
              r = [raises |-> FALSE, interval |-> s.fields[1][1].step * 60, calendar |-> <<>>]
         /\ ~MinuteStep(s.fields) /\ Given(s.fields) = {} =>
              r = [raises |-> FALSE, interval |-> 60, calendar |-> <<>>]
         /\ ~MinuteStep(s.fields) /\ Given(s.fields) # {} =>
              /\ (\E k \in Given(s.fields) : FieldRaises(s.fields[k])) =>
                   r = [raises |-> TRUE, interval |-> 0, calendar |-> <<>>]
              /\ (\A k \in Given(s.fields) : ~FieldRaises(s.fields[k])) =>
                   r = [raises |-> FALSE, interval |-> 0, calendar |-> Listed(s.fields)]
<1>1. MinuteStep(s.fields) => Given(s.fields) # {}
  <2>1. ASSUME MinuteStep(s.fields) PROVE s.fields[1] # Star
    BY <2>1 DEF MinuteStep, Star, AnyValue
  <2> QED
    BY <2>1 DEF Given
<1>2. CASE MinuteStep(s.fields)
  BY <1>1, <1>2 DEF RenderLaunchd, Given
<1>3. CASE ~MinuteStep(s.fields) /\ Given(s.fields) = {}
  BY <1>3 DEF RenderLaunchd, Given
<1>4. CASE ~MinuteStep(s.fields) /\ Given(s.fields) # {}
  BY <1>4 DEF RenderLaunchd, Given, Listed
<1> QED
  BY <1>2, <1>3, <1>4

(* A raise is put down to a name or to a bare star among other parts. *)
LEMMA RaiseHasACause ==
  ASSUME NEW field \in Seq(Parts), FieldRaises(field)
  PROVE  \E part \in Range(field) : part.form = "name" \/ part = AnyValue
<1>1. PICK i \in DOMAIN field : field[i].form = "name" \/ (field[i].form = "*" /\ field[i].step = 0)
  BY DEF FieldRaises
<1>2. field[i] \in Range(field) /\ field[i] \in Parts
  BY DEF Range
<1>3. ASSUME field[i].form = "*", field[i].step = 0 PROVE field[i] = AnyValue
  <2>1. PICK f, a, b, n : field[i] = [form |-> f, lo |-> a, hi |-> b, step |-> n]
    BY <1>2 DEF Parts
  <2>2. field[i].lo = 0 /\ field[i].hi = 0
    BY <1>2, <1>3 DEF Parts
  <2> QED
    BY <1>3, <2>1, <2>2 DEF AnyValue
<1> QED
  BY <1>1, <1>2, <1>3

(* An interval that stands for a step of minutes that divides the hour. *)
LEMMA DividesTheHour ==
  ASSUME NEW n \in Nat \ {0}, 3600 % (n * 60) = 0
  PROVE  n \in {1, 2, 3, 4, 5, 6, 10, 12, 15, 20, 30, 60}
<1>1. CASE n > 60
  <2>1. n * 60 > 3600
    BY <1>1
  <2>2. 3600 % (n * 60) = 3600
    <3> DEFINE m == n * 60
    <3>1. m \in Nat /\ m > 3600
      BY <2>1
    <3> HIDE DEF m
    <3>2. 3600 % m = 3600
      BY <3>1
    <3> QED
      BY <3>2 DEF m
  <2> QED
    BY <2>2
<1>2. CASE n <= 60
  <2>1. n \in 1 .. 60
    BY <1>2
  <2> QED
    BY <2>1
<1> QED
  BY <1>1, <1>2

LEMMA SameMinutes ==
  ASSUME NEW n \in {1, 2, 3, 4, 5, 6, 10, 12, 15, 20, 30, 60}, NEW t \in Nat
  PROVE  (t * 60) % (n * 60) = 0 <=> (t % 60) % n = 0
<1>1. CASE n \in {1, 2, 3, 4}
  BY <1>1
<1>2. CASE n \in {5, 6, 10, 12}
  BY <1>2
<1>3. CASE n \in {15, 20, 30, 60}
  BY <1>3
<1> QED
  BY <1>1, <1>2, <1>3


-----------------------------------------------------------------------------
(* Crontab lines on launchd. *)

(* The keys of launchd's dictionaries agree with a minute just where cron's   *)
(* fields match it.                                                           *)
Agrees(r, v, k) ==
  k \in DOMAIN r.calendar => v \in r.calendar[k] \/ (k = 5 /\ v = 0 /\ 7 \in r.calendar[k])

LEMMA KeysAgree ==
  ASSUME NEW fields \in Crontabs, NEW t \in Nat, NEW k \in 1..5, NEW r, r.calendar = Listed(fields),
         \A g \in Given(fields) : ~FieldRaises(fields[g])
  PROVE  Agrees(r, Instant(t)[k], k) <=> FieldMatches(fields[k], Instant(t)[k], k)
<1> DEFINE v == Instant(t)[k]
<1>1. v \in Nat /\ fields[k] \in Seq(Parts)
  BY InstantFacts DEF Crontabs
<1> HIDE DEF v
<1>2. DOMAIN r.calendar = Given(fields)
  BY DEF Listed
<1>3. CASE k \in Given(fields)
  <2>1. r.calendar[k] = CalendarField(fields[k], k) /\ ~FieldRaises(fields[k])
    BY <1>3 DEF Listed
  <2>2. v \in r.calendar[k] <=> \E i \in DOMAIN fields[k] : PartMatches(fields[k][i], v, k)
    BY <1>1, <2>1, ListIsMatched
  <2>3. 7 \in r.calendar[k] <=> \E i \in DOMAIN fields[k] : PartMatches(fields[k][i], 7, k)
    BY <1>1, <2>1, ListIsMatched
  <2>4. Agrees(r, v, k) <=> FieldMatches(fields[k], v, k)
    BY <1>2, <1>3, <2>2, <2>3 DEF Agrees, FieldMatches
  <2> QED
    BY <2>4 DEF v
<1>4. CASE k \notin Given(fields)
  <2>1. fields[k] = Star
    BY <1>4 DEF Given
  <2> QED
    BY <1>2, <1>4, <2>1, StarMatches DEF Agrees
<1> QED
  BY <1>3, <1>4

LEMMA CronFiresWhen ==
  ASSUME NEW fields, NEW t
  PROVE  CronFires(fields, t) <=>
           /\ FieldMatches(fields[1], Instant(t)[1], 1) /\ FieldMatches(fields[2], Instant(t)[2], 2)
           /\ FieldMatches(fields[4], Instant(t)[4], 4)
           /\ DayAgrees(FieldMatches(fields[3], Instant(t)[3], 3), FieldMatches(fields[5], Instant(t)[5], 5),
                        fields[3][1].form # "*", fields[5][1].form # "*")
BY DEF CronFires

LEMMA LaunchdFiresWhen ==
  ASSUME NEW r, NEW t
  PROVE  /\ r.interval # 0 => (LaunchdFires(r, t) <=> t > 0 /\ (t * 60) % r.interval = 0)
         /\ r.interval = 0 =>
              (LaunchdFires(r, t) <=>
                 /\ Agrees(r, Instant(t)[1], 1) /\ Agrees(r, Instant(t)[2], 2) /\ Agrees(r, Instant(t)[4], 4)
                 /\ DayAgrees(Agrees(r, Instant(t)[3], 3), Agrees(r, Instant(t)[5], 5),
                              3 \in DOMAIN r.calendar, 5 \in DOMAIN r.calendar))
BY DEF LaunchdFires, Agrees

(* "*/N * * * *" on launchd is the interval of N minutes. *)
LEMMA StepsAgree ==
  ASSUME NEW fields \in Crontabs, MinuteStep(fields), NEW t \in Nat, t # 0,
         3600 % (fields[1][1].step * 60) = 0, NEW r, r.interval = fields[1][1].step * 60
  PROVE  r.interval # 0 /\ (LaunchdFires(r, t) <=> CronFires(fields, t))
<1> DEFINE n == fields[1][1].step
           part == fields[1][1]
<1>1. fields[1] \in Seq(Parts) /\ Len(fields[1]) = 1 /\ part.form = "*" /\ n # 0
  BY DEF Crontabs, MinuteStep
<1>2. DOMAIN fields[1] = {1} /\ part \in Parts
  BY <1>1
<1>3. n \in Nat \ {0}
  BY <1>1, <1>2 DEF Parts
<1>4. n \in {1, 2, 3, 4, 5, 6, 10, 12, 15, 20, 30, 60}
  BY <1>3, DividesTheHour
<1>5. fields[2] = Star /\ fields[3] = Star /\ fields[4] = Star /\ fields[5] = Star
  BY DEF MinuteStep
<1>6. PartMatches(part, Instant(t)[1], 1) <=> (t % 60) % n = 0
  <2>1. Instant(t)[1] = t % 60 /\ t % 60 \in 0 .. 59 /\ Bounds[1] = <<0, 59>>
    <3>1. Instant(t)[1] = t % 60
      BY InstantFacts
    <3>2. t % 60 \in 0 .. 59
      OBVIOUS
    <3> QED
      BY <3>1, <3>2, BoundsFacts
  <2>2. PartMatches(part, Instant(t)[1], 1) <=> (0 <= t % 60 /\ t % 60 <= 59 /\ ((t % 60) - 0) % n = 0)
    BY <1>1, <2>1 DEF PartMatches
  <2>3. (t % 60) - 0 = t % 60 /\ 0 <= t % 60 /\ t % 60 <= 59
    BY <2>1
  <2> QED
    BY <2>2, <2>3
<1>7. FieldMatches(fields[1], Instant(t)[1], 1) <=> (t % 60) % n = 0
  BY <1>2, <1>6 DEF FieldMatches
<1>8. CronFires(fields, t) <=> (t % 60) % n = 0
  BY <1>5, <1>7, CronFiresWhen, StarMatches DEF DayAgrees
<1>9. r.interval # 0 /\ r.interval = n * 60
  BY <1>4
<1> HIDE DEF n
<1>10. LaunchdFires(r, t) <=> (t * 60) % (n * 60) = 0
  BY <1>9, LaunchdFiresWhen
<1>11. (t * 60) % (n * 60) = 0 <=> (t % 60) % n = 0
  BY <1>4, SameMinutes
<1> QED
  BY <1>8, <1>9, <1>10, <1>11

(* A line whose every field is given to launchd as a list, or not at all. *)
LEMMA ListsAgree ==
  ASSUME NEW fields \in Crontabs, NEW t \in Nat, NEW r, r.interval = 0, r.calendar = Listed(fields),
         \A g \in Given(fields) : ~FieldRaises(fields[g])
  PROVE  \/ LaunchdFires(r, t) <=> CronFires(fields, t)
         \/ /\ fields[3] # Star /\ fields[5] # Star
            /\ SteppedStar(fields[3]) \/ SteppedStar(fields[5])
            /\ CronFires(fields, t) => LaunchdFires(r, t)
<1> DEFINE Fits(k) == FieldMatches(fields[k], Instant(t)[k], k)
           Key(k) == fields[k] # Star
           Day(k) == fields[k][1].form # "*"
<1>1. \A k \in 1..5 : Agrees(r, Instant(t)[k], k) <=> Fits(k)
  BY KeysAgree
<1>2. \A k \in {3, 5} : k \in DOMAIN r.calendar <=> Key(k)
  BY DEF Listed, Given
<1>3. \A k \in {3, 5} : ~Key(k) => Fits(k) /\ ~Day(k)
  BY StarMatches DEF Star, AnyValue
<1>4. \A k \in {3, 5} : Key(k) => Day(k) \/ SteppedStar(fields[k])
  BY DEF SteppedStar
<1>5. LaunchdFires(r, t) <=> Fits(1) /\ Fits(2) /\ Fits(4) /\ DayAgrees(Fits(3), Fits(5), Key(3), Key(5))
  BY <1>1, <1>2, LaunchdFiresWhen DEF DayAgrees
<1>6. CronFires(fields, t) <=> Fits(1) /\ Fits(2) /\ Fits(4) /\ DayAgrees(Fits(3), Fits(5), Day(3), Day(5))
  BY CronFiresWhen
<1>7. (Key(3) => Day(3)) /\ (Key(5) => Day(5)) => (LaunchdFires(r, t) <=> CronFires(fields, t))
  BY <1>3, <1>5, <1>6 DEF DayAgrees
<1>8. ~(Key(3) /\ Key(5)) => (LaunchdFires(r, t) <=> CronFires(fields, t))
  BY <1>3, <1>5, <1>6 DEF DayAgrees
<1>9. Key(3) /\ Key(5) => (CronFires(fields, t) => LaunchdFires(r, t))
  BY <1>5, <1>6 DEF DayAgrees
<1> QED
  BY <1>4, <1>7, <1>8, <1>9

Timed == job \in Jobs /\ now \in Nat

LEMMA FaithfulAt == Timed => CalendarIsFaithful
<1> SUFFICES ASSUME Timed, job.schedule.kind = "cron" PROVE CalendarIsFaithful
  BY DEF CalendarIsFaithful
<1> DEFINE s == job.schedule
           r == RenderLaunchd(s)
           fields == s.fields
<1>1. fields \in Crontabs /\ now \in Nat
  BY JobsAssumption DEF Timed
<1>2. FiredByCron(now) <=> CronFires(fields, now)
  BY CronOfCrontab
<1>3. ~r.raises => (FiredByLaunchd(now) <=> LaunchdFires(r, now))
  BY DEF FiredByLaunchd
<1>4. CASE MinuteStep(fields)
  <2>1. ~r.raises /\ r.interval = fields[1][1].step * 60
    BY <1>4, LaunchdOfCrontab
  <2>2. r.interval # 0
    <3>1. fields[1][1] \in Parts /\ fields[1][1].step # 0
      BY <1>1, <1>4 DEF Crontabs, MinuteStep
    <3>2. fields[1][1].step \in Nat
      BY <3>1 DEF Parts
    <3> QED
      BY <2>1, <3>1, <3>2
  <2>3. now # 0 /\ 3600 % r.interval = 0 => (LaunchdFires(r, now) <=> CronFires(fields, now))
    BY <1>1, <1>4, <2>1, StepsAgree
  <2> QED
    BY <1>2, <1>3, <2>1, <2>2, <2>3 DEF CalendarIsFaithful
<1>5. CASE ~MinuteStep(fields) /\ Given(fields) = {}
  <2>1. ~r.raises /\ r.interval = 60
    BY <1>5, LaunchdOfCrontab
  <2>2. \A k \in 1..5 : fields[k] = Star
    BY <1>5 DEF Given
  <2>3. CronFires(fields, now)
    BY <1>1, <2>2, CronFiresWhen, StarMatches DEF DayAgrees
  <2>4. now # 0 => LaunchdFires(r, now)
    <3>1. now # 0 => now > 0 /\ (now * 60) % 60 = 0
      BY <1>1
    <3> QED
      BY <2>1, <3>1, LaunchdFiresWhen
  <2> QED
    BY <1>2, <1>3, <2>1, <2>3, <2>4 DEF CalendarIsFaithful
<1>6. CASE ~MinuteStep(fields) /\ Given(fields) # {} /\ \E k \in Given(fields) : FieldRaises(fields[k])
  <2>1. r.raises
    BY <1>6, LaunchdOfCrontab
  <2>2. PICK k \in Given(fields) : FieldRaises(fields[k])
    BY <1>6
  <2>3. k \in 1..5 /\ fields[k] # Star /\ fields[k] \in Seq(Parts)
    BY <1>1 DEF Given, Crontabs
  <2>4. \E part \in Range(fields[k]) : part.form = "name" \/ part = AnyValue
    BY <2>2, <2>3, RaiseHasACause
  <2> QED
    BY <2>1, <2>3, <2>4 DEF CalendarIsFaithful
<1>7. CASE ~MinuteStep(fields) /\ Given(fields) # {} /\ \A k \in Given(fields) : ~FieldRaises(fields[k])
  <2>1. ~r.raises /\ r.interval = 0 /\ r.calendar = Listed(fields)
    <3>1. r = [raises |-> FALSE, interval |-> 0, calendar |-> Listed(fields)]
      BY <1>7, LaunchdOfCrontab
    <3> HIDE DEF r
    <3> QED
      BY <3>1
  <2>2. \/ LaunchdFires(r, now) <=> CronFires(fields, now)
        \/ /\ fields[3] # Star /\ fields[5] # Star
           /\ SteppedStar(fields[3]) \/ SteppedStar(fields[5])
           /\ CronFires(fields, now) => LaunchdFires(r, now)
    BY <1>1, <1>7, <2>1, ListsAgree
  <2> QED
    BY <1>2, <1>3, <2>1, <2>2 DEF CalendarIsFaithful
<1> QED
  BY <1>4, <1>5, <1>6, <1>7

(* Whatever the crontab line and the minute, launchd fires just when cron     *)
(* does, but for the causes CalendarIsFaithful names (render_launchd_schedule *)
(* of adapters/launchd.py).                                                   *)
THEOREM CalendarsAreFaithful == TimesSpec => []CalendarIsFaithful
<1>1. TimesInit => Timed
  BY DEF TimesInit, Timed
<1>2. Timed /\ [Tick]_timesVars => Timed'
  <2> SUFFICES ASSUME Timed, [Tick]_timesVars PROVE Timed'
    OBVIOUS
  <2>1. CASE Tick
    <3>1. job.quantum \in Nat
      BY JobsAssumption DEF Timed
    <3> QED
      BY <2>1, <3>1 DEF Tick, Timed
  <2>2. CASE UNCHANGED timesVars
    BY <2>2 DEF timesVars, Timed
  <2> QED
    BY <2>1, <2>2
<1> QED
  BY <1>1, <1>2, FaithfulAt, PTL DEF TimesSpec

-----------------------------------------------------------------------------
(* Periods: what is left of a multiple after whole periods.                  *)

Multiple(x, q) == \E k \in Nat : x = q * k

LEMMA Multiply ==
  ASSUME NEW a \in Nat, NEW i \in Int, NEW j \in Int, i <= j
  PROVE  a * i <= a * j
<1>1. a * (j - i) >= 0
  <2>1. j - i \in Nat
    OBVIOUS
  <2> QED
    BY <2>1
<1>2. a * (j - i) = a * j - a * i
  OBVIOUS
<1> QED
  BY <1>1, <1>2

LEMMA ModFacts ==
  ASSUME NEW a \in Nat \ {0}, NEW x \in Nat
  PROVE  /\ x % a \in 0..(a - 1)
         /\ \E k \in Nat : x = a * k + (x % a)
<1>1. x % a \in 0..(a - 1)
  OBVIOUS
<1>2. x \div a \in Nat /\ x = a * (x \div a) + (x % a)
  OBVIOUS
<1> QED
  BY <1>1, <1>2

LEMMA ModUnique ==
  ASSUME NEW a \in Nat \ {0}, NEW k \in Nat, NEW r \in 0..(a - 1)
  PROVE  (a * k + r) % a = r
<1> DEFINE x == a * k + r
           s == x % a
<1>1. x \in Nat
  OBVIOUS
<1>2. PICK l \in Nat : x = a * l + s
  BY <1>1, ModFacts
<1>3. s \in 0..(a - 1)
  BY <1>1, ModFacts
<1>4. a * k + r = a * l + s
  BY <1>2
<1> HIDE DEF x, s
<1>5. ~(k + 1 <= l)
  <2>1. SUFFICES ASSUME k + 1 <= l PROVE FALSE
    OBVIOUS
  <2>2. a * (k + 1) <= a * l
    BY <2>1, Multiply
  <2>3. a * (k + 1) = a * k + a
    OBVIOUS
  <2> DEFINE u == a * k
             v == a * l
  <2>4. u \in Int /\ v \in Int /\ u + a <= v /\ u + r = v + s
    BY <1>4, <2>2, <2>3
  <2> HIDE DEF u, v
  <2> QED
    BY <1>3, <2>4
<1>6. ~(l + 1 <= k)
  <2>1. SUFFICES ASSUME l + 1 <= k PROVE FALSE
    OBVIOUS
  <2>2. a * (l + 1) <= a * k
    BY <2>1, Multiply
  <2>3. a * (l + 1) = a * l + a
    OBVIOUS
  <2> DEFINE u == a * k
             v == a * l
  <2>4. u \in Int /\ v \in Int /\ v + a <= u /\ u + r = v + s
    BY <1>4, <2>2, <2>3
  <2> HIDE DEF u, v
  <2> QED
    BY <1>3, <2>4
<1>7. k = l
  BY <1>5, <1>6
<1>8. s = r
  <2> DEFINE u == a * k
  <2>1. u \in Int /\ u + r = u + s
    BY <1>4, <1>7
  <2> HIDE DEF u
  <2> QED
    BY <1>3, <2>1
<1> QED
  BY <1>8 DEF s, x

LEMMA MultipleFacts ==
  ASSUME NEW q \in Nat \ {0}, NEW x \in Nat, NEW y \in Nat, Multiple(x, q), Multiple(y, q)
  PROVE  /\ Multiple(x + y, q)
         /\ \A k \in Nat : Multiple(x * k, q)
         /\ y <= x => Multiple(x - y, q)
         /\ x < y => x + q <= y
<1>1. PICK i \in Nat : x = q * i
  BY DEF Multiple
<1>2. PICK j \in Nat : y = q * j
  BY DEF Multiple
<1>3. Multiple(x + y, q)
  <2>1. i + j \in Nat /\ x + y = q * (i + j)
    BY <1>1, <1>2
  <2> QED
    BY <2>1 DEF Multiple
<1>4. ASSUME NEW k \in Nat PROVE Multiple(x * k, q)
  <2>1. i * k \in Nat /\ x * k = q * (i * k)
    BY <1>1
  <2> QED
    BY <2>1 DEF Multiple
<1>5. ASSUME y <= x PROVE Multiple(x - y, q)
  <2>1. i - j \in Nat
    <3>1. SUFFICES ASSUME i + 1 <= j PROVE FALSE
      OBVIOUS
    <3>2. q * (i + 1) <= q * j
      BY <3>1, Multiply
    <3>3. q * (i + 1) = q * i + q
      OBVIOUS
    <3> QED
      BY <1>1, <1>2, <1>5, <3>2, <3>3
  <2>2. x - y = q * (i - j)
    BY <1>1, <1>2
  <2> QED
    BY <2>1, <2>2 DEF Multiple
<1>6. ASSUME x < y PROVE x + q <= y
  <2>1. i + 1 <= j
    <3>1. SUFFICES ASSUME j <= i PROVE FALSE
      OBVIOUS
    <3>2. q * j <= q * i
      BY <3>1, Multiply
    <3> QED
      BY <1>1, <1>2, <1>6, <3>2
  <2>2. q * (i + 1) <= q * j
    BY <2>1, Multiply
  <2>3. q * (i + 1) = q * i + q
    OBVIOUS
  <2> QED
    BY <1>1, <1>2, <2>2, <2>3
<1> QED
  BY <1>3, <1>4, <1>5, <1>6

(* A period of p, looked at every q minutes: the time since it began grows by *)
(* q until p is reached and it begins anew.                                  *)
LEMMA Wheel ==
  ASSUME NEW q \in Nat \ {0}, NEW p \in Nat \ {0}, NEW t \in Nat, Multiple(p, q), Multiple(t, q)
  PROVE  /\ t % p \in Nat /\ Multiple(t % p, q)
         /\ (t % p) + q <= p
         /\ (t % p) + q < p => (t + q) % p = (t % p) + q
         /\ (t % p) + q = p => (t + q) % p = 0
<1>1. t % p \in 0..(p - 1)
  BY ModFacts
<1>2. PICK k \in Nat : t = p * k + (t % p)
  BY ModFacts
<1> DEFINE r == t % p
           b == p * k
<1>3. b \in Nat /\ r \in Nat /\ r < p /\ t = b + r
  BY <1>1, <1>2
<1>4. Multiple(b, q)
  BY MultipleFacts
<1>5. (b + (r + q)) % p = r + q \/ ~(r + q < p)
  <2>1. r + q < p => r + q \in 0..(p - 1)
    BY <1>3
  <2> QED
    BY <2>1, ModUnique
<1>6. (p * (k + 1) + 0) % p = 0
  <2>1. k + 1 \in Nat /\ 0 \in 0..(p - 1)
    OBVIOUS
  <2> HIDE DEF b, r
  <2> QED
    BY <2>1, ModUnique
<1>7. p * (k + 1) + 0 = b + p
  BY <1>3
<1> HIDE DEF b, r
<1>8. Multiple(r, q)
  <2>1. b <= t /\ t - b = r
    BY <1>3
  <2>2. Multiple(t - b, q)
    BY <1>3, <1>4, <2>1, MultipleFacts
  <2> QED
    BY <2>1, <2>2
<1>9. r + q <= p
  BY <1>3, <1>8, MultipleFacts
<1>10. t + q = b + (r + q) /\ (r + q = p => t + q = b + p)
  BY <1>3
<1>11. r + q < p => (t + q) % p = r + q
  BY <1>5, <1>10
<1>12. r + q = p => (t + q) % p = 0
  BY <1>6, <1>7, <1>10
<1> QED
  BY <1>3, <1>8, <1>9, <1>11, <1>12 DEF r

-----------------------------------------------------------------------------
(* The days of the calendar, one after the other.                            *)

Within(e, m) == DaysBefore[m] <= e /\ e < DaysBefore[m] + MonthLens[m]
MonthOf(e) == CHOOSE m \in DOMAIN MonthLens : Within(e, m)

LEMMA MonthFacts ==
  ASSUME NEW e \in 0..(Year - 1)
  PROVE  /\ MonthOf(e) \in DOMAIN MonthLens /\ Within(e, MonthOf(e))
         /\ \A m \in DOMAIN MonthLens : Within(e, m) => m = MonthOf(e)
<1> DEFINE D == DaysBefore
           len == Len(MonthLens)
<1>1. PICK n \in 1..12 :
    /\ n = len /\ DOMAIN MonthLens = 1..n
    /\ D[1] = 0 /\ Year = D[n + 1]
    /\ \A m \in 1..n : MonthLens[m] \in 1..31 /\ D[m + 1] = D[m] + MonthLens[m]
    /\ \A m \in 1..(n + 1) : D[m] \in Nat /\ (m > 1 => D[m] > 0)
  BY DaysFacts
<1>2. MonthOf(e) \in DOMAIN MonthLens /\ Within(e, MonthOf(e))
  <2>1. \E m \in DOMAIN MonthLens : Within(e, m)
    BY CalendarFacts DEF Within
  <2> QED
    BY <2>1 DEF MonthOf
<1> HIDE DEF D, len
<1>3. ASSUME NEW i \in 1..(n + 1), NEW j \in 1..(n + 1), i <= j PROVE D[i] <= D[j]
  <2> DEFINE Bad == {k \in i..(n + 1) : ~(D[i] <= D[k])}
  <2>1. ASSUME Bad # {} PROVE FALSE
    <3>1. Bad \in SUBSET Nat
      OBVIOUS
    <3>2. PICK k \in Bad : \A l \in Bad : k <= l
      BY <2>1, <3>1, LeastFacts
    <3>3. k \in i..(n + 1) /\ k # i
      BY <1>1, <3>2
    <3>4. k - 1 \in i..(n + 1) /\ k - 1 \in 1..n /\ ~(k <= k - 1) /\ (k - 1) + 1 = k
      BY <3>3
    <3>5. D[i] <= D[k - 1]
      BY <3>2, <3>4
    <3>6. D[k] = D[k - 1] + MonthLens[k - 1] /\ MonthLens[k - 1] \in 1..31
      BY <1>1, <3>4
    <3>7. D[i] \in Nat /\ D[k - 1] \in Nat
      <4>1. k - 1 \in 1..(n + 1)
        BY <3>4
      <4> QED
        BY <1>1, <4>1
    <3> QED
      BY <3>2, <3>5, <3>6, <3>7
  <2> QED
    BY <2>1, <1>3
<1>4. ASSUME NEW i \in 1..n, NEW j \in 1..n, i < j, Within(e, i), Within(e, j) PROVE FALSE
  <2>1. i + 1 \in 1..(n + 1) /\ j \in 1..(n + 1) /\ i + 1 <= j
    BY <1>4
  <2>2. D[i + 1] <= D[j]
    BY <1>3, <2>1
  <2>3. e < D[i + 1] /\ D[j] <= e
    BY <1>1, <1>4 DEF Within, D
  <2>4. D[i + 1] \in Nat /\ D[j] \in Nat
    BY <1>1, <2>1
  <2> QED
    BY <2>2, <2>3, <2>4
<1>5. ASSUME NEW m \in DOMAIN MonthLens, Within(e, m) PROVE m = MonthOf(e)
  <2> DEFINE o == MonthOf(e)
  <2>1. m \in 1..n /\ o \in 1..n /\ Within(e, o)
    BY <1>1, <1>2
  <2> HIDE DEF o
  <2>2. ~(m < o) /\ ~(o < m)
    BY <1>4, <1>5, <2>1
  <2>3. m = o
    BY <2>1, <2>2
  <2> QED
    BY <2>3 DEF o
<1> QED
  BY <1>2, <1>5

DayOfMonth(e) == e - DaysBefore[MonthOf(e)] + 1

LEMMA DayFacts ==
  ASSUME NEW e \in 0..(Year - 1)
  PROVE  /\ DayOfMonth(e) \in 1..31
         /\ e + 1 < Year => DayOfMonth(e + 1) \in {DayOfMonth(e) + 1, 1}
         /\ DayOfMonth(0) = 1
<1> DEFINE D == DaysBefore
           len == Len(MonthLens)
           m == MonthOf(e)
<1>1. PICK n \in 1..12 :
    /\ n = len /\ DOMAIN MonthLens = 1..n
    /\ D[1] = 0 /\ Year = D[n + 1]
    /\ \A i \in 1..n : MonthLens[i] \in 1..31 /\ D[i + 1] = D[i] + MonthLens[i]
    /\ \A i \in 1..(n + 1) : D[i] \in Nat /\ (i > 1 => D[i] > 0)
  BY DaysFacts
<1>2. m \in 1..n /\ Within(e, m)
  BY <1>1, MonthFacts
<1>3. \A f \in 0..(Year - 1), i \in 1..n : Within(f, i) => DayOfMonth(f) = f - D[i] + 1
  <2> TAKE f \in 0..(Year - 1), i \in 1..n
  <2> HAVE Within(f, i)
  <2>1. i \in DOMAIN MonthLens
    BY <1>1
  <2>2. i = MonthOf(f)
    BY <2>1, MonthFacts
  <2> QED
    BY <2>2 DEF DayOfMonth
<1>4. \A f, i : Within(f, i) <=> D[i] <= f /\ f < D[i] + MonthLens[i]
  BY DEF Within
<1> HIDE DEF D, len, m
<1>5. Year \in Nat
  <2>1. n + 1 \in 1..(n + 1)
    OBVIOUS
  <2> QED
    BY <1>1, <2>1
<1>6. D[m] \in Nat /\ D[m + 1] \in Nat /\ MonthLens[m] \in 1..31 /\ D[m + 1] = D[m] + MonthLens[m]
  <2>1. m \in 1..(n + 1) /\ m + 1 \in 1..(n + 1)
    BY <1>2
  <2> QED
    BY <1>1, <1>2, <2>1
<1>7. DayOfMonth(e) = e - D[m] + 1 /\ D[m] <= e /\ e < D[m] + MonthLens[m]
  BY <1>2, <1>3, <1>4
<1>8. ASSUME e + 1 < Year PROVE DayOfMonth(e + 1) \in {DayOfMonth(e) + 1, 1}
  <2>1. e + 1 \in 0..(Year - 1)
    BY <1>5, <1>8
  <2>2. CASE e + 1 < D[m + 1]
    <3>1. Within(e + 1, m)
      BY <1>4, <1>6, <1>7, <2>2
    <3>2. DayOfMonth(e + 1) = (e + 1) - D[m] + 1
      BY <1>2, <1>3, <2>1, <3>1
    <3> QED
      BY <1>6, <1>7, <3>2
  <2>3. CASE e + 1 = D[m + 1]
    <3>1. m # n
      BY <1>1, <1>8, <2>3, <1>6
    <3>2. m + 1 \in 1..n
      BY <1>2, <3>1
    <3>3. Within(e + 1, m + 1)
      <4>1. MonthLens[m + 1] \in 1..31
        BY <1>1, <3>2
      <4> QED
        BY <1>4, <1>6, <2>3, <4>1
    <3>4. DayOfMonth(e + 1) = (e + 1) - D[m + 1] + 1
      BY <1>3, <2>1, <3>2, <3>3
    <3> QED
      BY <1>6, <2>3, <3>4
  <2> QED
    BY <1>6, <1>7, <2>2, <2>3
<1>9. DayOfMonth(0) = 1
  <2>1. 1 \in 1..n /\ 0 \in 0..(Year - 1)
    BY <1>5
  <2>2. Within(0, 1)
    <3>1. MonthLens[1] \in 1..31 /\ D[1] = 0
      BY <1>1, <2>1
    <3> QED
      BY <1>4, <3>1
  <2>3. DayOfMonth(0) = 0 - D[1] + 1 /\ D[1] = 0
    BY <1>1, <1>3, <2>1, <2>2
  <2> QED
    BY <2>3
<1>10. DayOfMonth(e) \in 1..31
  BY <1>6, <1>7
<1> QED
  BY <1>8, <1>9, <1>10

(* The values of a minute, one by one. *)
MinuteOf(t)  == t % 60
HourOf(t)    == (t \div 60) % 24
DayOf(t)     == DayOfMonth((t \div 1440) % Year)
WeekdayOf(t) == (t \div 1440) % 7

LEMMA InstantValues ==
  ASSUME NEW t \in Nat
  PROVE  /\ Instant(t)[1] = MinuteOf(t) /\ Instant(t)[2] = HourOf(t)
         /\ Instant(t)[3] = DayOf(t) /\ Instant(t)[5] = WeekdayOf(t)
<1> DEFINE e == (t \div 1440) % Year
           m == MonthOf(e)
<1>1. Instant(t) = <<MinuteOf(t), HourOf(t), e - DaysBefore[m] + 1, m, WeekdayOf(t)>>
  BY DEF Instant, MonthOf, Within, MinuteOf, HourOf, WeekdayOf
<1>2. DayOf(t) = e - DaysBefore[m] + 1
  BY DEF DayOfMonth, DayOf
<1> HIDE DEF e, m
<1> QED
  BY <1>1, <1>2

-----------------------------------------------------------------------------
(* A schedule that says every so often: how long ago it was due last.        *)

(* From x minutes after one fire of a period of p to the next instant: y is 0 *)
(* at a fire, and the fires are no further apart than p, or just p apart.    *)
Steps(x, y, p, q) == x \in Nat /\ x + q <= p /\ (y = 0 \/ (y = x + q /\ y < p))
Exact(x, y, p, q) == y = 0 => x + q = p

LEMMA TurningWheel ==
  ASSUME NEW q \in Nat \ {0}, NEW p \in Nat \ {0}, NEW u \in Nat \ {0}, NEW t \in Nat,
         Multiple(p, q), Multiple(u, q), Multiple(t, q)
  PROVE  /\ Steps((t % u) % p, ((t + q) % u) % p, p, q)
         /\ u % p = 0 => Exact((t % u) % p, ((t + q) % u) % p, p, q)
<1> DEFINE r == t % u
           v == (t + q) % u
           x == r % p
           y == v % p
<1>1. r \in Nat /\ Multiple(r, q) /\ r + q <= u /\ (r + q < u => v = r + q) /\ (r + q = u => v = 0)
  BY Wheel
<1> HIDE DEF r, v
<1>2. x \in Nat /\ x + q <= p /\ (x + q < p => (r + q) % p = x + q) /\ (x + q = p => (r + q) % p = 0)
  BY <1>1, Wheel
<1>3. r + q < u \/ r + q = u
  BY <1>1
<1>4. x + q < p \/ x + q = p
  BY <1>2
<1>5. 0 % p = 0
  <2>1. (p * 0 + 0) % p = 0
    <3>1. 0 \in 0..(p - 1)
      OBVIOUS
    <3> QED
      BY <3>1, ModUnique
  <2> QED
    BY <2>1
<1>6. CASE r + q < u
  <2>1. y = (r + q) % p
    BY <1>1, <1>6
  <2> HIDE DEF x, y
  <2>2. Steps(x, y, p, q) /\ (u % p = 0 => Exact(x, y, p, q))
    BY <1>2, <1>4, <2>1 DEF Steps, Exact
  <2> QED
    BY <2>2 DEF x, y, r, v
<1>7. CASE r + q = u
  <2>1. y = 0 /\ u % p = (r + q) % p
    BY <1>1, <1>5, <1>7
  <2> HIDE DEF x, y
  <2>2. Steps(x, y, p, q) /\ (u % p = 0 => Exact(x, y, p, q))
    BY <1>2, <1>4, <2>1 DEF Steps, Exact
  <2> QED
    BY <2>2 DEF x, y, r, v
<1> QED
  BY <1>3, <1>6, <1>7

LEMMA Scaled ==
  ASSUME NEW c \in Nat \ {0}, NEW a \in Nat \ {0}, NEW x \in Nat, NEW m \in 0..(c - 1)
  PROVE  (c * x + m) % (c * a) = c * (x % a) + m
<1> DEFINE r == x % a
<1>1. r \in 0..(a - 1)
  BY ModFacts
<1>2. PICK k \in Nat : x = a * k + r
  BY ModFacts
<1> HIDE DEF r
<1>3. c * r + m \in 0..(c * a - 1)
  <2>1. c * (r + 1) <= c * a
    <3>1. r + 1 <= a
      BY <1>1
    <3> QED
      BY <1>1, <3>1, Multiply
  <2>2. c * (r + 1) = c * r + c
    BY <1>1
  <2>3. c * r \in Nat /\ c * a \in Nat
    BY <1>1
  <2> DEFINE u == c * r
             v == c * a
  <2>4. u \in Nat /\ v \in Nat /\ u + c <= v
    BY <2>1, <2>2, <2>3
  <2> HIDE DEF u, v
  <2>5. u + m \in 0..(v - 1)
    BY <2>4
  <2> QED
    BY <2>5 DEF u, v
<1>4. c * x + m = (c * a) * k + (c * r + m)
  <2>1. c * (a * k + r) = (c * a) * k + c * r
    BY <1>1, <1>2
  <2> QED
    BY <1>1, <1>2, <2>1
<1>5. c * a \in Nat \ {0}
  OBVIOUS
<1>6. ((c * a) * k + (c * r + m)) % (c * a) = c * r + m
  BY <1>3, <1>5, ModUnique
<1> QED
  BY <1>4, <1>6 DEF r

LEMMA ZeroOfSum ==
  ASSUME NEW c \in Nat \ {0}, NEW x \in Nat, NEW m \in Nat
  PROVE  c * x + m = 0 <=> x = 0 /\ m = 0
<1>1. ASSUME x # 0 PROVE c * x > 0
  BY <1>1
<1>2. c * x \in Nat
  OBVIOUS
<1>3. c * 0 = 0
  OBVIOUS
<1> QED
  BY <1>1, <1>2, <1>3

(* "*/N" of the hours, at minute 0. *)
LEMMA HourSteps ==
  ASSUME NEW a \in Nat \ {0}, NEW t \in Nat
  PROVE  (t % 1440) % (60 * a) = 0 <=> t % 60 = 0 /\ ((t \div 60) % 24) % a = 0
<1> DEFINE h == (t \div 60) % 24
           m == t % 60
<1>1. h \in Nat /\ m \in 0..59 /\ t % 1440 = 60 * h + m
  OBVIOUS
<1> HIDE DEF h, m
<1>2. (60 * h + m) % (60 * a) = 60 * (h % a) + m
  <2> DEFINE c == 60
  <2>1. c \in Nat \ {0} /\ m \in 0..(c - 1) /\ h \in Nat
    BY <1>1
  <2> HIDE DEF c
  <2>2. (c * h + m) % (c * a) = c * (h % a) + m
    BY <2>1, Scaled
  <2> QED
    BY <2>2 DEF c
<1>3. h % a \in Nat
  BY <1>1, ModFacts
<1>4. 60 * (h % a) + m = 0 <=> h % a = 0 /\ m = 0
  BY <1>1, <1>3, ZeroOfSum
<1>5. (t % 1440) % (60 * a) = 0 <=> m = 0 /\ h % a = 0
  BY <1>1, <1>2, <1>4
<1> QED
  BY <1>5 DEF h, m

(* What a stepped field and a lone 0 match. *)
LEMMA SteppedMatches ==
  ASSUME NEW a \in Nat \ {0}, NEW k \in 1..4, NEW v \in Nat, Bounds[k][1] <= v, v <= Bounds[k][2]
  PROVE  FieldMatches(<<Stepped(a)>>, v, k) <=> (v - Bounds[k][1]) % a = 0
<1> DEFINE field == <<Stepped(a)>>
<1>1. DOMAIN field = {1} /\ field[1] = [form |-> "*", lo |-> 0, hi |-> 0, step |-> a]
  BY DEF Stepped, AnyValue
<1> HIDE DEF field
<1>2. PartMatches(field[1], v, k) <=> (v - Bounds[k][1]) % a = 0
  BY <1>1 DEF PartMatches
<1>3. FieldMatches(field, v, k) <=> PartMatches(field[1], v, k)
  BY <1>1 DEF FieldMatches
<1> QED
  BY <1>2, <1>3 DEF field

LEMMA ZeroMatches ==
  ASSUME NEW k \in 1..5, NEW v \in Nat
  PROVE  FieldMatches(<<Only(0)>>, v, k) <=> v = 0
<1> DEFINE field == <<Only(0)>>
<1>1. DOMAIN field = {1} /\ field[1] = [form |-> "value", lo |-> 0, hi |-> 0, step |-> 0]
  BY DEF Only
<1> HIDE DEF field
<1>2. \A w \in Nat : PartMatches(field[1], w, k) <=> w = 0
  BY <1>1 DEF PartMatches
<1>3. FieldMatches(field, v, k) <=> v = 0
  BY <1>1, <1>2 DEF FieldMatches
<1> QED
  BY <1>3 DEF field

(* How long ago, in minutes, cron fired last for a schedule it can express.  *)
SinceCron(s, t) ==
  CASE s.unit = "m" -> (t % 60) % s.amount
    [] s.unit = "h" -> (t % 1440) % (60 * s.amount)
    [] s.unit = "d" -> 1440 * ((DayOf(t) - 1) % s.amount) + (t % 1440)
    [] OTHER -> (t % 10080) % 10080

Countable(s) ==
  /\ s.kind = "every" /\ s.amount \in Nat \ {0}
  /\ s.unit \in {"m", "h", "d"} \/ (s.unit = "w" /\ s.amount = 1)

LEMMA UnitFacts ==
  ASSUME NEW s, s.kind = "every", s.amount \in Nat \ {0}, s.unit \in DOMAIN Turn
  PROVE  /\ CronIncompatible(s) <=> RenderCron(s) = <<>>
         /\ CronIncompatible(s) <=> ~Countable(s)
         /\ Countable(s) =>
              EverySeconds(s) = 60 * (CASE s.unit = "m" -> s.amount
                                        [] s.unit = "h" -> 60 * s.amount
                                        [] s.unit = "d" -> 1440 * s.amount
                                        [] OTHER -> 10080)
<1>1. s.unit \in {"s", "m", "h", "d", "w"}
  BY DEF Turn
<1>2. CASE s.unit = "s"
  <2>1. RenderCron(s) = <<>>
    BY <1>2 DEF RenderCron
  <2> QED
    BY <1>2, <2>1 DEF CronIncompatible, Countable
<1>3. CASE s.unit = "m"
  <2>1. RenderCron(s) = <<<<Stepped(s.amount)>>, Star, Star, Star, Star>>
    BY <1>3 DEF RenderCron
  <2>2. EverySeconds(s) = 60 * s.amount
    BY <1>3 DEF EverySeconds
  <2> QED
    BY <1>3, <2>1, <2>2 DEF CronIncompatible, Countable
<1>4. CASE s.unit = "h"
  <2>1. RenderCron(s) = <<<<Only(0)>>, <<Stepped(s.amount)>>, Star, Star, Star>>
    BY <1>4 DEF RenderCron
  <2>2. EverySeconds(s) = 60 * (60 * s.amount)
    BY <1>4 DEF EverySeconds
  <2> QED
    BY <1>4, <2>1, <2>2 DEF CronIncompatible, Countable
<1>5. CASE s.unit = "d"
  <2>1. RenderCron(s) = <<<<Only(0)>>, <<Only(0)>>, <<Stepped(s.amount)>>, Star, Star>>
    BY <1>5 DEF RenderCron
  <2>2. EverySeconds(s) = 60 * (1440 * s.amount)
    BY <1>5 DEF EverySeconds
  <2> QED
    BY <1>5, <2>1, <2>2 DEF CronIncompatible, Countable
<1>6. CASE s.unit = "w" /\ s.amount = 1
  <2>1. RenderCron(s) = <<<<Only(0)>>, <<Only(0)>>, Star, Star, <<Only(0)>>>>
    BY <1>6 DEF RenderCron
  <2>2. EverySeconds(s) = 60 * 10080
    BY <1>6 DEF EverySeconds
  <2> QED
    BY <1>6, <2>1, <2>2 DEF CronIncompatible, Countable
<1>7. CASE s.unit = "w" /\ s.amount # 1
  <2>1. RenderCron(s) = <<>> /\ s.amount > 1
    BY <1>7 DEF RenderCron
  <2> QED
    BY <1>7, <2>1 DEF CronIncompatible, Countable
<1> QED
  BY <1>1, <1>2, <1>3, <1>4, <1>5, <1>6, <1>7

(* Cron fires just when it fired zero minutes ago. *)
LEMMA FiresAtZero ==
  ASSUME NEW s, Countable(s), s = job.schedule, NEW t \in Nat
  PROVE  FiredByCron(t) <=> SinceCron(s, t) = 0
<1> DEFINE fields == RenderCron(s)
           a == s.amount
           v == Instant(t)
<1>1. CronScheduleErrors({s}) = {}
  BY DEF CronScheduleErrors, CronIncompatible, Countable
<1>2. FiredByCron(t) <=> CronFires(fields, t)
  BY <1>1 DEF FiredByCron
<1>3. CronFires(fields, t) <=>
        /\ FieldMatches(fields[1], v[1], 1) /\ FieldMatches(fields[2], v[2], 2)
        /\ FieldMatches(fields[4], v[4], 4)
        /\ DayAgrees(FieldMatches(fields[3], v[3], 3), FieldMatches(fields[5], v[5], 5),
                     fields[3][1].form # "*", fields[5][1].form # "*")
  BY CronFiresWhen
<1>4. \A k \in 1..5 : FieldMatches(Star, v[k], k)
  BY StarMatches
<1>5. a \in Nat \ {0}
  BY DEF Countable
<1>6. \A k \in 1..5 : v[k] \in Nat /\ Bounds[k][1] <= v[k] /\ v[k] <= Bounds[k][2]
  BY InstantFacts
<1>7. v[1] = MinuteOf(t) /\ v[2] = HourOf(t) /\ v[3] = DayOf(t) /\ v[5] = WeekdayOf(t)
  BY InstantValues
<1>8. \A k \in 1..4 : FieldMatches(<<Stepped(a)>>, v[k], k) <=> (v[k] - Bounds[k][1]) % a = 0
  BY <1>5, <1>6, SteppedMatches
<1>9. \A k \in 1..5 : FieldMatches(<<Only(0)>>, v[k], k) <=> v[k] = 0
  BY <1>6, ZeroMatches
<1>10. Bounds[1][1] = 0 /\ Bounds[2][1] = 0 /\ Bounds[3][1] = 1
  BY BoundsFacts
<1>11. Star[1].form = "*" /\ <<Stepped(a)>>[1].form = "*" /\ <<Only(0)>>[1].form = "value"
  BY DEF Star, AnyValue, Stepped, Only
<1>12. v[1] - 0 = v[1] /\ v[2] - 0 = v[2]
  BY <1>6
<1>13. s.kind = "every"
  BY DEF Countable
<1> HIDE DEF v, a
<1>14. CASE s.unit = "m"
  <2>1. fields = <<<<Stepped(a)>>, Star, Star, Star, Star>>
    BY <1>13, <1>14 DEF RenderCron, a
  <2> HIDE DEF fields
  <2>2. CronFires(fields, t) <=> v[1] % a = 0
    <3>1. fields[1] = <<Stepped(a)>> /\ fields[2] = Star /\ fields[3] = Star /\ fields[4] = Star /\ fields[5] = Star
      BY <2>1
    <3> QED
      BY <1>3, <1>4, <1>8, <1>10, <1>11, <1>12, <3>1 DEF DayAgrees
  <2>3. SinceCron(s, t) = MinuteOf(t) % a
    BY <1>14 DEF SinceCron, MinuteOf, a
  <2> QED
    BY <1>2, <1>7, <2>2, <2>3
<1>15. CASE s.unit = "h"
  <2>1. fields = <<<<Only(0)>>, <<Stepped(a)>>, Star, Star, Star>>
    BY <1>13, <1>15 DEF RenderCron, a
  <2> HIDE DEF fields
  <2>2. CronFires(fields, t) <=> v[1] = 0 /\ v[2] % a = 0
    <3>1. fields[1] = <<Only(0)>> /\ fields[2] = <<Stepped(a)>> /\ fields[3] = Star /\ fields[4] = Star /\ fields[5] = Star
      BY <2>1
    <3> QED
      BY <1>3, <1>4, <1>8, <1>9, <1>10, <1>11, <1>12, <3>1 DEF DayAgrees
  <2> DEFINE since == (t % 1440) % (60 * a)
  <2>3. SinceCron(s, t) = since
    BY <1>15 DEF SinceCron, a
  <2>4. since = 0 <=> MinuteOf(t) = 0 /\ HourOf(t) % a = 0
    BY <1>5, HourSteps DEF MinuteOf, HourOf
  <2> HIDE DEF since
  <2> QED
    BY <1>2, <1>7, <2>2, <2>3, <2>4
<1>16. CASE s.unit = "d"
  <2>1. fields = <<<<Only(0)>>, <<Only(0)>>, <<Stepped(a)>>, Star, Star>>
    BY <1>13, <1>16 DEF RenderCron, a
  <2> HIDE DEF fields
  <2>2. CronFires(fields, t) <=> v[1] = 0 /\ v[2] = 0 /\ (v[3] - 1) % a = 0
    <3>1. fields[1] = <<Only(0)>> /\ fields[2] = <<Only(0)>> /\ fields[3] = <<Stepped(a)>> /\ fields[4] = Star /\ fields[5] = Star
      BY <2>1
    <3> QED
      BY <1>3, <1>4, <1>8, <1>9, <1>10, <1>11, <3>1 DEF DayAgrees
  <2> DEFINE d == DayOf(t)
             b == t % 1440
             x == (d - 1) % a
  <2>3. SinceCron(s, t) = 1440 * x + b
    BY <1>16 DEF SinceCron, a
  <2>4. d \in Nat /\ 1 <= d
    BY <1>6, <1>7, <1>10
  <2>5. x \in Nat
    <3> DEFINE c == d - 1
    <3> HIDE DEF d
    <3>1. c \in Nat
      BY <2>4
    <3> HIDE DEF c
    <3>2. c % a \in Nat
      BY <1>5, <3>1, ModFacts
    <3> QED
      BY <3>2 DEF c
  <2>6. b \in Nat /\ (b = 0 <=> MinuteOf(t) = 0 /\ HourOf(t) = 0)
    BY DEF MinuteOf, HourOf
  <2> HIDE DEF d, b, x
  <2>7. 1440 * x + b = 0 <=> x = 0 /\ b = 0
    BY <2>5, <2>6
  <2> QED
    BY <1>2, <1>7, <2>2, <2>3, <2>6, <2>7 DEF d, x
<1>17. CASE s.unit = "w" /\ a = 1
  <2>1. fields = <<<<Only(0)>>, <<Only(0)>>, Star, Star, <<Only(0)>>>>
    BY <1>13, <1>17 DEF RenderCron, a
  <2> HIDE DEF fields
  <2>2. CronFires(fields, t) <=> v[1] = 0 /\ v[2] = 0 /\ v[5] = 0
    <3>1. fields[1] = <<Only(0)>> /\ fields[2] = <<Only(0)>> /\ fields[3] = Star /\ fields[4] = Star /\ fields[5] = <<Only(0)>>
      BY <2>1
    <3> QED
      BY <1>3, <1>4, <1>9, <1>11, <3>1 DEF DayAgrees
  <2>3. SinceCron(s, t) = (t % 10080) % 10080
    BY <1>17 DEF SinceCron
  <2>4. (t % 10080) % 10080 = 0 <=> MinuteOf(t) = 0 /\ HourOf(t) = 0 /\ WeekdayOf(t) = 0
    BY DEF MinuteOf, HourOf, WeekdayOf
  <2> QED
    BY <1>2, <1>7, <2>2, <2>3, <2>4
<1> QED
  BY <1>14, <1>15, <1>16, <1>17 DEF Countable, a

(* The days of the month, one instant after another.                         *)
LEMMA NextDay ==
  ASSUME NEW q \in Nat \ {0}, NEW t \in Nat, (t % 1440) + q <= 1440
  PROVE  /\ DayOf(t) \in 1..31
         /\ (t % 1440) + q < 1440 => DayOf(t + q) = DayOf(t) /\ (t + q) % 1440 = (t % 1440) + q
         /\ (t % 1440) + q = 1440 => DayOf(t + q) \in {DayOf(t) + 1, 1} /\ (t + q) % 1440 = 0
<1> DEFINE y == Year
           d == t \div 1440
           e == d % y
<1>1. y \in Nat \ {0} /\ d \in Nat
  BY CalendarFacts
<1>2. e \in 0..(y - 1)
  <2> HIDE DEF y, d
  <2> QED
    BY <1>1, ModFacts
<1>3. DayOf(t) = DayOfMonth(e)
  BY DEF DayOf
<1>4. /\ DayOfMonth(e) \in 1..31
      /\ e + 1 < y => DayOfMonth(e + 1) \in {DayOfMonth(e) + 1, 1}
      /\ DayOfMonth(0) = 1
  BY <1>2, DayFacts
<1>5. ASSUME (t % 1440) + q < 1440
      PROVE  DayOf(t + q) = DayOf(t) /\ (t + q) % 1440 = (t % 1440) + q
  <2>1. (t + q) \div 1440 = t \div 1440 /\ (t + q) % 1440 = (t % 1440) + q
    BY <1>5
  <2> QED
    BY <2>1 DEF DayOf
<1>6. ASSUME (t % 1440) + q = 1440
      PROVE  DayOf(t + q) \in {DayOf(t) + 1, 1} /\ (t + q) % 1440 = 0
  <2>1. (t + q) \div 1440 = d + 1 /\ (t + q) % 1440 = 0
    BY <1>6
  <2>2. DayOf(t + q) = DayOfMonth((d + 1) % y)
    BY <2>1 DEF DayOf
  <2>3. (d + 1) % y \in {e + 1, 0} /\ e + 1 <= y /\ (e + 1 = y => (d + 1) % y = 0)
    <3>1. 1 \in Nat \ {0} /\ Multiple(y, 1) /\ Multiple(d, 1)
      BY <1>1 DEF Multiple
    <3> HIDE DEF y, d
    <3>2. /\ (d % y) + 1 <= y
          /\ (d % y) + 1 < y => (d + 1) % y = (d % y) + 1
          /\ (d % y) + 1 = y => (d + 1) % y = 0
      BY <1>1, <3>1, Wheel
    <3> DEFINE f == (d + 1) % y
    <3>3. /\ e + 1 <= y /\ (e + 1 < y => f = e + 1) /\ (e + 1 = y => f = 0)
      BY <3>2
    <3> HIDE DEF e, f
    <3>4. f \in {e + 1, 0} /\ e + 1 <= y /\ (e + 1 = y => f = 0)
      BY <1>1, <1>2, <3>3
    <3> QED
      BY <3>4 DEF f
  <2> DEFINE f == (d + 1) % y
  <2> HIDE DEF f, e, d, y
  <2>4. DayOfMonth(f) \in {DayOfMonth(e) + 1, 1}
    <3>1. CASE e + 1 < y /\ f = e + 1
      BY <1>4, <3>1
    <3>2. CASE f = 0
      BY <1>4, <3>2
    <3> QED
      BY <1>1, <1>2, <2>3, <3>1, <3>2 DEF f
  <2> QED
    BY <1>3, <2>1, <2>2, <2>4 DEF f
<1> QED
  BY <1>3, <1>4, <1>5, <1>6

(* Each instant lies a quantum after the one before, and cron's fires no     *)
(* further apart than the period; just the period, if it divides its unit.   *)
LEMMA CronSteps ==
  ASSUME NEW s, Countable(s), NEW q \in Nat \ {0}, NEW p \in Nat, EverySeconds(s) = 60 * p,
         Multiple(p, q), Multiple(Turn[s.unit], q), NEW t \in Nat, Multiple(t, q)
  PROVE  /\ Steps(SinceCron(s, t), SinceCron(s, t + q), p, q)
         /\ Aligned(s) => Exact(SinceCron(s, t), SinceCron(s, t + q), p, q)
<1> DEFINE a == s.amount
<1>1. a \in Nat \ {0} /\ s.kind = "every" /\ s.unit \in DOMAIN Turn
  BY DEF Countable, Turn
<1>2. EverySeconds(s) = 60 * (CASE s.unit = "m" -> a
                                [] s.unit = "h" -> 60 * a
                                [] s.unit = "d" -> 1440 * a
                                [] OTHER -> 10080)
  BY <1>1, UnitFacts
<1>3. CASE s.unit = "m"
  <2>1. p = a /\ Turn[s.unit] = 60
    <3>1. EverySeconds(s) = 60 * a
      BY <1>2, <1>3
    <3> HIDE DEF a
    <3>2. 60 * p = 60 * a
      BY <3>1
    <3>3. p = a
      BY <1>1, <3>2
    <3> QED
      BY <1>3, <3>3 DEF Turn
  <2>2. \A u : SinceCron(s, u) = (u % 60) % p
    BY <1>3, <2>1 DEF SinceCron
  <2>3. Aligned(s) => 60 % p = 0
    BY <1>3, <2>1 DEF Aligned, PerUnit
  <2> DEFINE turn == 60
  <2>4. turn \in Nat \ {0} /\ Multiple(turn, q) /\ p \in Nat \ {0}
    BY <1>1, <2>1
  <2>5. (\A u : SinceCron(s, u) = (u % turn) % p) /\ (Aligned(s) => turn % p = 0)
    BY <2>2, <2>3
  <2> HIDE DEF turn
  <2>6. /\ Steps((t % turn) % p, ((t + q) % turn) % p, p, q)
        /\ turn % p = 0 => Exact((t % turn) % p, ((t + q) % turn) % p, p, q)
    BY <2>4, TurningWheel
  <2> QED
    BY <2>5, <2>6
<1>4. CASE s.unit = "h"
  <2>1. p = 60 * a /\ Turn[s.unit] = 1440
    <3>1. EverySeconds(s) = 60 * (60 * a)
      BY <1>2, <1>4
    <3> HIDE DEF a
    <3>2. 60 * p = 60 * (60 * a)
      BY <3>1
    <3>3. p = 60 * a
      BY <1>1, <3>2
    <3> QED
      BY <1>4, <3>3 DEF Turn
  <2>2. \A u : SinceCron(s, u) = (u % 1440) % p
    BY <1>4, <2>1 DEF SinceCron
  <2>3. Aligned(s) => 1440 % p = 0
    <3>1. SUFFICES ASSUME 24 % a = 0 PROVE 1440 % p = 0
      BY <1>4 DEF Aligned, PerUnit
    <3> DEFINE c == 60
               x == 24
               z == 0
    <3>2. c \in Nat \ {0} /\ x \in Nat /\ z \in 0..(c - 1)
      OBVIOUS
    <3>3. c * x + z = 1440 /\ c * 0 + z = 0 /\ p = c * a /\ x % a = 0
      BY <2>1, <3>1
    <3>4. a \in Nat \ {0}
      BY <1>1
    <3> HIDE DEF c, x, z, a
    <3>5. (c * x + z) % (c * a) = c * (x % a) + z
      BY <3>2, <3>4, Scaled
    <3>6. (c * x + z) % p = c * 0 + z
      BY <3>3, <3>5
    <3> QED
      BY <3>3, <3>6
  <2> DEFINE turn == 1440
  <2>4. turn \in Nat \ {0} /\ Multiple(turn, q) /\ p \in Nat \ {0}
    BY <1>1, <2>1
  <2>5. (\A u : SinceCron(s, u) = (u % turn) % p) /\ (Aligned(s) => turn % p = 0)
    BY <2>2, <2>3
  <2> HIDE DEF turn
  <2>6. /\ Steps((t % turn) % p, ((t + q) % turn) % p, p, q)
        /\ turn % p = 0 => Exact((t % turn) % p, ((t + q) % turn) % p, p, q)
    BY <2>4, TurningWheel
  <2> QED
    BY <2>5, <2>6
<1>5. CASE s.unit = "w"
  <2>1. p = 10080 /\ Turn[s.unit] = 10080
    <3>1. EverySeconds(s) = 60 * 10080
      BY <1>2, <1>5
    <3>2. 60 * p = 60 * 10080
      BY <3>1
    <3>3. p = 10080
      BY <3>2
    <3> QED
      BY <1>5, <3>3 DEF Turn
  <2>2. \A u : SinceCron(s, u) = (u % p) % p
    BY <1>5, <2>1 DEF SinceCron
  <2>3. p % p = 0
    BY <2>1
  <2> HIDE DEF a
  <2>4. /\ Steps((t % p) % p, ((t + q) % p) % p, p, q)
        /\ p % p = 0 => Exact((t % p) % p, ((t + q) % p) % p, p, q)
    <3>1. p \in Nat \ {0}
      BY <2>1
    <3> QED
      BY <3>1, TurningWheel
  <2> QED
    BY <2>2, <2>3, <2>4
<1>6. CASE s.unit = "d"
  <2>1. p = 1440 * a /\ Turn[s.unit] = 1440
    <3>1. EverySeconds(s) = 60 * (1440 * a)
      BY <1>2, <1>6
    <3> HIDE DEF a
    <3>2. 60 * p = 60 * (1440 * a)
      BY <3>1
    <3>3. p = 1440 * a
      BY <1>1, <3>2
    <3> QED
      BY <1>6, <3>3 DEF Turn
  <2> DEFINE X(u) == (DayOf(u) - 1) % a
             M(u) == u % 1440
  <2>2. \A u : SinceCron(s, u) = 1440 * X(u) + M(u)
    BY <1>6 DEF SinceCron
  <2>3. M(t) \in Nat /\ M(t) + q <= 1440 /\ (M(t) + q < 1440 \/ M(t) + q = 1440)
    <3> DEFINE turn == 1440
    <3>1. turn \in Nat \ {0} /\ Multiple(turn, q)
      BY <2>1
    <3> HIDE DEF turn
    <3>2. t % turn \in Nat /\ (t % turn) + q <= turn
      BY <3>1, Wheel
    <3>3. M(t) \in Nat /\ M(t) + q <= 1440
      BY <3>2 DEF turn
    <3> HIDE DEF M
    <3> QED
      BY <3>3
  <2>4. /\ DayOf(t) \in 1..31
        /\ M(t) + q < 1440 => DayOf(t + q) = DayOf(t) /\ M(t + q) = M(t) + q
        /\ M(t) + q = 1440 => DayOf(t + q) \in {DayOf(t) + 1, 1} /\ M(t + q) = 0
    BY <2>3, NextDay
  <2> DEFINE d == DayOf(t) - 1
             f == DayOf(t + q) - 1
  <2>5. d \in Nat /\ (M(t) + q < 1440 => f = d) /\ (M(t) + q = 1440 => f = d + 1 \/ f = 0)
    <3> HIDE DEF M
    <3> QED
      BY <2>4
  <2>6. (d % a) \in Nat /\ (d % a) + 1 <= a /\ 0 % a = 0
        /\ ((d + 1) % a = 0 \/ ((d + 1) % a = (d % a) + 1 /\ (d % a) + 1 < a))
    <3>1. 1 \in Nat \ {0} /\ Multiple(a, 1) /\ Multiple(d, 1)
      BY <1>1, <2>5 DEF Multiple
    <3> HIDE DEF d, a
    <3>2. /\ d % a \in Nat
          /\ (d % a) + 1 <= a
          /\ (d % a) + 1 < a => (d + 1) % a = (d % a) + 1
          /\ (d % a) + 1 = a => (d + 1) % a = 0
      BY <1>1, <2>5, <3>1, Wheel
    <3>3. 0 % a = 0
      <4> DEFINE z == 0
      <4>1. z \in 0..(a - 1) /\ z \in Nat /\ a * z + z = 0
        BY <1>1
      <4> HIDE DEF z
      <4>2. (a * z + z) % a = z
        BY <1>1, <4>1, ModUnique
      <4> QED
        BY <4>1, <4>2 DEF z
    <3> DEFINE r == d % a
               v == (d + 1) % a
    <3>4. r \in Nat /\ r + 1 <= a /\ (r + 1 < a => v = r + 1) /\ (r + 1 = a => v = 0)
      BY <3>2
    <3> HIDE DEF r, v
    <3>5. v = 0 \/ (v = r + 1 /\ r + 1 < a)
      BY <1>1, <3>4
    <3> QED
      BY <3>3, <3>4, <3>5 DEF r, v
  <2> DEFINE r == d % a
             v == f % a
             m == M(t)
             n == M(t + q)
  <2>7. X(t) = r /\ X(t + q) = v
    OBVIOUS
  <2>8. m + q = 1440 => v = 0 \/ (v = r + 1 /\ r + 1 < a)
    BY <2>5, <2>6
  <2>9. m + q < 1440 => v = r
    BY <2>5
  <2>10. /\ m \in Nat /\ (m + q < 1440 \/ m + q = 1440) /\ r \in Nat /\ r + 1 <= a
         /\ (m + q < 1440 => n = m + q) /\ (m + q = 1440 => n = 0)
    BY <2>3, <2>4, <2>6
  <2>11. Aligned(s) => a = 1
    <3>1. SUFFICES ASSUME 1 % a = 0 PROVE a = 1
      BY <1>6 DEF Aligned, PerUnit
    <3> HIDE DEF a
    <3>2. a > 1 => 1 % a = 1
      BY <1>1
    <3> QED
      BY <1>1, <3>1, <3>2
  <2>12. SinceCron(s, t) = 1440 * r + m /\ SinceCron(s, t + q) = 1440 * v + n
    BY <2>2, <2>7
  <2> HIDE DEF a, d, f, r, v, m, n, X, M
  <2>13. /\ Steps(1440 * r + m, 1440 * v + n, p, q)
         /\ a = 1 => Exact(1440 * r + m, 1440 * v + n, p, q)
    BY <1>1, <2>1, <2>8, <2>9, <2>10 DEF Steps, Exact
  <2> QED
    BY <2>11, <2>12, <2>13
<1> QED
  BY <1>3, <1>4, <1>5, <1>6 DEF Countable

(* What a schedule and its quantum come to in minutes. *)
Period(s) == EverySeconds(s) \div 60

LEMMA QuantumFacts ==
  ASSUME NEW j \in Jobs, j.schedule.kind = "every"
  PROVE  LET s == j.schedule
             p == Period(s)
         IN  /\ j.quantum \in Nat \ {0} /\ s.amount \in Nat \ {0} /\ s.unit \in DOMAIN Turn
             /\ p \in Nat \ {0} /\ EverySeconds(s) = 60 * p
             /\ Multiple(p, j.quantum) /\ Multiple(Turn[s.unit], j.quantum)
<1> DEFINE s == j.schedule
           q == j.quantum
           total == EverySeconds(s)
           turn == Turn[s.unit]
<1>1. q \in Nat \ {0} /\ s.amount \in Nat \ {0} /\ s.unit \in DOMAIN Turn
  BY JobsAssumption, QuantumAssumption
<1>2. total % (60 * q) = 0 /\ turn % q = 0
  BY QuantumAssumption
<1>3. total \in Nat \ {0} /\ turn \in Nat
  <2>1. \E n \in Nat \ {0} : total = s.amount * n
    BY <1>1 DEF EverySeconds, Turn
  <2>2. turn \in Nat
    BY <1>1 DEF Turn
  <2> DEFINE a == s.amount
  <2>3. PICK n \in Nat \ {0} : total = a * n
    BY <2>1
  <2>4. a \in Nat \ {0}
    BY <1>1
  <2> HIDE DEF a, total
  <2>5. a * n >= 1
    BY <2>3, <2>4
  <2>6. a * n \in Nat
    BY <2>3, <2>4
  <2> QED
    BY <2>2, <2>3, <2>5, <2>6
<1> HIDE DEF s, q, total, turn
<1>4. PICK k \in Nat : total = (60 * q) * k
  <2> DEFINE c == 60 * q
  <2>1. c \in Nat \ {0}
    BY <1>1
  <2>2. total % c = 0
    BY <1>2
  <2> HIDE DEF c
  <2>3. \E k \in Nat : total = c * k
    <3>1. PICK k \in Nat : total = c * k + (total % c)
      BY <1>3, <2>1, ModFacts
    <3>2. c * k \in Nat
      BY <2>1
    <3> QED
      BY <2>2, <3>1, <3>2
  <2> QED
    BY <2>3 DEF c
<1>5. PICK l \in Nat : turn = q * l
  <2>1. PICK l \in Nat : turn = q * l + (turn % q)
    BY <1>1, <1>3, ModFacts
  <2>2. q * l \in Nat
    BY <1>1
  <2> QED
    BY <1>2, <2>1, <2>2
<1> DEFINE p == q * k
<1>6. p \in Nat /\ total = 60 * p
  BY <1>1, <1>4
<1>7. Multiple(p, q) /\ Multiple(turn, q)
  BY <1>5 DEF Multiple
<1> HIDE DEF p
<1>8. p # 0 /\ total \div 60 = p
  BY <1>3, <1>6
<1>9. Period(s) = p
  BY <1>8 DEF Period, total
<1>10. /\ q \in Nat \ {0} /\ s.amount \in Nat \ {0} /\ s.unit \in DOMAIN Turn
       /\ Period(s) \in Nat \ {0} /\ total = 60 * Period(s)
       /\ Multiple(Period(s), q) /\ Multiple(turn, q)
  BY <1>1, <1>6, <1>7, <1>8, <1>9
<1> QED
  BY <1>10 DEF s, q, total, turn

LEMMA LaunchdFiresAt ==
  ASSUME NEW s, s = job.schedule, s.kind = "every", NEW p \in Nat \ {0}, EverySeconds(s) = 60 * p, NEW t \in Nat
  PROVE  FiredByLaunchd(t) <=> t > 0 /\ t % p = 0
<1> DEFINE r == RenderLaunchd(s)
<1>1. ~r.raises /\ r.interval = EverySeconds(s)
  BY DEF RenderLaunchd
<1>2. FiredByLaunchd(t) <=> LaunchdFires(r, t)
  BY <1>1 DEF FiredByLaunchd
<1> HIDE DEF r
<1>3. r.interval # 0
  BY <1>1
<1>4. FiredByLaunchd(t) <=> t > 0 /\ (t * 60) % (60 * p) = 0
  BY <1>1, <1>2, <1>3, LaunchdFiresWhen
<1>5. (t * 60) % (60 * p) = 60 * (t % p)
  <2> DEFINE c == 60
             z == 0
  <2>1. c \in Nat \ {0} /\ z \in 0..(c - 1)
    OBVIOUS
  <2>2. t * 60 = c * t + z
    OBVIOUS
  <2> HIDE DEF c, z
  <2>3. (c * t + z) % (c * p) = c * (t % p) + z
    BY <2>1, Scaled
  <2>4. t % p \in Nat
    BY ModFacts
  <2>5. c * (t % p) + z = 60 * (t % p)
    BY <2>4 DEF c, z
  <2>6. (c * t + z) % (60 * p) = c * (t % p) + z
    BY <2>3 DEF c
  <2> QED
    BY <2>2, <2>5, <2>6
<1>6. 60 * (t % p) = 0 <=> t % p = 0
  <2>1. t % p \in Nat
    BY ModFacts
  <2> QED
    BY <2>1
<1> QED
  BY <1>4, <1>5, <1>6

LEMMA NeverFires ==
  ASSUME NEW s, s = job.schedule, CronIncompatible(s), NEW t
  PROVE  ~FiredByCron(t)
<1>1. s \in CronScheduleErrors({s})
  BY DEF CronScheduleErrors
<1> QED
  BY <1>1 DEF FiredByCron

LEMMA FiresAtStart ==
  ASSUME NEW s, Countable(s)
  PROVE  SinceCron(s, 0) = 0
<1> DEFINE a == s.amount
<1>1. a \in Nat \ {0} /\ (s.unit \in {"m", "h", "d"} \/ s.unit = "w")
  BY DEF Countable
<1> HIDE DEF a
<1>2. \A b \in Nat \ {0} : 0 % b = 0
  <2> TAKE b \in Nat \ {0}
  <2> DEFINE z == 0
  <2>1. z \in 0..(b - 1) /\ z \in Nat /\ b * z + z = 0
    OBVIOUS
  <2> HIDE DEF z
  <2>2. (b * z + z) % b = z
    BY <2>1, ModUnique
  <2> QED
    BY <2>1, <2>2 DEF z
<1>3. CASE s.unit = "m"
  <2>1. SinceCron(s, 0) = (0 % 60) % a
    BY <1>3 DEF SinceCron, a
  <2> QED
    BY <1>1, <1>2, <2>1
<1>4. CASE s.unit = "h"
  <2>1. SinceCron(s, 0) = (0 % 1440) % (60 * a)
    BY <1>4 DEF SinceCron, a
  <2>2. 60 * a \in Nat \ {0} /\ 0 % 1440 = 0
    BY <1>1
  <2> QED
    BY <1>2, <2>1, <2>2
<1>5. CASE s.unit = "d"
  <2>1. SinceCron(s, 0) = 1440 * ((DayOf(0) - 1) % a) + (0 % 1440)
    BY <1>5 DEF SinceCron, a
  <2>2. DayOf(0) = 1
    <3> DEFINE y == Year
    <3>1. y \in Nat \ {0}
      BY CalendarFacts
    <3>2. 0 \in 0..(y - 1)
      BY <3>1
    <3>3. DayOfMonth(0) = 1
      BY <3>2, DayFacts
    <3>4. 0 \div 1440 = 0
      OBVIOUS
    <3> HIDE DEF y
    <3>5. 0 % y = 0
      BY <1>2, <3>1
    <3> QED
      BY <3>3, <3>4, <3>5 DEF DayOf, y
  <2>3. (DayOf(0) - 1) % a = 0
    <3>1. DayOf(0) - 1 = 0
      BY <2>2
    <3> QED
      BY <1>1, <1>2, <3>1
  <2> QED
    BY <2>1, <2>3
<1>6. CASE s.unit = "w"
  <2>1. SinceCron(s, 0) = (0 % 10080) % 10080
    BY <1>6 DEF SinceCron
  <2> QED
    BY <2>1
<1> QED
  BY <1>1, <1>3, <1>4, <1>5, <1>6

(* What is kept: the clock has gone in whole quanta, and each daemon's last  *)
(* fire is where its schedule puts it.                                       *)
LastCron(s, t)    == IF Countable(s) THEN t - SinceCron(s, t) ELSE -1
LastLaunchd(p, t) == IF t < p THEN -1 ELSE t - (t % p)

Due ==
  job.schedule.kind = "every" =>
    /\ Multiple(now, job.quantum)
    /\ last.cron = LastCron(job.schedule, now)
    /\ last.launchd = LastLaunchd(Period(job.schedule), now)

EveryInv == Timed /\ Due

LEMMA InitEvery == TimesInit => EveryInv
<1> SUFFICES ASSUME TimesInit PROVE EveryInv
  OBVIOUS
<1>1. Timed
  BY DEF TimesInit, Timed
<1>2. ASSUME job.schedule.kind = "every" PROVE Due
  <2> DEFINE s == job.schedule
             q == job.quantum
             p == Period(s)
  <2>1. q \in Nat \ {0} /\ s.amount \in Nat \ {0} /\ s.unit \in DOMAIN Turn /\ p \in Nat \ {0}
    BY <1>1, <1>2, QuantumFacts DEF Timed
  <2>2. now = 0 /\ last.cron = (IF FiredByCron(0) THEN 0 ELSE -1) /\ last.launchd = -1
    BY DEF TimesInit
  <2>3. Multiple(0, q)
    BY <2>1 DEF Multiple
  <2>4. LastLaunchd(p, 0) = -1
    <3> HIDE DEF p
    <3> QED
      BY <2>1 DEF LastLaunchd
  <2>5. LastCron(s, 0) = IF FiredByCron(0) THEN 0 ELSE -1
    <3>1. CASE Countable(s)
      <4>1. SinceCron(s, 0) = 0 /\ FiredByCron(0)
        BY <3>1, FiresAtStart, FiresAtZero
      <4> QED
        BY <3>1, <4>1 DEF LastCron
    <3>2. CASE ~Countable(s)
      <4>1. CronIncompatible(s)
        BY <1>2, <2>1, <3>2, UnitFacts
      <4>2. ~FiredByCron(0)
        BY <4>1, NeverFires
      <4> QED
        BY <3>2, <4>2 DEF LastCron
    <3> QED
      BY <3>1, <3>2
  <2> QED
    BY <2>2, <2>3, <2>4, <2>5 DEF Due
<1> QED
  BY <1>1, <1>2 DEF EveryInv, Due

(* EveryKeepsItsPeriod, of one step. *)
Keeps ==
  LET s == job.schedule
      period == EverySeconds(s)
      wait == [d \in {"cron", "launchd"} |-> 60 * (last'[d] - last[d])]
  IN s.kind = "every" =>
       /\ CronIncompatible(s) <=> RenderCron(s) = <<>>
       /\ last'.launchd # last.launchd /\ last.launchd # -1 => wait["launchd"] = period
       /\ now' * 60 > period => last'.launchd # -1
       /\ last'.cron # last.cron /\ last.cron # -1 =>
            /\ wait["cron"] <= period
            /\ Aligned(s) => wait["cron"] = period
       /\ ~CronIncompatible(s) => 60 * (now' - last'.cron) < period

(* A tick of launchd's interval. *)
LEMMA LaunchdTick ==
  ASSUME NEW q \in Nat \ {0}, NEW p \in Nat \ {0}, NEW t \in Nat, Multiple(p, q), Multiple(t, q),
         NEW was, was = LastLaunchd(p, t),
         NEW is, is = IF t + q > 0 /\ (t + q) % p = 0 THEN t + q ELSE was
  PROVE  /\ is = LastLaunchd(p, t + q)
         /\ is # was /\ was # -1 => is - was = p
         /\ t + q > p => is # -1
<1> DEFINE r == t % p
           v == (t + q) % p
<1>1. /\ r \in Nat /\ r + q <= p
      /\ (r + q < p => v = r + q) /\ (r + q = p => v = 0)
  BY Wheel
<1>2. t < p => r = t
  OBVIOUS
<1>3. r <= t
  <2>1. PICK k \in Nat : t = p * k + r
    BY ModFacts
  <2>2. p * k \in Nat
    OBVIOUS
  <2> HIDE DEF r
  <2> QED
    BY <1>1, <2>1, <2>2
<1>4. was = (IF t < p THEN -1 ELSE t - r) /\ LastLaunchd(p, t + q) = (IF t + q < p THEN -1 ELSE (t + q) - v)
  BY DEF LastLaunchd
<1>5. is = IF v = 0 THEN t + q ELSE was
  OBVIOUS
<1> HIDE DEF r, v
<1>6. CASE t < p
  BY <1>1, <1>2, <1>4, <1>5, <1>6
<1>7. CASE ~(t < p)
  BY <1>1, <1>3, <1>4, <1>5, <1>7
<1> QED
  BY <1>6, <1>7

(* A tick, for cron. *)
LEMMA CronTick ==
  ASSUME NEW q \in Nat \ {0}, NEW p \in Nat \ {0}, NEW t \in Nat, NEW x, NEW y, Steps(x, y, p, q),
         NEW was, was = t - x, NEW is, is = IF y = 0 THEN t + q ELSE was
  PROVE  /\ is = (t + q) - y
         /\ is # was => is - was <= p
         /\ is # was /\ Exact(x, y, p, q) => is - was = p
         /\ (t + q) - is < p
<1>1. x \in Nat /\ x + q <= p /\ (y = 0 \/ (y = x + q /\ y < p))
  BY DEF Steps
<1>2. CASE y = 0
  BY <1>1, <1>2 DEF Exact
<1>3. CASE y # 0
  <2>1. is = was /\ y = x + q /\ y < p
    BY <1>1, <1>3
  <2> QED
    BY <1>1, <2>1
<1> QED
  BY <1>1, <1>2, <1>3
LEMMA StepEvery ==
  ASSUME EveryInv, Tick
  PROVE  Due' /\ Keeps
<1> DEFINE s == job.schedule
           q == job.quantum
           p == Period(s)
           t == now
<1>1. job \in Jobs /\ now \in Nat /\ Due
  BY DEF EveryInv, Timed
<1>2. /\ job' = job /\ now' = now + q
      /\ last'.cron = IF FiredByCron(now') THEN now' ELSE last.cron
      /\ last'.launchd = IF FiredByLaunchd(now') THEN now' ELSE last.launchd
  BY DEF Tick
<1>3. SUFFICES ASSUME s.kind = "every" PROVE Due' /\ Keeps
  BY <1>2 DEF Due, Keeps
<1>4. /\ q \in Nat \ {0} /\ s.amount \in Nat \ {0} /\ s.unit \in DOMAIN Turn
      /\ p \in Nat \ {0} /\ EverySeconds(s) = 60 * p
      /\ Multiple(p, q) /\ Multiple(Turn[s.unit], q)
  BY <1>1, <1>3, QuantumFacts
<1>5. Multiple(t, q) /\ last.cron = LastCron(s, t) /\ last.launchd = LastLaunchd(p, t)
  BY <1>1, <1>3 DEF Due
<1>6. Multiple(t + q, q)
  <2>1. Multiple(q, q)
    <3>1. q = q * 1
      BY <1>4
    <3> QED
      BY <1>4, <3>1 DEF Multiple
  <2> QED
    BY <1>1, <1>4, <1>5, <2>1, MultipleFacts
<1>7. t + q \in Nat
  BY <1>1, <1>4
<1>8. FiredByLaunchd(t + q) <=> t + q > 0 /\ (t + q) % p = 0
  BY <1>3, <1>4, <1>7, LaunchdFiresAt
<1>9. /\ last'.launchd = LastLaunchd(p, t + q)
      /\ last'.launchd # last.launchd /\ last.launchd # -1 => last'.launchd - last.launchd = p
      /\ t + q > p => last'.launchd # -1
  <2> DEFINE was == last.launchd
             is == last'.launchd
  <2>1. was = LastLaunchd(p, t) /\ is = IF t + q > 0 /\ (t + q) % p = 0 THEN t + q ELSE was
    BY <1>2, <1>5, <1>8
  <2>3. q \in Nat \ {0} /\ p \in Nat \ {0} /\ t \in Nat /\ Multiple(p, q) /\ Multiple(t, q)
    BY <1>1, <1>4, <1>5
  <2> HIDE DEF was, is, q, p, t
  <2>2. /\ is = LastLaunchd(p, t + q)
        /\ is # was /\ was # -1 => is - was = p
        /\ t + q > p => is # -1
    BY <2>1, <2>3, LaunchdTick
  <2> QED
    BY <2>2 DEF was, is
<1>10. CronIncompatible(s) <=> RenderCron(s) = <<>>
  BY <1>3, <1>4, UnitFacts
<1>11. CronIncompatible(s) <=> ~Countable(s)
  BY <1>3, <1>4, UnitFacts
<1>12. ASSUME Countable(s)
       PROVE  /\ Steps(SinceCron(s, t), SinceCron(s, t + q), p, q)
              /\ Aligned(s) => Exact(SinceCron(s, t), SinceCron(s, t + q), p, q)
  <2>1. /\ q \in Nat \ {0} /\ p \in Nat /\ t \in Nat /\ EverySeconds(s) = 60 * p
        /\ Multiple(p, q) /\ Multiple(Turn[s.unit], q) /\ Multiple(t, q) /\ Countable(s)
    BY <1>1, <1>4, <1>5, <1>12
  <2> HIDE DEF q, p, t, s
  <2> QED
    BY <2>1, CronSteps
<1>13. ASSUME Countable(s)
       PROVE  /\ last'.cron = (t + q) - SinceCron(s, t + q)
              /\ last'.cron # last.cron => last'.cron - last.cron <= p
              /\ last'.cron # last.cron /\ Aligned(s) => last'.cron - last.cron = p
              /\ (t + q) - last'.cron < p
  <2> DEFINE x == SinceCron(s, t)
             y == SinceCron(s, t + q)
             was == last.cron
             is == last'.cron
  <2>1. Steps(x, y, p, q) /\ (Aligned(s) => Exact(x, y, p, q))
    BY <1>12, <1>13
  <2>2. FiredByCron(t + q) <=> y = 0
    BY <1>7, <1>13, FiresAtZero
  <2>3. was = t - x /\ is = IF y = 0 THEN t + q ELSE was
    BY <1>2, <1>5, <1>13, <2>2 DEF LastCron
  <2>5. q \in Nat \ {0} /\ p \in Nat \ {0} /\ t \in Nat
    BY <1>1, <1>4
  <2> HIDE DEF x, y, was, is, q, p, t, s
  <2>4. /\ is = (t + q) - y
        /\ is # was => is - was <= p
        /\ is # was /\ Exact(x, y, p, q) => is - was = p
        /\ (t + q) - is < p
    BY <2>1, <2>3, <2>5, CronTick
  <2> QED
    BY <2>1, <2>4 DEF was, is, y
<1>14. ASSUME ~Countable(s) PROVE last'.cron = last.cron /\ last'.cron = -1
  <2>1. ~FiredByCron(t + q)
    BY <1>11, <1>14, NeverFires
  <2> QED
    BY <1>2, <1>5, <1>14, <2>1 DEF LastCron
<1>15. Due'
  <2>1. last'.cron = LastCron(s, t + q)
    BY <1>13, <1>14 DEF LastCron
  <2> QED
    BY <1>2, <1>6, <1>9, <2>1 DEF Due
<1>16. Keeps
  <2> DEFINE l == last.launchd
             m == last'.launchd
             c == last.cron
             d == last'.cron
             wait == [k \in {"cron", "launchd"} |-> 60 * (last'[k] - last[k])]
  <2>1. wait["cron"] = 60 * (d - c) /\ wait["launchd"] = 60 * (m - l)
    OBVIOUS
  <2>2. d \in Int /\ c \in Int
    <3>1. CASE Countable(s)
      <4> DEFINE x == SinceCron(s, t)
                 y == SinceCron(s, t + q)
      <4>1. d = (t + q) - y /\ c = t - x
        BY <1>5, <1>13, <3>1 DEF LastCron
      <4>2. Steps(x, y, p, q)
        BY <1>12, <3>1
      <4> HIDE DEF x, y, c, d
      <4>3. x \in Int /\ y \in Int
        BY <1>4, <4>2 DEF Steps
      <4> QED
        BY <1>1, <1>4, <4>1, <4>3
    <3>2. CASE ~Countable(s)
      BY <1>14, <3>2
    <3> QED
      BY <3>1, <3>2
  <2>3. m # l /\ l # -1 => 60 * (m - l) = EverySeconds(s)
    <3> HIDE DEF p, l, m
    <3> QED
      BY <1>4, <1>9 DEF l, m
  <2>4. now' * 60 > EverySeconds(s) => m # -1
    <3>1. now' * 60 > EverySeconds(s) => t + q > p
      <4> DEFINE n == t + q
      <4>1. now' = n /\ n \in Nat
        BY <1>2, <1>7
      <4> HIDE DEF n, p
      <4> QED
        BY <1>4, <4>1 DEF n
    <3> QED
      BY <1>9, <3>1
  <2>5. d # c => /\ 60 * (d - c) <= EverySeconds(s)
                 /\ Aligned(s) => 60 * (d - c) = EverySeconds(s)
    <3>1. d # c => d - c <= p /\ (Aligned(s) => d - c = p)
      BY <1>13, <1>14
    <3> HIDE DEF p, c, d
    <3> QED
      BY <1>4, <2>2, <3>1
  <2>6. ~CronIncompatible(s) => 60 * (now' - d) < EverySeconds(s)
    <3>1. ~CronIncompatible(s) => (t + q) - d < p
      BY <1>11, <1>13
    <3> DEFINE n == t + q
    <3>2. now' = n /\ n \in Nat
      BY <1>2, <1>7
    <3> HIDE DEF n, p, d
    <3>3. ~CronIncompatible(s) => n - d < p
      BY <3>1 DEF n
    <3> QED
      BY <1>4, <2>2, <3>2, <3>3
  <2> HIDE DEF wait
  <2> QED
    BY <1>10, <2>1, <2>3, <2>4, <2>5, <2>6 DEF Keeps, wait
<1> QED
  BY <1>15, <1>16

(* Whatever the amount and the unit: a job that says "every" is refused on    *)
(* cron just where it cannot be rendered, waits exactly its period on launchd,*)
(* and on cron never longer, and just as long where the amount divides its    *)
(* unit (render_cron_schedule, render_launchd_schedule).                      *)
THEOREM PeriodsAreKept == TimesSpec => EveryKeepsItsPeriod
<1>1. TimesInit => EveryInv
  BY InitEvery
<1>2. EveryInv /\ [Tick]_timesVars => EveryInv'
  <2>1. ASSUME EveryInv, Tick PROVE EveryInv'
    <3>1. Due'
      BY <2>1, StepEvery
    <3>2. Timed'
      <4>1. job.quantum \in Nat
        BY <2>1, JobsAssumption DEF EveryInv, Timed
      <4> QED
        BY <2>1, <4>1 DEF EveryInv, Timed, Tick
    <3> QED
      BY <3>1, <3>2 DEF EveryInv
  <2>2. ASSUME EveryInv, UNCHANGED timesVars PROVE EveryInv'
    BY <2>2 DEF EveryInv, Timed, Due, timesVars
  <2> QED
    BY <2>1, <2>2
<1>3. EveryInv /\ [Tick]_timesVars => [Keeps]_timesVars
  BY StepEvery
<1> QED
  BY <1>1, <1>2, <1>3, PTL DEF TimesSpec, EveryKeepsItsPeriod, Keeps
================================================================================
