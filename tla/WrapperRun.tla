------------------------------ MODULE WrapperRun ------------------------------
(***************************************************************************)
(* The shell wrapper the native scheduler runs for a job at every tick     *)
(* (scheduler_native/wrapper.py): the order of its commands, its lock      *)
(* directory, its INT, TERM and EXIT traps and the events it logs.         *)
(*                                                                         *)
(* The shell runs a trap between two commands, never inside one: a signal  *)
(* waits for the job's command to end.  Inside the EXIT trap the handlers' *)
(* `exit` ends the shell at once, leaving the rest of on_exit undone.  A   *)
(* kill runs no trap and leaves the job's command running on its own.      *)
(***************************************************************************)
EXTENDS Naturals, Sequences

CONSTANTS
  Runs,          \* slots for live invocations of the one job
  Codes,         \* exit codes the job's command may return
  SignalCodes,   \* what the INT and TERM handlers exit with
  None,          \* no value
  MaxHits        \* bound: signals and kills in a behaviour

ASSUME CodesAssumption ==
  /\ 0 \in Codes /\ 1 \in Codes
  /\ Codes \cap SignalCodes = {}
  /\ None \notin Codes \cup SignalCodes
ASSUME HitsAssumption == MaxHits \in Nat

VARIABLES
  forbid,     \* the job's overlap policy is "forbid"
  lock,       \* the lock directory exists
  pc,         \* the command each shell is at
  held,       \* LOCK_DIR: unset, named, or named and made by this shell
  begun,      \* RUN_STARTED
  reported,   \* FINISH_REPORTED
  status,     \* what the shell will exit, or has exited, with
  result,     \* what the job's command returned
  alive,      \* the job's command is running
  signal,     \* a trapped signal is pending
  log,        \* the events this run has logged
  unwritten,  \* history: this run failed to write an event, or its note of a skip
  hit,        \* this run was signalled or killed
  hits,       \* signals and kills so far
  robbed      \* history: a shell removed a lock it had not made while another
              \* run's shell held it or another run's command was still running

vars == <<forbid, lock, pc, held, begun, reported, status, result, alive,
          signal, log, unwritten, hit, hits, robbed>>

Untrapped == {"setup"}
Body == {"name", "lock", "begin", "started", "temps", "command", "replay",
         "report", "finished"}
OnExit == {"exit", "exit_finished", "unlock"}
Labels == {"idle"} \cup Untrapped \cup Body \cup OnExit

Init ==
  /\ forbid \in BOOLEAN
  /\ lock = FALSE
  /\ pc = [r \in Runs |-> "idle"]
  /\ held = [r \in Runs |-> "unset"]
  /\ begun = [r \in Runs |-> FALSE]
  /\ reported = [r \in Runs |-> FALSE]
  /\ status = [r \in Runs |-> None]
  /\ result = [r \in Runs |-> None]
  /\ alive = [r \in Runs |-> FALSE]
  /\ signal = [r \in Runs |-> None]
  /\ log = [r \in Runs |-> <<>>]
  /\ unwritten = [r \in Runs |-> FALSE]
  /\ hit = [r \in Runs |-> FALSE]
  /\ hits = 0
  /\ robbed = FALSE

Goto(r, label) == pc' = [pc EXCEPT ![r] = label]

(* An event is appended to the event log, or not: what goes wrong with it  *)
(* is swallowed (`|| true`), and the script goes on.                        *)
Logs(r, e, c) ==
  \/ /\ log' = [log EXCEPT ![r] = Append(@, [event |-> e, code |-> c])]
     /\ UNCHANGED unwritten
  \/ /\ unwritten' = [unwritten EXCEPT ![r] = TRUE]
     /\ UNCHANGED log

(* The shell is gone: its variables and pending signals with it. *)
Gone(r, code) ==
  /\ Goto(r, "idle")
  /\ held' = [held EXCEPT ![r] = "unset"]
  /\ signal' = [signal EXCEPT ![r] = None]
  /\ status' = [status EXCEPT ![r] = code]

(* The next command of the script, no trap being due. *)
At(r, label) == pc[r] = label /\ signal[r] = None

----------------------------------------------------------------------------
(* A tick of the scheduler starts a fresh shell. *)
Invoke(r) ==
  /\ pc[r] = "idle"
  /\ ~alive[r]
  /\ Goto(r, "setup")
  /\ begun' = [begun EXCEPT ![r] = FALSE]
  /\ reported' = [reported EXCEPT ![r] = FALSE]
  /\ status' = [status EXCEPT ![r] = None]
  /\ result' = [result EXCEPT ![r] = None]
  /\ log' = [log EXCEPT ![r] = <<>>]
  /\ unwritten' = [unwritten EXCEPT ![r] = FALSE]
  /\ hit' = [hit EXCEPT ![r] = FALSE]
  /\ UNCHANGED <<forbid, lock, held, alive, signal, hits, robbed>>

(* Directories, redirections and cd come before the traps: when one fails  *)
(* (set -e) the shell is gone without a word in the event log.              *)
Setup(r) ==
  /\ At(r, "setup")
  /\ Goto(r, IF forbid THEN "name" ELSE "begin")
  /\ UNCHANGED <<forbid, lock, held, begun, reported, status, result, alive,
                 signal, log, unwritten, hit, hits, robbed>>

SetupFails(r) ==
  /\ At(r, "setup")
  /\ Gone(r, 1)
  /\ UNCHANGED <<forbid, lock, begun, reported, result, alive, log,
                 unwritten, hit, hits, robbed>>

NameLock(r) ==
  /\ At(r, "name")
  /\ held' = [held EXCEPT ![r] = "named"]
  /\ Goto(r, "lock")
  /\ UNCHANGED <<forbid, lock, begun, reported, status, result, alive,
                 signal, log, unwritten, hit, hits, robbed>>

(* mkdir makes the lock, or the run is skipped with exit 0 (or, under set  *)
(* -e, with 1 when its note of the skip cannot be written).                *)
MakeLockAnyway(r) ==      \* a mutant: mkdir -p, which never fails
  /\ At(r, "lock")
  /\ lock' = TRUE
  /\ held' = [held EXCEPT ![r] = "made"]
  /\ Goto(r, "begin")
  /\ UNCHANGED <<forbid, begun, reported, status, result, alive, signal, log,
                 unwritten, hit, hits, robbed>>

MakeLock(r) ==
  /\ At(r, "lock")
  /\ ~lock
  /\ lock' = TRUE
  /\ held' = [held EXCEPT ![r] = "made"]
  /\ Goto(r, "begin")
  /\ UNCHANGED <<forbid, begun, reported, status, result, alive, signal, log,
                 unwritten, hit, hits, robbed>>

SkipFails(r) ==           \* a mutant: exit 1
  /\ At(r, "lock")
  /\ lock
  /\ status' = [status EXCEPT ![r] = 1]
  /\ Goto(r, "exit")
  /\ UNCHANGED <<forbid, lock, held, begun, reported, result, alive, signal,
                 log, unwritten, hit, hits, robbed>>

SkipRun(r) ==
  /\ At(r, "lock")
  /\ lock
  /\ \/ /\ status' = [status EXCEPT ![r] = 0]
        /\ UNCHANGED unwritten
     \/ /\ status' = [status EXCEPT ![r] = 1]
        /\ unwritten' = [unwritten EXCEPT ![r] = TRUE]
  /\ Goto(r, "exit")
  /\ UNCHANGED <<forbid, lock, held, begun, reported, result, alive, signal,
                 log, hit, hits, robbed>>

Begin(r) ==
  /\ At(r, "begin")
  /\ begun' = [begun EXCEPT ![r] = TRUE]
  /\ Goto(r, "started")
  /\ UNCHANGED <<forbid, lock, held, reported, status, result, alive, signal,
                 log, unwritten, hit, hits, robbed>>

LogStarted(r) ==
  /\ At(r, "started")
  /\ Logs(r, "job_started", None)
  /\ Goto(r, "temps")
  /\ UNCHANGED <<forbid, lock, held, begun, reported, status, result, alive,
                 signal, hit, hits, robbed>>

(* mktemp twice, then the job's command as a child. *)
StartCommand(r) ==
  /\ At(r, "temps")
  /\ alive' = [alive EXCEPT ![r] = TRUE]
  /\ Goto(r, "command")
  /\ UNCHANGED <<forbid, lock, held, begun, reported, status, result, signal,
                 log, unwritten, hit, hits, robbed>>

(* set -e: making the temporary files or replaying the output into the     *)
(* logs may fail, and ends the script.                                     *)
StepFails(r) ==
  /\ At(r, "temps") \/ At(r, "replay")
  /\ status' = [status EXCEPT ![r] = 1]
  /\ Goto(r, "exit")
  /\ UNCHANGED <<forbid, lock, held, begun, reported, result, alive, signal,
                 log, unwritten, hit, hits, robbed>>

(* The command ends, under its shell or after the shell was killed. *)
ResultDropped(r) ==       \* a mutant: $? is not kept
  /\ alive[r]
  /\ alive' = [alive EXCEPT ![r] = FALSE]
  /\ IF pc[r] = "command" THEN Goto(r, "replay") ELSE UNCHANGED pc
  /\ UNCHANGED <<forbid, lock, held, begun, reported, status, result, signal,
                 log, unwritten, hit, hits, robbed>>

CommandEnds(r) ==
  /\ alive[r]
  /\ alive' = [alive EXCEPT ![r] = FALSE]
  /\ IF pc[r] = "command"
     THEN /\ \E c \in Codes : result' = [result EXCEPT ![r] = c]
          /\ Goto(r, "replay")
     ELSE UNCHANGED <<result, pc>>
  /\ UNCHANGED <<forbid, lock, held, begun, reported, status, signal, log,
                 unwritten, hit, hits, robbed>>

(* The captured output goes to the logs, line by line. *)
ReplayOutput(r) ==
  /\ At(r, "replay")
  /\ Goto(r, "report")
  /\ UNCHANGED <<forbid, lock, held, begun, reported, status, result, alive,
                 signal, log, unwritten, hit, hits, robbed>>

(* finish_run: the flag first, the event after it, a line on stderr, which *)
(* may fail (set -e), then exit "$status".                                  *)
Report(r) ==
  /\ At(r, "report")
  /\ reported' = [reported EXCEPT ![r] = TRUE]
  /\ Goto(r, "finished")
  /\ UNCHANGED <<forbid, lock, held, begun, status, result, alive, signal,
                 log, unwritten, hit, hits, robbed>>

LogFinished(r) ==
  /\ At(r, "finished")
  /\ Logs(r, "job_finished", result[r])
  /\ \E code \in {result[r], 1} : status' = [status EXCEPT ![r] = code]
  /\ Goto(r, "exit")
  /\ UNCHANGED <<forbid, lock, held, begun, reported, result, alive, signal,
                 hit, hits, robbed>>

----------------------------------------------------------------------------
(* on_exit: finish_run for a run that has not been reported yet ... *)
ReportAgain(r) ==         \* a mutant: FINISH_REPORTED is not looked at
  /\ At(r, "exit")
  /\ reported' = [reported EXCEPT ![r] = TRUE]
  /\ Goto(r, IF begun[r] THEN "exit_finished" ELSE "unlock")
  /\ UNCHANGED <<forbid, lock, held, begun, status, result, alive, signal,
                 log, unwritten, hit, hits, robbed>>

UnlockOnly(r) ==          \* a mutant: on_exit without finish_run
  /\ At(r, "exit")
  /\ Goto(r, "unlock")
  /\ UNCHANGED <<forbid, lock, held, begun, reported, status, result, alive,
                 signal, log, unwritten, hit, hits, robbed>>

ExitReport(r) ==
  /\ At(r, "exit")
  /\ reported' = [reported EXCEPT ![r] = TRUE]
  /\ Goto(r, IF ~reported[r] /\ begun[r] THEN "exit_finished" ELSE "unlock")
  /\ UNCHANGED <<forbid, lock, held, begun, status, result, alive, signal,
                 log, unwritten, hit, hits, robbed>>

ExitLogFinished(r) ==
  /\ At(r, "exit_finished")
  /\ Logs(r, "job_finished", status[r])
  /\ Goto(r, "unlock")
  /\ UNCHANGED <<forbid, lock, held, begun, reported, status, result, alive,
                 signal, hit, hits, robbed>>

(* (a failure of its line on stderr is the end of the shell) ... *)
ExitLogFails(r) ==
  /\ At(r, "exit_finished")
  /\ Logs(r, "job_finished", status[r])
  /\ Gone(r, 1)
  /\ UNCHANGED <<forbid, lock, begun, reported, result, alive, hit, hits, robbed>>

(* ... and the lock directory goes, whoever made it: the test is whether   *)
(* LOCK_DIR has a value.  A lock serves the shell that made it and, when    *)
(* that was killed, the command it left running.                            *)
Holding(r) == held[r] = "made"
InUse(r)   == Holding(r) \/ alive[r]

UnlockOwn(r) ==           \* a mutant: only the lock this shell made goes
  /\ At(r, "unlock")
  /\ lock' = (lock /\ ~Holding(r))
  /\ Gone(r, status[r])
  /\ UNCHANGED <<forbid, begun, reported, result, alive, log, unwritten, hit,
                 hits, robbed>>

Unlock(r) ==
  /\ At(r, "unlock")
  /\ lock' = (lock /\ held[r] = "unset")
  /\ robbed' = \/ robbed
               \/ lock /\ held[r] = "named" /\ \E h \in Runs : InUse(h)
  /\ Gone(r, status[r])
  /\ UNCHANGED <<forbid, begun, reported, result, alive, log, unwritten, hit,
                 hits>>

----------------------------------------------------------------------------
Hit(r) ==
  /\ pc[r] # "idle"
  /\ hits < MaxHits
  /\ hits' = hits + 1
  /\ hit' = [hit EXCEPT ![r] = TRUE]

(* INT or TERM reaches a shell whose traps are set. *)
Signal(r) ==
  /\ Hit(r)
  /\ pc[r] \notin Untrapped
  /\ signal[r] = None
  /\ \E s \in SignalCodes : signal' = [signal EXCEPT ![r] = s]
  /\ UNCHANGED <<forbid, lock, pc, held, begun, reported, status, result,
                 alive, log, unwritten, robbed>>

(* Its handler runs once the current command is over, and exits. *)
TakeSignal(r) ==
  /\ pc[r] \in Body
  /\ signal[r] # None
  /\ ~alive[r]
  /\ status' = [status EXCEPT ![r] = signal[r]]
  /\ signal' = [signal EXCEPT ![r] = None]
  /\ Goto(r, "exit")
  /\ UNCHANGED <<forbid, lock, held, begun, reported, result, alive, log,
                 unwritten, hit, hits, robbed>>

(* In on_exit the handler's exit is the end of the shell. *)
TakeSignalInExit(r) ==
  /\ pc[r] \in OnExit
  /\ signal[r] # None
  /\ Gone(r, signal[r])
  /\ UNCHANGED <<forbid, lock, begun, reported, result, alive, log,
                 unwritten, hit, hits, robbed>>

(* KILL, a reboot, or any signal before the traps are set. *)
Kill(r) ==
  /\ Hit(r)
  /\ Gone(r, None)
  /\ UNCHANGED <<forbid, lock, begun, reported, result, alive, log,
                 unwritten, robbed>>

----------------------------------------------------------------------------
Step(r) ==
  \/ Setup(r) \/ SetupFails(r)
  \/ NameLock(r) \/ MakeLock(r) \/ SkipRun(r)
  \/ Begin(r) \/ LogStarted(r)
  \/ StartCommand(r) \/ StepFails(r)
  \/ ReplayOutput(r) \/ Report(r) \/ LogFinished(r)
  \/ ExitReport(r) \/ ExitLogFinished(r) \/ ExitLogFails(r) \/ Unlock(r)
  \/ TakeSignal(r) \/ TakeSignalInExit(r)

Next ==
  \E r \in Runs : Invoke(r) \/ Step(r) \/ CommandEnds(r) \/ Signal(r) \/ Kill(r)

Spec == Init /\ [][Next]_vars

(* The scheduler keeps ticking, the system runs a live shell, commands are *)
(* one-shot: they end, and the job's directory is not missing for ever.     *)
(* Nobody has to send a signal.                                             *)
FairSpec ==
  /\ Spec
  /\ \A r \in Runs :
       /\ WF_vars(Invoke(r)) /\ WF_vars(Step(r)) /\ WF_vars(CommandEnds(r))
       /\ SF_vars(Setup(r))

----------------------------------------------------------------------------
Entry == [event : {"job_started"}, code : {None}]
           \cup [event : {"job_finished"}, code : Codes \cup SignalCodes]

TypeOK ==
  /\ forbid \in BOOLEAN /\ lock \in BOOLEAN /\ robbed \in BOOLEAN
  /\ pc \in [Runs -> Labels]
  /\ held \in [Runs -> {"unset", "named", "made"}]
  /\ begun \in [Runs -> BOOLEAN]
  /\ reported \in [Runs -> BOOLEAN]
  /\ status \in [Runs -> Codes \cup SignalCodes \cup {None}]
  /\ result \in [Runs -> Codes \cup {None}]
  /\ alive \in [Runs -> BOOLEAN]
  /\ signal \in [Runs -> SignalCodes \cup {None}]
  /\ log \in [Runs -> Seq(Entry)]
  /\ unwritten \in [Runs -> BOOLEAN]
  /\ hit \in [Runs -> BOOLEAN]
  /\ hits \in 0 .. MaxHits

(* Two commands of a forbid job run at the same time, under their shells   *)
(* or orphaned by a kill, only after some shell removed a lock it had not   *)
(* made and that was in use.                                                *)
OverlapNeedsRobbery ==
  forbid /\ ~robbed =>
    \A r, s \in Runs : alive[r] /\ alive[s] => r = s

(* What SPEC.md:574 asks of forbid: a second invocation does not start     *)
(* while the previous one is running.                                       *)
NoOverlap ==
  forbid => \A r, s \in Runs : alive[r] /\ alive[s] => r = s

Finishes(r) == {i \in 1 .. Len(log[r]) : log[r][i].event = "job_finished"}

(* A run reports its end at most once, though both the body and on_exit do *)
(* it, and a success only when its command succeeded.                       *)
OneTrueReport ==
  \A r \in Runs : \A i, k \in Finishes(r) :
    /\ i = k
    /\ log[r][i].code = 0 => result[r] = 0

(* A run that was skipped has run no command and logged no event when its  *)
(* shell is gone, and leaves the scheduler a success: what on_exit does     *)
(* after the `exit 0` changes none of it, short of a signal, a kill or a    *)
(* log that cannot be written.                                              *)
SkippedRunsAreSilent ==
  [][\A r \in Runs :
       held[r] = "named" /\ pc'[r] = "idle" =>
         /\ log'[r] = <<>> /\ ~alive'[r]
         /\ status'[r] = 0 \/ hit'[r] \/ unwritten'[r]]_vars

(* A run that logged its start and not its end was signalled or killed, or *)
(* failed to write its end (wrapper.py:94).                                 *)
MissingFinishHasCause ==
  \A r \in Runs :
    pc[r] = "idle" /\ log[r] # <<>> /\ Finishes(r) = {} => hit[r] \/ unwritten[r]

(* A lock whose maker is gone does not keep the job from running for ever: *)
(* the next run to be skipped takes it away.                                *)
Stale == lock /\ \A r \in Runs : ~Holding(r)
StaleLockHeals == Stale ~> ~Stale
=============================================================================
