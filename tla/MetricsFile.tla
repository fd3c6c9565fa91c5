------------------------------ MODULE MetricsFile ------------------------------
(***************************************************************************)
(* The one file of counters of a machine.  Commands of xcron add to it and *)
(* reset it through capabilities/xcron-capability-metrics-local            *)
(* (provider.py); every wrapper adds to it from the script in `xcron_metric`*)
(* (scheduler_native/wrapper.py).  No lock, and two ways to write: xcron   *)
(* replaces the file, a wrapper empties it and writes in place.            *)
(*                                                                         *)
(* A file that is absent, empty or does not parse reads as no counters, so *)
(* the file is its counts and an unreadable one is all zeros.              *)
(***************************************************************************)
EXTENDS Naturals, FiniteSets

CONSTANTS
  Commands,   \* xcron processes
  Wrappers,   \* wrapper processes
  Counters,   \* names of counters
  MaxBumps,   \* bound: additions begun, per counter
  MaxResets   \* bound: resets begun

ASSUME MetricsAssumption ==
  /\ Commands \cap Wrappers = {}
  /\ MaxBumps \in Nat /\ MaxResets \in Nat

VARIABLES
  counts,     \* [Counters -> Nat], what the file reads as
  step,       \* where each process stands
  draft,      \* [processes -> [Counters -> Nat]], what each is about to write
  handle,     \* wrappers whose open file is the current one
  overlaid,   \* those of them after whose opening another filled the file
  bumps,      \* [Counters -> Nat], history: additions begun
  since,      \* [Counters -> Nat], history: additions since the last lone reset
  resets,     \* resets begun
  harmed      \* history: an update overlapped, died or failed since the last lone reset

metricsVars == <<counts, step, draft, handle, overlaid, bumps, since, resets, harmed>>

Writers == Commands \cup Wrappers
UpdateSteps == {"idle", "adding", "resetting", "filling"}
Empty == [c \in Counters |-> 0]
Add(m, c) == [m EXCEPT ![c] = @ + 1]

Busy == {p \in Writers : step[p] # "idle"}
Move(p, s) == step' = [step EXCEPT ![p] = s]

MetricsInit ==
  /\ counts = Empty
  /\ step = [p \in Writers |-> "idle"]
  /\ draft = [p \in Writers |-> Empty]
  /\ handle = {} /\ overlaid = {}
  /\ bumps = Empty /\ since = Empty
  /\ resets = 0
  /\ harmed = FALSE

\* LocalMetricsStore.increment up to its write: read, add one.
Increment(p, c) ==
  /\ step[p] = "idle"
  /\ bumps[c] < MaxBumps
  /\ draft' = [draft EXCEPT ![p] = Add(counts, c)]
  /\ Move(p, "adding")
  /\ bumps' = Add(bumps, c)
  /\ since' = Add(since, c)
  /\ harmed' = (harmed \/ Busy # {})
  /\ UNCHANGED <<counts, handle, overlaid, resets>>

\* Mutant: reset writes back what it read for its answer.
ResetKeepsCounts(p) ==
  /\ step[p] = "idle"
  /\ resets < MaxResets
  /\ resets' = resets + 1
  /\ draft' = [draft EXCEPT ![p] = counts]
  /\ Move(p, "resetting")
  /\ since' = Empty
  /\ harmed' = (Busy # {})
  /\ UNCHANGED <<counts, handle, overlaid, bumps>>

\* LocalMetricsStore.reset up to its write.
Reset(p) ==
  /\ step[p] = "idle"
  /\ resets < MaxResets
  /\ resets' = resets + 1
  /\ draft' = [draft EXCEPT ![p] = Empty]
  /\ Move(p, "resetting")
  /\ since' = Empty
  /\ harmed' = (Busy # {})
  /\ UNCHANGED <<counts, handle, overlaid, bumps>>

\* _write: a temporary file replaces the store; a wrapper that holds the old one writes
\* into a file nobody will read.
Swap(p) ==
  /\ p \in Commands /\ step[p] \in {"adding", "resetting"}
  /\ counts' = draft[p]
  /\ handle' = {} /\ overlaid' = {}
  /\ Move(p, "idle")
  /\ UNCHANGED <<draft, bumps, since, resets, harmed>>

\* xcron_metric: path.write_text empties the file ...
Truncate(p) ==
  /\ p \in Wrappers /\ step[p] = "adding"
  /\ counts' = Empty
  /\ handle' = handle \cup {p}
  /\ overlaid' = {}
  /\ Move(p, "filling")
  /\ UNCHANGED <<draft, bumps, since, resets, harmed>>

\* ... and fills it: over the text of another, whose longer tail may spoil the whole.
Fill(p) ==
  /\ p \in Wrappers /\ step[p] = "filling"
  /\ counts' \in IF p \notin handle THEN {counts}
                 ELSE {draft[p]} \cup (IF p \in overlaid THEN {Empty} ELSE {})
  /\ overlaid' = IF p \in handle THEN handle \ {p} ELSE overlaid
  /\ handle' = handle \ {p}
  /\ Move(p, "idle")
  /\ UNCHANGED <<draft, bumps, since, resets, harmed>>

\* The process dies, or its write fails and the error is swallowed.
Abort(p) ==
  /\ step[p] # "idle"
  /\ Move(p, "idle")
  /\ handle' = handle \ {p}
  /\ overlaid' = overlaid \ {p}
  /\ harmed' = TRUE
  /\ UNCHANGED <<counts, draft, bumps, since, resets>>

MetricsNext ==
  \/ \E p \in Writers, c \in Counters : Increment(p, c)
  \/ \E p \in Commands : Reset(p) \/ Swap(p)
  \/ \E p \in Wrappers : Truncate(p) \/ Fill(p)
  \/ \E p \in Writers : Abort(p)

MetricsSpec == MetricsInit /\ [][MetricsNext]_metricsVars

\* Every variable stays within what the store and the wrappers' script handle.
MetricsTypeOK ==
  /\ counts \in [Counters -> 0..MaxBumps] /\ bumps \in [Counters -> 0..MaxBumps]
  /\ since \in [Counters -> 0..MaxBumps] /\ draft \in [Writers -> [Counters -> 0..MaxBumps]]
  /\ step \in [Writers -> UpdateSteps]
  /\ overlaid \subseteq handle /\ handle \subseteq Wrappers
  /\ resets \in 0..MaxResets /\ harmed \in BOOLEAN

\* "Best effort", but honest: whatever overlaps, fails or dies, no counter shows more than
\* was counted; and once all is quiet every counter is exact, since the last reset that ran
\* alone, unless updates overlapped, died or failed after it.
MetricsAreHonest ==
  /\ \A c \in Counters : counts[c] <= bumps[c]
  /\ Busy = {} /\ ~harmed => counts = since
=============================================================================
