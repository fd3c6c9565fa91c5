------------------------------- MODULE AgentHooks -------------------------------
(***************************************************************************)
(* capabilities/xcron-capability-agent-hooks-local: `xcron hooks install`  *)
(* and `repair` put the session hooks of one xcron executable into three   *)
(* files of a project (Codex's config.toml and hooks.json, Claude's        *)
(* settings.json), each read, amended and written in place, one after the  *)
(* other; `hooks status` looks for them.                                   *)
(*                                                                         *)
(* config.toml is its sequence of lines, by kind; a JSON file the commands *)
(* under its two events, or "bad": one that install cannot read (cut       *)
(* short, not JSON, not the shape it expects).                             *)
(***************************************************************************)
EXTENDS Naturals, Sequences, SequencesExt

CONSTANTS
  Installers, \* processes that install
  Exes,       \* paths of xcron executables, one hook command each
  ExeOf,      \* [Installers -> Exes], the executable each installs
  Spaced,     \* those whose path has a space in it
  Configs,    \* config.toml files to begin with
  HookFiles   \* JSON files to begin with

VARIABLES
  toml,       \* the lines of config.toml
  json,       \* [Files -> FileContents], Codex's and Claude's
  at,         \* where each installer stands
  origin,     \* history: the files as the installer found them
  apart       \* history: installers during whose run nobody else wrote

hooksVars == <<toml, json, at, origin, apart>>

\* The lines that matter: the table's header, one with a comment behind it, another
\* table's header, the feature on, off or spaced otherwise, a key that begins with its
\* name, a comment that spells it out, any other line.
LineKinds == {"[features]", "[features]#", "[other]", "on", "off", "similar", "note", "line"}
Header(l) == l \in {"[features]", "[features]#", "[other]"}
NamesFeature(l) == l \in {"on", "off", "similar"}

\* A hook command: an executable's own, one of somebody else that ends the same way
\* ("wrapped"), or one that does not ("other").
Hooks == Exes \cup {"wrapped", "other"}
Broken == [bad |-> TRUE, start |-> <<>>, end |-> <<>>]

\* Codex's hooks.json and Claude's settings.json, and what they may hold.
Files == {"codex", "claude"}
FileContents == [bad : BOOLEAN, start : Seq(Hooks), end : Seq(Hooks)]

ASSUME HooksAssumption ==
  /\ Spaced \subseteq Exes /\ ExeOf \in [Installers -> Exes] /\ "other" \notin Exes
  /\ Configs \subseteq Seq(LineKinds) /\ HookFiles \subseteq FileContents

-----------------------------------------------------------------------------
(* The amendments *)

\* The [features] tables, and where in the first one the search for the feature ends: at
\* the feature, at the next header, or behind the last line.
Tables(lines) == {i \in DOMAIN lines : lines[i] = "[features]"}
Stops(lines) ==
  {i \in (Min(Tables(lines)) + 1)..Len(lines) : Header(lines[i]) \/ NamesFeature(lines[i])}
Stop(lines) == IF Stops(lines) = {} THEN Len(lines) + 1 ELSE Min(Stops(lines))

\* _ensure_codex_config: turn the feature on in the first [features] table, or add one.
EnsureConfig(lines) ==
  IF Tables(lines) = {} THEN lines \o <<"[features]", "on">>
  ELSE IF Stop(lines) \in DOMAIN lines /\ NamesFeature(lines[Stop(lines)])
       THEN [lines EXCEPT ![Stop(lines)] = "on"]
       ELSE InsertAt(lines, Stop(lines), "on")

\* existing.endswith(suffix), the suffix being the command from its first space on: of a
\* path with a space that is the rest of the path too.
EndsAlike(h, e) == IF e \in Spaced THEN h = e ELSE h \in Exes \cup {"wrapped"}

\* Mutant: every install adds its entry.
AddEntry(entries, e) == Append(entries, e)

\* _upsert: the first entry that ends alike becomes this executable's, else one is added.
Upsert(entries, e) ==
  LET alike == {i \in DOMAIN entries : EndsAlike(entries[i], e)}
  IN  IF alike = {} THEN Append(entries, e)
      ELSE [entries EXCEPT ![Min(alike)] = e]

\* _ensure_codex_hooks_file, _ensure_settings: both events of the file.
EnsureHooks(f, e) == [bad |-> f.bad, start |-> Upsert(f.start, e), end |-> Upsert(f.end, e)]

\* inspect_codex_hooks: the feature counts as on when the text is anywhere in the file.
FeatureEnabled(lines) == \E i \in DOMAIN lines : lines[i] \in {"on", "note"}
Matches(f, e) == ~f.bad /\ e \in Range(f.start) /\ e \in Range(f.end)

\* What hooks status reports for one executable.
Status(t, j, e) == FeatureEnabled(t) /\ Matches(j["codex"], e) /\ Matches(j["claude"], e)

-----------------------------------------------------------------------------
(* install, repair *)

InstallSteps == {"idle", "config", "fill config", "codex", "fill codex", "claude", "fill claude", "dead"}
Installing(i) == at[i] \notin {"idle", "dead"}
Advance(i, s) == at' = [at EXCEPT ![i] = s]
FillStep(f) == IF f = "codex" THEN "fill codex" ELSE "fill claude"

HooksInit ==
  /\ toml \in Configs
  /\ json \in [Files -> HookFiles]
  /\ at = [i \in Installers |-> "idle"]
  /\ origin = [i \in Installers |-> [toml |-> toml, json |-> json]]
  /\ apart = {}

Install(i) ==
  /\ at[i] = "idle"
  /\ Advance(i, "config")
  /\ origin' = [origin EXCEPT ![i] = [toml |-> toml, json |-> json]]
  /\ apart' = apart \cup {i}
  /\ UNCHANGED <<toml, json>>

\* A file whose amendment changes it is emptied ...
EmptyConfig(i) ==
  /\ at[i] = "config"
  /\ IF EnsureConfig(toml) = toml
     THEN Advance(i, "codex") /\ UNCHANGED <<toml, origin, apart>>
     ELSE /\ Advance(i, "fill config")
          /\ origin' = [origin EXCEPT ![i].toml = toml]
          /\ toml' = <<>>
          /\ apart' = apart \cap {i}
  /\ UNCHANGED json

\* ... and filled with what was read before, amended.
FillConfig(i) ==
  /\ at[i] = "fill config"
  /\ toml' = EnsureConfig(origin[i].toml)
  /\ Advance(i, "codex")
  /\ apart' = apart \cap {i}
  /\ UNCHANGED <<json, origin>>

\* The same of a JSON file, but one that install cannot read ends it, raising, with the
\* files before it already amended.
EmptyHooks(i, f, next) ==
  /\ at[i] = f
  /\ IF json[f].bad \/ EnsureHooks(json[f], ExeOf[i]) = json[f]
     THEN /\ Advance(i, IF json[f].bad THEN "idle" ELSE next)
          /\ UNCHANGED <<json, origin, apart>>
     ELSE /\ Advance(i, FillStep(f))
          /\ origin' = [origin EXCEPT ![i].json[f] = json[f]]
          /\ json' = [json EXCEPT ![f] = Broken]
          /\ apart' = apart \cap {i}
  /\ UNCHANGED toml

FillHooks(i, f, next) ==
  /\ at[i] = FillStep(f)
  /\ json' = [json EXCEPT ![f] = EnsureHooks(origin[i].json[f], ExeOf[i])]
  /\ Advance(i, next)
  /\ apart' = apart \cap {i}
  /\ UNCHANGED <<toml, origin>>

DieInstall(i) ==
  /\ Installing(i)
  /\ Advance(i, "dead")
  /\ UNCHANGED <<toml, json, origin, apart>>

HooksNext ==
  \E i \in Installers :
    \/ Install(i) \/ EmptyConfig(i) \/ FillConfig(i)
    \/ EmptyHooks(i, "codex", "claude") \/ FillHooks(i, "codex", "claude")
    \/ EmptyHooks(i, "claude", "idle") \/ FillHooks(i, "claude", "idle")
    \/ DieInstall(i)

HooksSpec == HooksInit /\ [][HooksNext]_hooksVars

-----------------------------------------------------------------------------
(* Properties *)

\* Every variable stays within what install handles.
HooksTypeOK ==
  /\ Range(toml) \subseteq LineKinds
  /\ at \in [Installers -> InstallSteps]
  /\ \A f \in Files :
       Range(json[f].start) \cup Range(json[f].end) \subseteq Hooks
  /\ apart \subseteq Installers

\* What install may do to one event's entries: make one of them its own, adding one only
\* where none ended alike; every other entry stays where it was, and nothing of others
\* is the one.
Respects(old, new, e) ==
  /\ Len(new) = Len(old) + (IF \E h \in Range(old) : EndsAlike(h, e) THEN 0 ELSE 1)
  /\ \E k \in DOMAIN new :
       /\ new[k] = e /\ (k \in DOMAIN old => old[k] # "other")
       /\ \A i \in DOMAIN new \ {k} : i \in DOMAIN old /\ new[i] = old[i]

\* An install during which nobody else wrote returns with a status that matches, has kept
\* what is not its own, and is idempotent: the next one changes nothing.  It fails only
\* on a file that cannot be read, and then leaves that file as it was.
InstallSettles ==
  [][\A i \in Installers : Installing(i) /\ at'[i] = "idle" /\ i \in apart =>
       LET e == ExeOf[i]
           bad == {f \in Files : origin[i].json[f].bad}
       IN
       /\ EnsureConfig(toml') = toml'
       /\ Range(origin[i].toml) \ {"off", "similar"} \subseteq Range(toml')
       /\ bad = {} =>
            /\ Status(toml', json', e)
            /\ \A f \in Files :
                 /\ EnsureHooks(json'[f], e) = json'[f]
                 /\ Respects(origin[i].json[f].start, json'[f].start, e)
                 /\ Respects(origin[i].json[f].end, json'[f].end, e)
       /\ \A f \in bad : json'[f] = origin[i].json[f]
    ]_hooksVars
=============================================================================
