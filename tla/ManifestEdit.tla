----------------------------- MODULE ManifestEdit -----------------------------
(***************************************************************************)
(* Job commands on a project's YAML manifest: `xcron jobs add, update,     *)
(* enable, disable, remove, show`, each a process of its own.              *)
(*                                                                         *)
(* A command validates the manifest, loads it again, edits the copy,       *)
(* validates the copy, writes it to a temporary file IN THE SCHEDULES      *)
(* DIRECTORY, with the manifest's suffix, renames that over the manifest,  *)
(* and loads the manifest a third time to report.  Nothing is locked.      *)
(* A command that names no schedule takes the only YAML file there is, and *)
(* refuses when it finds two.                                              *)
(***************************************************************************)
EXTENDS Naturals, Sequences, SequencesExt

CONSTANTS
  Procs,       \* commands that may be alive at once
  Ids,         \* job identifiers, as written in the manifest
  MayMean,     \* <<n, i>>: `n` is `i`, or `i` qualified by the project's id
  Defs,        \* job definitions
  BadDefs,     \* the definitions that validation refuses
  Requests,    \* the commands given
  ByHand,      \* the contents the user may give the manifest
  Unparsable,  \* a file that is empty or not a YAML mapping
  NoFile,      \* the temporary file of a command that has none
  Disturbed    \* the directory has changed since the command started

Job      == [id : Ids, def : Defs, enabled : BOOLEAN]
Document == Seq(Job) \cup {Unparsable}

Request ==
  [op : {"add"}, name : Ids, def : Defs, enabled : BOOLEAN, named : BOOLEAN]
    \cup [op : {"update"}, name : Ids, def : Defs, named : BOOLEAN]
    \cup [op : {"switch"}, name : Ids, enabled : BOOLEAN, named : BOOLEAN]
    \cup [op : {"remove", "show"}, name : Ids, named : BOOLEAN]

ASSUME MatchesIsReflexive ==
  MayMean \subseteq Ids \X Ids /\ \A i \in Ids : <<i, i>> \in MayMean
ASSUME RequestsAssumption == Requests \subseteq Request
ASSUME ByHandAssumption   == ByHand \subseteq Document
ASSUME MarkersAreApart    ==
  /\ Unparsable \notin Seq(Job)
  /\ NoFile \notin Document
  /\ Disturbed \notin Document

VARIABLES
  manifest,   \* content of the manifest
  strays,     \* temporary files were left behind in the schedules directory
  temp,       \* the temporary file of each command
  doing,      \* the step each command is at, or how it ended
  run         \* what each command holds in memory

vars == <<manifest, strays, temp, doing, run>>

----------------------------------------------------------------------------
(* Schema and semantic validation: a mapping, no refused definition, no    *)
(* identifier twice.                                                       *)
Valid(doc) ==
  /\ doc # Unparsable
  /\ \A i \in DOMAIN doc : doc[i].def \notin BadDefs
  /\ \A i, k \in DOMAIN doc : doc[i].id = doc[k].id => i = k

(* The positions that a local or qualified identifier may mean; the editor *)
(* takes the first.                                                        *)
Hits(doc, name)  == {i \in DOMAIN doc : <<name, doc[i].id>> \in MayMean}
First(doc, name) == CHOOSE i \in Hits(doc, name) :
                      \A k \in Hits(doc, name) : i <= k

CanEdit(r, doc) ==
  IF r.op = "add" THEN \A i \in DOMAIN doc : doc[i].id # r.name
                  ELSE Hits(doc, r.name) # {}

EditAllHits(r, doc) ==    \* a mutant: remove takes every match, not the first
  CASE r.op = "add"    -> Append(doc, [id |-> r.name, def |-> r.def,
                                       enabled |-> r.enabled])
    [] r.op = "update" -> [doc EXCEPT ![First(doc, r.name)].def = r.def]
    [] r.op = "switch" -> [doc EXCEPT ![First(doc, r.name)].enabled = r.enabled]
    [] r.op = "remove" ->
         SelectSeq(doc, LAMBDA job : <<r.name, job.id>> \notin MayMean)
    [] r.op = "show"   -> doc

EditOf(r, doc) ==
  CASE r.op = "add"    -> Append(doc, [id |-> r.name, def |-> r.def,
                                       enabled |-> r.enabled])
    [] r.op = "update" -> [doc EXCEPT ![First(doc, r.name)].def = r.def]
    [] r.op = "switch" -> [doc EXCEPT ![First(doc, r.name)].enabled = r.enabled]
    [] r.op = "remove" -> RemoveAt(doc, First(doc, r.name))
    [] r.op = "show"   -> doc

(* The manifest is named, or it is the only YAML file of the directory.    *)
Selectable(r) == r.named \/ (~strays /\ \A q \in Procs : temp[q] = NoFile)

Ended == {"idle", "done", "refused"}
NoRun == [req |-> Unparsable, began |-> Disturbed,
          base |-> Unparsable, draft |-> Unparsable]

----------------------------------------------------------------------------
Init ==
  /\ manifest = << >>
  /\ strays = FALSE
  /\ temp = [p \in Procs |-> NoFile]
  /\ doing = [p \in Procs |-> "idle"]
  /\ run = [p \in Procs |-> NoRun]

(* The runs, when someone changes the directory: p is the one who does.    *)
Disturb(p) == [q \in Procs |-> IF q = p THEN run[q]
                               ELSE [run[q] EXCEPT !.began = Disturbed]]
DisturbAll == [q \in Procs |-> [run[q] EXCEPT !.began = Disturbed]]

(* The user edits the manifest, or deletes what a dead command left.       *)
EditByHand ==
  /\ manifest' \in ByHand
  /\ run' = DisturbAll
  /\ UNCHANGED <<strays, temp, doing>>

DeleteStrays ==
  /\ strays
  /\ strays' = FALSE
  /\ run' = DisturbAll
  /\ UNCHANGED <<manifest, temp, doing>>

Start(p, r) ==
  /\ doing[p] \in Ended
  /\ doing' = [doing EXCEPT ![p] = "validate"]
  /\ run' = [run EXCEPT ![p] = [NoRun EXCEPT !.req = r, !.began = manifest]]
  /\ UNCHANGED <<manifest, strays, temp>>

End(p, how) ==
  /\ doing' = [doing EXCEPT ![p] = how]
  /\ run' = [run EXCEPT ![p] = NoRun]

(* First load: the scheduler capability validates the project, and `show`  *)
(* looks the job up in what it read.                                       *)
PassesFirst(r) ==
  /\ Selectable(r)
  /\ Valid(manifest)
  /\ r.op = "show" => Hits(manifest, r.name) # {}

Validate(p) ==
  /\ doing[p] = "validate"
  /\ \/ /\ PassesFirst(run[p].req)
        /\ doing' = [doing EXCEPT ![p] =
                    IF run[p].req.op = "show" THEN "lookup" ELSE "mutate"]
        /\ UNCHANGED run
     \/ ~PassesFirst(run[p].req) /\ End(p, "refused")
  /\ UNCHANGED <<manifest, strays, temp>>

(* `show` loads and validates the manifest again for the raw job.          *)
Lookup(p) ==
  /\ doing[p] = "lookup"
  /\ End(p, IF PassesFirst(run[p].req) THEN "done" ELSE "refused")
  /\ UNCHANGED <<manifest, strays, temp>>

(* Second load: the edit is made on this copy and the result validated; a  *)
(* result that equals the copy is not written.                             *)
Acceptable(r, doc) ==
  /\ doc # Unparsable
  /\ CanEdit(r, doc)
  /\ Valid(EditOf(r, doc))

MutateUnchecked(p) ==     \* a mutant: the result is not validated
  /\ doing[p] = "mutate"
  /\ LET r == run[p].req
         ok == Selectable(r) /\ manifest # Unparsable /\ CanEdit(r, manifest)
     IN  \/ /\ ok
            /\ doing' = [doing EXCEPT ![p] = "create"]
            /\ run' = [run EXCEPT ![p].base = manifest,
                                  ![p].draft = EditOf(r, manifest)]
         \/ ~ok /\ End(p, "refused")
  /\ UNCHANGED <<manifest, strays, temp>>

Mutate(p) ==
  /\ doing[p] = "mutate"
  /\ LET r == run[p].req
         ok == Selectable(r) /\ Acceptable(r, manifest)
     IN  \/ /\ ok
            /\ EditOf(r, manifest) # manifest
            /\ doing' = [doing EXCEPT ![p] = "create"]
            /\ run' = [run EXCEPT ![p].base = manifest,
                                  ![p].draft = EditOf(r, manifest)]
         \/ /\ ok
            /\ EditOf(r, manifest) = manifest
            /\ doing' = [doing EXCEPT ![p] = "report"]
            /\ UNCHANGED run
         \/ ~ok /\ End(p, "refused")
  /\ UNCHANGED <<manifest, strays, temp>>

(* The temporary file appears empty, is filled, and becomes the manifest.  *)
CreateTemp(p) ==
  /\ doing[p] = "create"
  /\ temp' = [temp EXCEPT ![p] = Unparsable]
  /\ doing' = [doing EXCEPT ![p] = "fill"]
  /\ run' = Disturb(p)
  /\ UNCHANGED <<manifest, strays>>

FillTemp(p) ==
  /\ doing[p] = "fill"
  /\ temp' = [temp EXCEPT ![p] = run[p].draft]
  /\ doing' = [doing EXCEPT ![p] = "replace"]
  /\ UNCHANGED <<manifest, strays, run>>

CopyTemp(p) ==            \* a mutant: copied over the manifest, not renamed
  /\ doing[p] = "replace"
  /\ manifest' = temp[p]
  /\ doing' = [doing EXCEPT ![p] = "report"]
  /\ run' = [Disturb(p) EXCEPT ![p].base = Unparsable, ![p].draft = Unparsable]
  /\ UNCHANGED <<strays, temp>>

UnlinkFirst(p) ==         \* a mutant: the temporary file is gone before it is moved
  /\ doing[p] = "replace"
  /\ manifest' = NoFile
  /\ temp' = [temp EXCEPT ![p] = NoFile]
  /\ doing' = [doing EXCEPT ![p] = "report"]
  /\ run' = [Disturb(p) EXCEPT ![p].base = Unparsable, ![p].draft = Unparsable]
  /\ UNCHANGED strays

Replace(p) ==
  /\ doing[p] = "replace"
  /\ manifest' = temp[p]
  /\ temp' = [temp EXCEPT ![p] = NoFile]
  /\ doing' = [doing EXCEPT ![p] = "report"]
  /\ run' = [Disturb(p) EXCEPT ![p].base = Unparsable, ![p].draft = Unparsable]
  /\ UNCHANGED strays

(* Third load: the manifest is read and validated again for the answer,    *)
(* which is an error, the edit being made, when that fails.                *)
Report(p) ==
  /\ doing[p] = "report"
  /\ End(p, IF Selectable(run[p].req) /\ Valid(manifest) THEN "done"
                                                         ELSE "refused")
  /\ UNCHANGED <<manifest, strays, temp>>

(* A kill, or an exception that is no ManifestError (a write that fails):  *)
(* delete=False keeps the temporary file and nothing removes it.           *)
AbortEdit(p) ==
  /\ doing[p] \notin Ended
  /\ strays' = (strays \/ temp[p] # NoFile)
  /\ temp' = [temp EXCEPT ![p] = NoFile]
  /\ End(p, "idle")
  /\ UNCHANGED manifest

----------------------------------------------------------------------------
Step(p) ==
  \/ Validate(p) \/ Lookup(p) \/ Mutate(p)
  \/ CreateTemp(p) \/ FillTemp(p) \/ Replace(p)
  \/ Report(p)

Next ==
  \/ EditByHand \/ DeleteStrays
  \/ \E p \in Procs : (\E r \in Requests : Start(p, r)) \/ Step(p) \/ AbortEdit(p)

Spec == Init /\ [][Next]_vars

----------------------------------------------------------------------------
Labels == Ended \cup {"validate", "lookup", "mutate", "create", "fill",
                      "replace", "report"}

Run == [req : Request \cup {Unparsable}, began : Document \cup {Disturbed},
        base : Document, draft : Document]

TypeOK ==
  /\ manifest \in Document
  /\ strays \in BOOLEAN
  /\ temp \in [Procs -> Document \cup {NoFile}]
  /\ doing \in [Procs -> Labels]
  /\ run \in [Procs -> Run]

(* Whatever the manifest was and whoever else writes it, a command leaves  *)
(* it whole and valid (_editor.py:189-192): never torn, no refused          *)
(* definition, no identifier twice.                                        *)
CommandsWriteValid ==
  [][\A p \in Procs :
       doing[p] = "replace" /\ manifest' # manifest /\ doing'[p] = "report"
         => Valid(manifest')]_vars

(* What others than the jobs that go by id are in two documents is the     *)
(* same, in the same order: `at` says where each of them went.             *)
OthersOf(doc, id) == {n \in 1 .. Len(doc) : doc[n].id # id}

KeepsOthers(old, new, id) ==
  \E at \in [OthersOf(old, id) -> OthersOf(new, id)] :
    /\ \A n \in OthersOf(old, id) : new[at[n]] = old[n]
    /\ \A n, k \in OthersOf(old, id) : n < k => at[n] < at[k]
    /\ \A k \in OthersOf(new, id) : \E n \in OthersOf(old, id) : at[n] = k

(* A command whose copy is not stale changes one job, one that it may have *)
(* been asked for, and keeps every other as and where it was.  With a       *)
(* stale copy it puts back what others changed meanwhile: nothing locks     *)
(* the manifest.                                                            *)
FreshEditTouchesOneJob ==
  [][\A p \in Procs :
       doing[p] = "replace" /\ doing'[p] = "report" /\ run[p].base = manifest =>
         \E i \in Ids :
           /\ <<run[p].req.name, i>> \in MayMean
           /\ KeepsOthers(manifest, manifest', i)]_vars

(* What 02-target-architecture.md:173 says, "edits are atomic or refused": *)
(* a command in whose time nobody else touched the directory is carried    *)
(* out in full on the manifest it found, or refused, for a reason that lay  *)
(* in that manifest, and changes nothing; its temporary file is gone.      *)
LoneCommandsAreAtomic ==
  [][\A p \in Procs :
       LET r == run[p].req
           doc == run[p].began
           fits == /\ Selectable(r) /\ Valid(doc)
                   /\ IF r.op = "show" THEN Hits(doc, r.name) # {}
                                       ELSE Acceptable(r, doc)
       IN  doing[p] \notin Ended /\ doc # Disturbed =>
             /\ doing'[p] = "done"    => fits /\ manifest' = EditOf(r, doc)
             /\ doing'[p] = "refused" => ~fits /\ manifest' = doc
             /\ doing'[p] \in Ended   => temp'[p] = NoFile]_vars

=============================================================================
