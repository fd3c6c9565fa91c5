------------------------- MODULE ManifestEdit_proofs --------------------------
(***************************************************************************)
(* Proofs about ManifestEdit: type correctness, that commands write valid  *)
(* manifests, that an edit on a copy that is not stale touches its one job *)
(* alone, and that a command left alone is atomic or refused.              *)
(***************************************************************************)
EXTENDS ManifestEdit, SequenceTheorems, WellFoundedInduction, TLAPS

USE MatchesIsReflexive, RequestsAssumption, ByHandAssumption, MarkersAreApart

(* A set of positions that is not empty has a least one. *)
LEMMA LeastPosition ==
  ASSUME NEW S \in SUBSET Nat, S # {}
  PROVE  \E i \in S : \A k \in S : i <= k
<1> DEFINE Less == OpToRel(<, Nat)
<1>1. IsWellFoundedOn(Less, Nat)
  BY NatLessThanWellFounded
<1>2. \A a, b \in Nat : a < b => <<a, b>> \in Less
  BY DEF OpToRel
<1> HIDE DEF Less
<1>3. PICK i \in S : \A k \in S : ~(<<k, i>> \in Less)
  BY <1>1, WFMin
<1>4. \A k \in S : ~(k < i)
  BY <1>2, <1>3
<1>5. \A k \in S : i <= k
  BY <1>4
<1> QED
  BY <1>5

LEMMA FirstIsAHit ==
  ASSUME NEW doc \in Seq(Job), NEW name, Hits(doc, name) # {}
  PROVE  First(doc, name) \in Hits(doc, name) /\ First(doc, name) \in 1 .. Len(doc)
<1>1. Hits(doc, name) \in SUBSET Nat /\ Hits(doc, name) \subseteq 1 .. Len(doc)
  BY DEF Hits
<1>2. \E i \in Hits(doc, name) : \A k \in Hits(doc, name) : i <= k
  BY <1>1, LeastPosition
<1>3. First(doc, name) \in Hits(doc, name)
  BY <1>2 DEF First
<1> QED
  BY <1>1, <1>3

(* An edit of a list of jobs that finds its job is a list of jobs. *)
LEMMA EditIsDocument ==
  ASSUME NEW doc \in Seq(Job), NEW r \in Request, CanEdit(r, doc)
  PROVE  EditOf(r, doc) \in Seq(Job)
<1> DEFINE i == First(doc, r.name)
<1>1. CASE r.op = "add"
  <2>1. [id |-> r.name, def |-> r.def, enabled |-> r.enabled] \in Job
    BY <1>1 DEF Request, Job
  <2>2. EditOf(r, doc) = Append(doc, [id |-> r.name, def |-> r.def, enabled |-> r.enabled])
    BY <1>1 DEF EditOf
  <2> QED
    BY <2>1, <2>2, AppendProperties
<1>2. ASSUME r.op # "add"
      PROVE  i \in 1 .. Len(doc) /\ doc[i] \in Job
  <2>1. Hits(doc, r.name) # {}
    BY <1>2 DEF CanEdit
  <2> QED
    BY <2>1, FirstIsAHit, ElementOfSeq
<1>3. CASE r.op = "update"
  <2>1. [doc[i] EXCEPT !.def = r.def] \in Job
    BY <1>2, <1>3 DEF Request, Job
  <2>2. EditOf(r, doc) = [doc EXCEPT ![i] = [doc[i] EXCEPT !.def = r.def]]
    BY <1>3 DEF EditOf
  <2> QED
    BY <1>2, <1>3, <2>1, <2>2, ExceptSeq
<1>4. CASE r.op = "switch"
  <2>1. [doc[i] EXCEPT !.enabled = r.enabled] \in Job
    BY <1>2, <1>4 DEF Request, Job
  <2>2. EditOf(r, doc) = [doc EXCEPT ![i] = [doc[i] EXCEPT !.enabled = r.enabled]]
    BY <1>4 DEF EditOf
  <2> QED
    BY <1>2, <1>4, <2>1, <2>2, ExceptSeq
<1>5. CASE r.op = "remove"
  <2> HIDE DEF i
  <2>1. SubSeq(doc, 1, i - 1) \in Seq(Job) /\ SubSeq(doc, i + 1, Len(doc)) \in Seq(Job)
    BY <1>2, <1>5, SubSeqProperties, ElementOfSeq, LenProperties
  <2>2. EditOf(r, doc) = SubSeq(doc, 1, i - 1) \o SubSeq(doc, i + 1, Len(doc))
    BY <1>5 DEF EditOf, RemoveAt, i
  <2> QED
    BY <2>1, <2>2, ConcatProperties
<1>6. CASE r.op = "show"
  BY <1>6 DEF EditOf
<1> QED
  BY <1>1, <1>3, <1>4, <1>5, <1>6 DEF Request

----------------------------------------------------------------------------
(* A command at work has a request; what it is about to write is valid; its *)
(* temporary file holds nothing, or that.                                   *)
Working ==
  \A p \in Procs :
    /\ doing[p] \notin Ended => run[p].req \in Request
    /\ doing[p] \in {"create", "fill", "replace"} =>
         run[p].draft \in Seq(Job) /\ Valid(run[p].draft)
    /\ temp[p] = CASE doing[p] = "fill"    -> Unparsable
                   [] doing[p] = "replace" -> run[p].draft
                   [] OTHER             -> NoFile

Types == TypeOK /\ Working

LEMMA DisturbedRuns ==
  ASSUME run \in [Procs -> Run], NEW p \in Procs
  PROVE  /\ DisturbAll \in [Procs -> Run]
         /\ Disturb(p) \in [Procs -> Run]
         /\ Disturb(p)[p] = run[p]
         /\ \A q \in Procs : /\ DisturbAll[q].req = run[q].req
                             /\ DisturbAll[q].draft = run[q].draft
                             /\ DisturbAll[q].base = run[q].base
                             /\ DisturbAll[q].began = Disturbed
                             /\ Disturb(p)[q].req = run[q].req
                             /\ Disturb(p)[q].draft = run[q].draft
                             /\ Disturb(p)[q].base = run[q].base
                             /\ q # p => Disturb(p)[q].began = Disturbed
  BY DEF DisturbAll, Disturb, Run

LEMMA NoRunIsRun == NoRun \in Run
  BY DEF NoRun, Run, Document

LEMMA TypesInit == Init => Types
<1> SUFFICES ASSUME Init PROVE Types
  OBVIOUS
<1>1. << >> \in Seq(Job)
  BY EmptySeq
<1>2. TypeOK
  BY <1>1, NoRunIsRun DEF Init, TypeOK, Document, Labels, Ended
<1>3. Working
  BY DEF Init, Working, Ended
<1> QED
  BY <1>2, <1>3 DEF Types

LEMMA EndKeepsTypes ==
  ASSUME Types, NEW p \in Procs, NEW how \in Ended, End(p, how),
         manifest' = manifest, strays' = strays, temp' = temp,
         doing[p] \notin {"fill", "replace"}
  PROVE  Types'
<1>1. TypeOK'
  BY NoRunIsRun DEF Types, TypeOK, End, Labels
<1>2. Working'
  BY DEF Types, TypeOK, Working, End, Ended
<1> QED
  BY <1>1, <1>2 DEF Types

(* A document that can be edited is a list of jobs, and so is the result. *)
LEMMA AcceptedEdit ==
  ASSUME Types, NEW r \in Request, Acceptable(r, manifest)
  PROVE  EditOf(r, manifest) \in Seq(Job) /\ Valid(EditOf(r, manifest))
<1>1. manifest \in Seq(Job) /\ CanEdit(r, manifest)
  BY DEF Types, TypeOK, Document, Acceptable
<1> QED
  BY <1>1, EditIsDocument DEF Acceptable

LEMMA UserKeepsTypes ==
  ASSUME Types, EditByHand \/ DeleteStrays
  PROVE  Types'
<1> USE DEF Types
<1>1. run' = DisturbAll /\ temp' = temp /\ doing' = doing
  BY DEF EditByHand, DeleteStrays
<1>2. manifest' \in Document /\ strays' \in BOOLEAN
  BY DEF EditByHand, DeleteStrays, TypeOK
<1>3. TypeOK'
  <2>1. CASE Procs = {}
    BY <1>1, <1>2, <2>1 DEF TypeOK, DisturbAll
  <2>2. CASE Procs # {}
    BY <1>1, <1>2, <2>2, DisturbedRuns DEF TypeOK
  <2> QED
    BY <2>1, <2>2
<1>4. \A q \in Procs : run'[q].req = run[q].req /\ run'[q].draft = run[q].draft
  BY <1>1, DisturbedRuns DEF TypeOK
<1>5. Working'
  BY <1>1, <1>4 DEF TypeOK, Working
<1> QED
  BY <1>3, <1>5

LEMMA TypesNext == Types /\ [Next]_vars => Types'
<1> SUFFICES ASSUME Types, [Next]_vars PROVE Types'
  OBVIOUS
<1> USE DEF Types
<1>1. CASE UNCHANGED vars
  BY <1>1 DEF vars, TypeOK, Working
<1>2. CASE EditByHand \/ DeleteStrays
  BY <1>2, UserKeepsTypes
<1>3. ASSUME NEW p \in Procs, NEW r \in Requests, Start(p, r)
      PROVE  Types'
  <2>1. [NoRun EXCEPT !.req = r, !.began = manifest] \in Run
    BY NoRunIsRun DEF NoRun, Run, TypeOK
  <2>2. TypeOK'
    BY <1>3, <2>1 DEF TypeOK, Start, Labels
  <2>3. Working'
    BY <1>3 DEF TypeOK, Working, Start, Ended, NoRun
  <2> QED
    BY <2>2, <2>3
<1>4. ASSUME NEW p \in Procs, Validate(p)
      PROVE  Types'
  <2>1. CASE ~PassesFirst(run[p].req) /\ End(p, "refused")
    BY <1>4, <2>1, EndKeepsTypes DEF Validate, Ended
  <2>2. CASE PassesFirst(run[p].req) /\ UNCHANGED run
    BY <1>4, <2>2 DEF Validate, TypeOK, Labels, Working, Ended, End, NoRun
  <2> QED
    BY <1>4, <2>1, <2>2 DEF Validate
<1>5. ASSUME NEW p \in Procs, Lookup(p) \/ Report(p)
      PROVE  Types'
  BY <1>5, EndKeepsTypes DEF Lookup, Report, Ended
<1>6. ASSUME NEW p \in Procs, Mutate(p)
      PROVE  Types'
  <2> DEFINE r == run[p].req
             ok == Selectable(r) /\ Acceptable(r, manifest)
  <2>0. r \in Request
    BY <1>6 DEF Mutate, Working, Ended
  <2>1. CASE ~ok /\ End(p, "refused")
    BY <1>6, <2>1, EndKeepsTypes DEF Mutate, Ended
  <2>2. CASE /\ ok
             /\ doing' = [doing EXCEPT ![p] = "create"]
             /\ run' = [run EXCEPT ![p].base = manifest,
                                   ![p].draft = EditOf(r, manifest)]
    <3> DEFINE new == [run[p] EXCEPT !.base = manifest, !.draft = EditOf(r, manifest)]
    <3>1. EditOf(r, manifest) \in Seq(Job) /\ Valid(EditOf(r, manifest))
      BY <2>0, <2>2, AcceptedEdit
    <3> HIDE DEF r
    <3>2. new \in Run /\ new.req = run[p].req /\ new.draft = EditOf(r, manifest)
      BY <3>1 DEF TypeOK, Run, Document
    <3>3. run' = [run EXCEPT ![p] = new]
      BY <2>2 DEF r
    <3>4. manifest' = manifest /\ strays' = strays /\ temp' = temp
      BY <1>6 DEF Mutate
    <3> HIDE DEF new
    <3>5. TypeOK'
      BY <2>2, <3>2, <3>3, <3>4 DEF TypeOK, Labels
    <3>6. Working'
      BY <1>6, <2>2, <3>1, <3>2, <3>3, <3>4 DEF TypeOK, Working, Ended, Mutate
    <3> QED
      BY <3>5, <3>6
  <2>3. CASE ok /\ doing' = [doing EXCEPT ![p] = "report"] /\ UNCHANGED run
    BY <1>6, <2>3 DEF Mutate, TypeOK, Labels, Working, Ended
  <2> QED
    BY <1>6, <2>1, <2>2, <2>3 DEF Mutate
<1>7. ASSUME NEW p \in Procs, CreateTemp(p)
      PROVE  Types'
  <2>1. /\ run' \in [Procs -> Run]
        /\ \A q \in Procs : run'[q].req = run[q].req /\ run'[q].draft = run[q].draft
    BY <1>7, DisturbedRuns DEF CreateTemp, TypeOK
  <2>2. TypeOK'
    BY <1>7, <2>1 DEF CreateTemp, TypeOK, Document, Labels
  <2>3. Working'
    BY <1>7, <2>1 DEF CreateTemp, TypeOK, Working, Ended
  <2> QED
    BY <2>2, <2>3
<1>8. ASSUME NEW p \in Procs, FillTemp(p)
      PROVE  Types'
  BY <1>8 DEF FillTemp, TypeOK, Document, Labels, Working, Ended
<1>9. ASSUME NEW p \in Procs, Replace(p)
      PROVE  Types'
  <2> DEFINE new == [run[p] EXCEPT !.base = Unparsable, !.draft = Unparsable]
  <2>1. run' = [Disturb(p) EXCEPT ![p] = new]
    BY <1>9, DisturbedRuns DEF Replace, TypeOK
  <2>2. new \in Run /\ new.req = run[p].req
    BY DEF TypeOK, Run, Document
  <2> HIDE DEF new
  <2>3. /\ run' \in [Procs -> Run]
        /\ \A q \in Procs : run'[q].req = run[q].req
        /\ \A q \in Procs : q # p => run'[q].draft = run[q].draft
    BY <2>1, <2>2, DisturbedRuns DEF TypeOK
  <2>4. temp[p] \in Document
    BY <1>9 DEF Replace, Working, Document
  <2>5. TypeOK'
    BY <1>9, <2>3, <2>4 DEF Replace, TypeOK, Labels
  <2>6. Working'
    BY <1>9, <2>3 DEF Replace, TypeOK, Working, Ended
  <2> QED
    BY <2>5, <2>6
<1>10. ASSUME NEW p \in Procs, AbortEdit(p)
       PROVE  Types'
  <2>1. TypeOK'
    BY <1>10, NoRunIsRun DEF AbortEdit, TypeOK, End, Labels, Ended
  <2>2. Working'
    BY <1>10 DEF AbortEdit, TypeOK, Working, End, Ended
  <2> QED
    BY <2>1, <2>2
<1> QED
  BY <1>1, <1>2, <1>3, <1>4, <1>5, <1>6, <1>7, <1>8, <1>9, <1>10 DEF Next, Step

(* Every variable keeps its type (ManifestEdit's Spec, any number of        *)
(* commands and any requests).                                              *)
THEOREM TypeCorrect == Spec => []TypeOK
<1>1. Spec => []Types
  BY TypesInit, TypesNext, PTL DEF Spec
<1>2. Types => TypeOK
  BY DEF Types
<1> QED
  BY <1>1, <1>2, PTL

----------------------------------------------------------------------------
(* Only Replace(p) takes p from "replace" to "report". *)
LEMMA OnlyReplaceReplaces ==
  ASSUME Types, [Next]_vars, NEW p \in Procs,
         doing[p] = "replace", doing'[p] = "report"
  PROVE  Replace(p)
<1> USE DEF Types, TypeOK
<1>1. CASE UNCHANGED vars
  BY <1>1 DEF vars
<1>2. CASE EditByHand \/ DeleteStrays
  BY <1>2 DEF EditByHand, DeleteStrays
<1>3. ASSUME NEW q \in Procs, NEW r \in Requests, Start(q, r)
      PROVE  Replace(p)
  BY <1>3 DEF Start
<1>4. ASSUME NEW q \in Procs, Step(q) \/ AbortEdit(q)
      PROVE  Replace(p)
  <2>1. CASE q = p
    BY <1>4, <2>1 DEF Step, Validate, Lookup, Mutate, CreateTemp, FillTemp,
                      Report, AbortEdit, End
  <2>2. CASE q # p
    BY <1>4, <2>2 DEF Step, Validate, Lookup, Mutate, CreateTemp, FillTemp,
                      Replace, Report, AbortEdit, End
  <2> QED
    BY <2>1, <2>2
<1> QED
  BY <1>1, <1>2, <1>3, <1>4 DEF Next

(* What a command puts in the manifest's place is whole and valid, whatever *)
(* other commands and the user do meanwhile: it was validated in memory and *)
(* stands in the temporary file to the end.                                 *)
THEOREM WritesAreValid == Spec => CommandsWriteValid
<1>1. Types /\ [Next]_vars =>
        [\A p \in Procs :
           doing[p] = "replace" /\ manifest' # manifest /\ doing'[p] = "report"
             => Valid(manifest')]_vars
  <2> SUFFICES ASSUME Types, [Next]_vars, NEW p \in Procs,
                      doing[p] = "replace", doing'[p] = "report"
               PROVE  Valid(manifest')
    OBVIOUS
  <2>1. manifest' = temp[p]
    BY OnlyReplaceReplaces DEF Replace
  <2> QED
    BY <2>1 DEF Types, Working
<1>2. Spec => []Types
  BY TypesInit, TypesNext, PTL DEF Spec
<1> QED
  BY <1>1, <1>2, PTL DEF Spec, CommandsWriteValid

----------------------------------------------------------------------------
(* Nobody but p stands in the way of selecting the manifest. *)
OthersClear(p) ==
  run[p].req.named \/ (~strays /\ \A q \in Procs \ {p} : temp[q] = NoFile)

(* A command that nobody disturbed finds the manifest as it left it, and    *)
(* has passed the checks its step lies behind.                              *)
LoneAt(p) ==
  LET r == run[p].req
      doc == run[p].began
  IN  /\ doing[p] \in {"validate", "lookup", "mutate", "create", "fill", "replace"} =>
           manifest = doc
      /\ doing[p] # "validate" =>
           OthersClear(p) /\ Valid(doc)
      /\ doing[p] = "lookup" => r.op = "show" /\ Hits(doc, r.name) # {}
      /\ doing[p] \in {"mutate", "create", "fill", "replace", "report"} => r.op # "show"
      /\ doing[p] \in {"create", "fill", "replace", "report"} => Acceptable(r, doc)
      /\ doing[p] \in {"create", "fill", "replace"} => run[p].draft = EditOf(r, doc)
      /\ doing[p] = "report" => manifest = EditOf(r, doc)

Lone == \A p \in Procs :
          doing[p] \notin Ended /\ run[p].began # Disturbed => LoneAt(p)

(* The reader of LoneAt(p) sees this much of the state. *)
LEMMA LoneAtKept ==
  ASSUME Types, Types', NEW p \in Procs, LoneAt(p),
         doing'[p] = doing[p], run'[p] = run[p], manifest' = manifest,
         OthersClear(p) => OthersClear(p)'
  PROVE  LoneAt(p)'
  BY DEF LoneAt

LEMMA LoneInit == Init => Lone
  BY DEF Init, Lone, Ended

(* A step of p leaves every other command q alone, or disturbs it. *)
LEMMA OthersStayLone ==
  ASSUME Types, Types', Lone, NEW p \in Procs, NEW q \in Procs, q # p,
         Step(p) \/ AbortEdit(p) \/ (\E r \in Requests : Start(p, r)),
         doing'[q] \notin Ended, run'[q].began # Disturbed
  PROVE  LoneAt(q)'
<1> USE DEF Types, TypeOK
<1>1. doing'[q] = doing[q]
  BY DEF Step, Validate, Lookup, Mutate, CreateTemp, FillTemp, Replace, Report,
         AbortEdit, End, Start
<1>2. CASE CreateTemp(p) \/ Replace(p)
  <2>1. run'[q].began = Disturbed
    BY <1>2, DisturbedRuns DEF CreateTemp, Replace
  <2> QED
    BY <2>1
<1>3. CASE ~(CreateTemp(p) \/ Replace(p))
  <2>1. run'[q] = run[q] /\ manifest' = manifest
    BY <1>3 DEF Step, Validate, Lookup, Mutate, FillTemp, Report, AbortEdit, End, Start
  <2>2. LoneAt(q)
    BY <1>1, <2>1 DEF Lone
  <2>3. OthersClear(q) => OthersClear(q)'
    <3>1. CASE FillTemp(p)
      <4>1. temp[p] = Unparsable /\ Unparsable # NoFile
        BY <3>1 DEF FillTemp, Working, Document
      <4> QED
        BY <2>1, <3>1, <4>1 DEF FillTemp, OthersClear
    <3>2. CASE AbortEdit(p)
      BY <2>1, <3>2 DEF AbortEdit, OthersClear
    <3>3. CASE strays' = strays /\ temp' = temp
      BY <2>1, <3>3 DEF OthersClear
    <3> QED
      BY <1>3, <3>1, <3>2, <3>3 DEF Step, Validate, Lookup, Mutate, Report, Start
  <2> QED
    BY <1>1, <2>1, <2>2, <2>3, LoneAtKept
<1> QED
  BY <1>2, <1>3

(* With its own temporary file gone, a clear directory lets p select. *)
LEMMA SelectingIsClear ==
  ASSUME Types, NEW p \in Procs, doing[p] \notin {"fill", "replace"}
  PROVE  Selectable(run[p].req) <=> OthersClear(p)
<1>1. temp[p] = NoFile
  BY DEF Types, Working
<1> QED
  BY <1>1 DEF Selectable, OthersClear

LEMMA OwnStepStaysLone ==
  ASSUME Types, Types', Lone, NEW p \in Procs,
         Step(p) \/ AbortEdit(p) \/ (\E r \in Requests : Start(p, r)),
         doing'[p] \notin Ended, run'[p].began # Disturbed
  PROVE  LoneAt(p)'
<1> USE DEF Types, TypeOK
<1>1. CASE \E r \in Requests : Start(p, r)
  BY <1>1 DEF Start, LoneAt, NoRun
<1>2. CASE AbortEdit(p) \/ Lookup(p) \/ Report(p)
  BY <1>2 DEF AbortEdit, Lookup, Report, End, Ended
<1>3. CASE Validate(p)
  BY <1>3, SelectingIsClear DEF Validate, End, Ended, PassesFirst, Lone, LoneAt, OthersClear
<1>4. CASE Mutate(p)
  BY <1>4 DEF Mutate, End, Ended, Lone, LoneAt, OthersClear, Run
<1>5. CASE CreateTemp(p)
  BY <1>5, DisturbedRuns DEF CreateTemp, Ended, Lone, LoneAt, OthersClear
<1>6. CASE FillTemp(p)
  BY <1>6 DEF FillTemp, Ended, Lone, LoneAt, OthersClear
<1>7. CASE Replace(p)
  <2> DEFINE new == [run[p] EXCEPT !.base = Unparsable, !.draft = Unparsable]
  <2>1. run' = [Disturb(p) EXCEPT ![p] = new]
    BY <1>7, DisturbedRuns DEF Replace
  <2>2. new.req = run[p].req /\ new.began = run[p].began
    BY DEF Run
  <2> HIDE DEF new
  <2>3. run'[p].req = run[p].req /\ run'[p].began = run[p].began
    BY <2>1, <2>2, DisturbedRuns
  <2>4. LoneAt(p) /\ doing[p] = "replace"
    BY <1>7, <2>3 DEF Replace, Lone, Ended
  <2>5. manifest' = EditOf(run[p].req, run[p].began)
    BY <1>7, <2>4 DEF Replace, LoneAt, Working
  <2>6. doing'[p] = "report" /\ strays' = strays
    BY <1>7 DEF Replace
  <2>7. OthersClear(p) => OthersClear(p)'
    BY <1>7, <2>3 DEF Replace, OthersClear
  <2> QED
    BY <2>3, <2>4, <2>5, <2>6, <2>7 DEF LoneAt
<1> QED
  BY <1>1, <1>2, <1>3, <1>4, <1>5, <1>6, <1>7 DEF Step

LEMMA LoneNext == Types /\ Types' /\ Lone /\ [Next]_vars => Lone'
<1> SUFFICES ASSUME Types, Types', Lone, [Next]_vars, NEW q \in Procs,
                    doing'[q] \notin Ended, run'[q].began # Disturbed
             PROVE  LoneAt(q)'
  BY DEF Lone
<1>1. CASE UNCHANGED vars
  <2>1. LoneAt(q) /\ (OthersClear(q) => OthersClear(q)')
    BY <1>1 DEF vars, Lone, OthersClear
  <2> QED
    BY <1>1, <2>1, LoneAtKept DEF vars
<1>2. CASE EditByHand \/ DeleteStrays
  <2>1. run'[q].began = Disturbed
    BY <1>2, DisturbedRuns DEF EditByHand, DeleteStrays, Types, TypeOK
  <2> QED
    BY <2>1
<1>3. ASSUME NEW p \in Procs,
             Step(p) \/ AbortEdit(p) \/ (\E r \in Requests : Start(p, r))
      PROVE  LoneAt(q)'
  BY <1>3, OthersStayLone, OwnStepStaysLone
<1> QED
  BY <1>1, <1>2, <1>3 DEF Next

(* The step that ends a command is its own. *)
LEMMA OnlyItselfEnds ==
  ASSUME Types, [Next]_vars, NEW p \in Procs,
         doing[p] \notin Ended, doing'[p] \in Ended
  PROVE  Step(p) \/ AbortEdit(p)
<1> USE DEF Types, TypeOK
<1>1. CASE UNCHANGED vars
  BY <1>1 DEF vars
<1>2. CASE EditByHand \/ DeleteStrays
  BY <1>2 DEF EditByHand, DeleteStrays
<1>3. ASSUME NEW q \in Procs, NEW r \in Requests, Start(q, r)
      PROVE  Step(p) \/ AbortEdit(p)
  BY <1>3 DEF Start, Ended
<1>4. ASSUME NEW q \in Procs, Step(q) \/ AbortEdit(q)
      PROVE  Step(p) \/ AbortEdit(p)
  <2>1. q = p
    BY <1>4 DEF Step, Validate, Lookup, Mutate, CreateTemp, FillTemp, Replace,
                Report, AbortEdit, End
  <2> QED
    BY <1>4, <2>1
<1> QED
  BY <1>1, <1>2, <1>3, <1>4 DEF Next

(* A command that nobody disturbed is carried out in full on the manifest  *)
(* it found, or is refused for a reason that lay in it and changes nothing. *)
(* The invariant Lone says at each step what has been checked so far.       *)
THEOREM AtomicOrRefused == Spec => LoneCommandsAreAtomic
<1> DEFINE Fits(r, doc) ==
             /\ Selectable(r) /\ Valid(doc)
             /\ IF r.op = "show" THEN Hits(doc, r.name) # {}
                                 ELSE Acceptable(r, doc)
           Atomic(p) ==
             doing[p] \notin Ended /\ run[p].began # Disturbed =>
               /\ doing'[p] = "done" =>
                    Fits(run[p].req, run[p].began)
                      /\ manifest' = EditOf(run[p].req, run[p].began)
               /\ doing'[p] = "refused" =>
                    ~Fits(run[p].req, run[p].began) /\ manifest' = run[p].began
               /\ doing'[p] \in Ended => temp'[p] = NoFile
<1>1. ASSUME Types, Types', Lone, [Next]_vars, NEW p \in Procs
      PROVE  Atomic(p)
  <2> SUFFICES ASSUME doing[p] \notin Ended, run[p].began # Disturbed, doing'[p] \in Ended
               PROVE  /\ doing'[p] = "done" =>
                           Fits(run[p].req, run[p].began)
                             /\ manifest' = EditOf(run[p].req, run[p].began)
                      /\ doing'[p] = "refused" =>
                           ~Fits(run[p].req, run[p].began) /\ manifest' = run[p].began
                      /\ temp'[p] = NoFile
    BY DEF Ended
  <2> USE <1>1
  <2>1. LoneAt(p)
    BY DEF Lone
  <2>2. temp'[p] = NoFile
    BY DEF Types, TypeOK, Working, Ended
  <2>3. Step(p) \/ AbortEdit(p)
    BY <1>1, OnlyItselfEnds
  <2>4. CASE AbortEdit(p)
    BY <2>2, <2>4 DEF AbortEdit, End, Types, TypeOK
  <2>5. CASE Validate(p)
    <3>1. doing'[p] = "refused" /\ ~PassesFirst(run[p].req) /\ manifest' = manifest
      BY <2>5 DEF Validate, End, Ended, Types, TypeOK
    <3>2. manifest = run[p].began
      BY <2>1, <2>5 DEF LoneAt, Validate
    <3>3. ~Fits(run[p].req, run[p].began)
      BY <3>1, <3>2 DEF PassesFirst, Acceptable
    <3> QED
      BY <2>2, <3>1, <3>2, <3>3
  <2>6. CASE Lookup(p)
    <3>1. /\ manifest' = manifest
          /\ doing'[p] = IF PassesFirst(run[p].req) THEN "done" ELSE "refused"
      BY <2>6 DEF Lookup, End, Types, TypeOK
    <3>2. /\ manifest = run[p].began /\ run[p].req.op = "show"
          /\ Valid(manifest) /\ Hits(manifest, run[p].req.name) # {}
          /\ Selectable(run[p].req)
      BY <2>1, <2>6, SelectingIsClear DEF LoneAt, Lookup
    <3>3. EditOf(run[p].req, run[p].began) = run[p].began
      BY <3>2 DEF EditOf
    <3> QED
      BY <2>2, <3>1, <3>2, <3>3 DEF PassesFirst
  <2>7. CASE Mutate(p)
    <3>1. /\ manifest' = manifest /\ doing'[p] = "refused"
          /\ ~(Selectable(run[p].req) /\ Acceptable(run[p].req, manifest))
      BY <2>7 DEF Mutate, End, Ended, Types, TypeOK
    <3>2. /\ manifest = run[p].began /\ run[p].req.op # "show"
      BY <2>1, <2>7 DEF LoneAt, Mutate
    <3> QED
      BY <2>2, <3>1, <3>2
  <2>8. CASE Report(p)
    <3>1. /\ manifest = EditOf(run[p].req, run[p].began)
          /\ Acceptable(run[p].req, run[p].began) /\ Valid(run[p].began)
          /\ Selectable(run[p].req) /\ run[p].req.op # "show"
      BY <2>1, <2>8, SelectingIsClear DEF LoneAt, Report
    <3>2. Valid(manifest)
      BY <3>1 DEF Acceptable
    <3>3. manifest' = manifest /\ doing'[p] = "done"
      BY <2>8, <3>1, <3>2 DEF Report, End, Types, TypeOK
    <3> QED
      BY <2>2, <3>1, <3>3
  <2>9. CASE CreateTemp(p) \/ FillTemp(p) \/ Replace(p)
    BY <2>9 DEF CreateTemp, FillTemp, Replace, Ended, Types, TypeOK
  <2> QED
    BY <2>3, <2>4, <2>5, <2>6, <2>7, <2>8, <2>9 DEF Step
<1>2. Types /\ Types' /\ Lone /\ [Next]_vars => [\A p \in Procs : Atomic(p)]_vars
  BY <1>1
<1>3. Spec => [](Types /\ Lone)
  BY TypesInit, LoneInit, TypesNext, LoneNext, PTL DEF Spec
<1>4. Spec => [][\A p \in Procs : Atomic(p)]_vars
  BY <1>2, <1>3, TypesNext, PTL DEF Spec
<1> QED
  BY <1>4 DEF LoneCommandsAreAtomic


----------------------------------------------------------------------------
(* What others an edit leaves.  The new list holds every other job, in the *)
(* same order, and no more of them.                                        *)
LEMMA SamePlacesKeep ==
  ASSUME NEW old, NEW new, NEW id, OthersOf(new, id) = OthersOf(old, id),
         \A n \in OthersOf(old, id) : new[n] = old[n]
  PROVE  KeepsOthers(old, new, id)
<1> DEFINE same == [n \in OthersOf(old, id) |-> n]
<1>1. same \in [OthersOf(old, id) -> OthersOf(new, id)]
  OBVIOUS
<1>2. /\ \A n \in OthersOf(old, id) : new[same[n]] = old[n]
      /\ \A n, k \in OthersOf(old, id) : n < k => same[n] < same[k]
      /\ \A k \in OthersOf(new, id) : \E n \in OthersOf(old, id) : same[n] = k
  OBVIOUS
<1> HIDE DEF same
<1> QED
  BY <1>1, <1>2 DEF KeepsOthers

LEMMA RemovedPlaces ==
  ASSUME NEW doc \in Seq(Job), NEW i \in 1 .. Len(doc)
  PROVE  /\ Len(RemoveAt(doc, i)) = Len(doc) - 1
         /\ \A k \in 1 .. Len(doc) - 1 :
              RemoveAt(doc, i)[k] = IF k < i THEN doc[k] ELSE doc[k + 1]
<1> DEFINE before == SubSeq(doc, 1, i - 1)
           after  == SubSeq(doc, i + 1, Len(doc))
<1>1. /\ before \in Seq(Job) /\ Len(before) = i - 1
      /\ \A k \in 1 .. i - 1 : before[k] = doc[k]
  OBVIOUS
<1>2. /\ after \in Seq(Job) /\ Len(after) = Len(doc) - i
      /\ \A k \in 1 .. Len(doc) - i : after[k] = doc[i + k]
  OBVIOUS
<1>3. RemoveAt(doc, i) = before \o after
  BY DEF RemoveAt
<1> HIDE DEF before, after
<1>4. /\ Len(before \o after) = Len(doc) - 1
      /\ \A k \in 1 .. Len(doc) - 1 :
           (before \o after)[k] = IF k <= i - 1 THEN before[k]
                                              ELSE after[k - (i - 1)]
  <2> DEFINE len == Len(doc)
  <2>1. len \in Nat /\ i \in 1 .. len
    OBVIOUS
  <2>2. before \in Seq(Job) /\ Len(before) = i - 1
    BY <1>1
  <2>3. after \in Seq(Job) /\ Len(after) = len - i
    BY <1>2
  <2>4. /\ Len(before \o after) = Len(before) + Len(after)
        /\ \A k \in 1 .. Len(before) + Len(after) :
             (before \o after)[k] = IF k <= Len(before) THEN before[k]
                                               ELSE after[k - Len(before)]
    BY <2>2, <2>3, ConcatProperties
  <2> HIDE DEF len
  <2>5. Len(before) + Len(after) = len - 1
    BY <2>1, <2>2, <2>3
  <2> QED
    BY <2>2, <2>4, <2>5 DEF len
<1>5. ASSUME NEW k \in 1 .. Len(doc) - 1
      PROVE  (before \o after)[k] = IF k < i THEN doc[k] ELSE doc[k + 1]
  <2>1. CASE k < i
    BY <1>1, <1>4, <2>1
  <2>2. CASE ~(k < i)
    <3>1. k - (i - 1) \in 1 .. Len(doc) - i /\ i + (k - (i - 1)) = k + 1
      BY <2>2
    <3> QED
      BY <1>2, <1>4, <2>2, <3>1
  <2> QED
    BY <2>1, <2>2
<1> QED
  BY <1>3, <1>4, <1>5

LEMMA RemovalKeepsOthers ==
  ASSUME NEW doc \in Seq(Job), NEW i \in 1 .. Len(doc)
  PROVE  KeepsOthers(doc, RemoveAt(doc, i), doc[i].id)
<1> DEFINE id  == doc[i].id
           new == RemoveAt(doc, i)
           len == Len(doc)
           at  == [n \in OthersOf(doc, id) |-> IF n < i THEN n ELSE n - 1]
<1>1. /\ Len(new) = len - 1 /\ len \in Nat
      /\ \A k \in 1 .. len - 1 : new[k] = IF k < i THEN doc[k] ELSE doc[k + 1]
  <2>1. len \in Nat
    BY LenProperties
  <2> HIDE DEF new
  <2> QED
    BY <2>1, RemovedPlaces DEF new
<1>2. /\ OthersOf(doc, id) = {n \in 1 .. len : doc[n].id # id}
      /\ OthersOf(new, id) = {n \in 1 .. len - 1 : new[n].id # id}
      /\ i \in 1 .. len /\ i \notin OthersOf(doc, id)
  BY <1>1 DEF OthersOf
<1> HIDE DEF new, len, id
<1>3. ASSUME NEW n \in OthersOf(doc, id)
      PROVE  at[n] \in OthersOf(new, id) /\ new[at[n]] = doc[n]
  <2>1. n \in 1 .. len /\ doc[n].id # id /\ n # i
    BY <1>2
  <2>2. at[n] \in 1 .. len - 1 /\ new[at[n]] = doc[n]
    BY <1>1, <1>2, <2>1
  <2> QED
    BY <1>2, <2>1, <2>2
<1>4. ASSUME NEW k \in OthersOf(new, id)
      PROVE  \E n \in OthersOf(doc, id) : at[n] = k
  <2> DEFINE n == IF k < i THEN k ELSE k + 1
  <2>1. k \in 1 .. len - 1 /\ new[k].id # id
    BY <1>2
  <2>2. n \in 1 .. len /\ doc[n] = new[k]
    BY <1>1, <1>2, <2>1
  <2>3. n \in OthersOf(doc, id)
    BY <1>2, <2>1, <2>2
  <2>4. at[n] = k
    BY <1>2, <2>1, <2>3
  <2> QED
    BY <2>3, <2>4
<1>5. \A n, k \in OthersOf(doc, id) : n < k => at[n] < at[k]
  <2>1. \A n \in OthersOf(doc, id) : n \in 1 .. len /\ n # i
    BY <1>2
  <2> QED
    BY <1>1, <1>2, <2>1
<1>6. at \in [OthersOf(doc, id) -> OthersOf(new, id)]
  BY <1>3
<1> HIDE DEF at
<1> QED
  BY <1>3, <1>4, <1>5, <1>6 DEF KeepsOthers, new, id

(* An edit touches the job that is added, or the first one its name hits.  *)
LEMMA EditTouchesOne ==
  ASSUME NEW doc \in Seq(Job), NEW r \in Request, CanEdit(r, doc)
  PROVE  \E id \in Ids : <<r.name, id>> \in MayMean /\ KeepsOthers(doc, EditOf(r, doc), id)
<1> DEFINE new == EditOf(r, doc)
           i   == First(doc, r.name)
<1>1. CASE r.op = "add"
  <2> DEFINE job == [id |-> r.name, def |-> r.def, enabled |-> r.enabled]
  <2>1. new = Append(doc, job) /\ r.name \in Ids /\ <<r.name, r.name>> \in MayMean
    BY <1>1 DEF EditOf, Request
  <2>2. /\ Len(new) = Len(doc) + 1 /\ new[Len(doc) + 1].id = r.name
        /\ \A k \in 1 .. Len(doc) : new[k] = doc[k]
    BY <2>1
  <2> HIDE DEF new, job
  <2>3. /\ OthersOf(new, r.name) = OthersOf(doc, r.name)
        /\ \A n \in OthersOf(doc, r.name) : new[n] = doc[n]
    <3> DEFINE len == Len(doc)
    <3>1. len \in Nat /\ Len(new) = len + 1 /\ new[len + 1].id = r.name
      BY <2>2
    <3>2. \A k \in 1 .. len : new[k] = doc[k]
      BY <2>2
    <3>3. /\ OthersOf(doc, r.name) = {n \in 1 .. len : doc[n].id # r.name}
          /\ OthersOf(new, r.name) = {n \in 1 .. len + 1 : new[n].id # r.name}
      BY <3>1 DEF OthersOf
    <3> HIDE DEF len
    <3> QED
      BY <3>1, <3>2, <3>3
  <2>4. KeepsOthers(doc, new, r.name)
    BY <2>3, SamePlacesKeep
  <2> QED
    BY <2>1, <2>4 DEF new
<1>2. ASSUME r.op # "add"
      PROVE  /\ i \in 1 .. Len(doc) /\ doc[i] \in Job /\ doc[i].id \in Ids
             /\ <<r.name, doc[i].id>> \in MayMean
  <2>1. i \in Hits(doc, r.name) /\ i \in 1 .. Len(doc)
    BY <1>2, FirstIsAHit DEF CanEdit
  <2>2. doc[i] \in Job
    BY <2>1, ElementOfSeq
  <2> QED
    BY <2>1, <2>2 DEF Hits, Job
<1>3. CASE r.op = "update" \/ r.op = "switch"
  <2> HIDE DEF i
  <2>1. PICK job \in Job : job.id = doc[i].id /\ new = [doc EXCEPT ![i] = job]
    <3>1. CASE r.op = "update"
      <4> DEFINE job == [doc[i] EXCEPT !.def = r.def]
      <4>1. job \in Job /\ job.id = doc[i].id
        BY <1>2, <3>1 DEF Request, Job
      <4>2. new = [doc EXCEPT ![i] = job]
        BY <3>1 DEF EditOf, i
      <4> QED
        BY <4>1, <4>2
    <3>2. CASE r.op = "switch"
      <4> DEFINE job == [doc[i] EXCEPT !.enabled = r.enabled]
      <4>1. job \in Job /\ job.id = doc[i].id
        BY <1>2, <3>2 DEF Request, Job
      <4>2. new = [doc EXCEPT ![i] = job]
        BY <3>2 DEF EditOf, i
      <4> QED
        BY <4>1, <4>2
    <3> QED
      BY <1>3, <3>1, <3>2
  <2>2. /\ Len(new) = Len(doc) /\ new[i].id = doc[i].id
        /\ \A k \in 1 .. Len(doc) : k # i => new[k] = doc[k]
    BY <1>2, <1>3, <2>1
  <2> HIDE DEF new
  <2>3. KeepsOthers(doc, new, doc[i].id)
    BY <1>2, <1>3, <2>2, SamePlacesKeep DEF OthersOf
  <2> QED
    BY <1>2, <1>3, <2>3 DEF new
<1>4. CASE r.op = "remove"
  <2>1. new = RemoveAt(doc, i)
    BY <1>4 DEF EditOf
  <2> QED
    BY <1>2, <1>4, <2>1, RemovalKeepsOthers
<1>5. CASE r.op = "show"
  <2>1. new = doc
    BY <1>5 DEF EditOf
  <2> QED
    BY <1>2, <1>5, <2>1, SamePlacesKeep
<1> QED
  BY <1>1, <1>3, <1>4, <1>5 DEF Request

(* What a command is about to write is its edit of the copy it made.       *)
Drafted ==
  \A p \in Procs : doing[p] \in {"create", "fill", "replace"} =>
    /\ run[p].base \in Seq(Job) /\ CanEdit(run[p].req, run[p].base)
    /\ run[p].draft = EditOf(run[p].req, run[p].base)

LEMMA DraftedNext == Types /\ Drafted /\ [Next]_vars => Drafted'
<1> SUFFICES ASSUME Types, Drafted, [Next]_vars PROVE Drafted'
  OBVIOUS
<1>0. run \in [Procs -> Run] /\ doing \in [Procs -> Labels] /\ manifest \in Document
  BY DEF Types, TypeOK
<1>1. CASE UNCHANGED vars
  BY <1>1 DEF vars, Drafted
<1>2. CASE EditByHand \/ DeleteStrays
  <2>1. doing' = doing /\ \A q \in Procs : /\ run'[q].req = run[q].req
                                     /\ run'[q].base = run[q].base
                                     /\ run'[q].draft = run[q].draft
    BY <1>0, <1>2, DisturbedRuns DEF EditByHand, DeleteStrays
  <2> QED
    BY <2>1 DEF Drafted
<1>3. ASSUME NEW p \in Procs, Step(p) \/ AbortEdit(p) \/ (\E r \in Requests : Start(p, r))
      PROVE  Drafted'
  <2>1. ASSUME NEW q \in Procs, q # p
        PROVE  /\ doing'[q] = doing[q] /\ run'[q].req = run[q].req
               /\ run'[q].base = run[q].base /\ run'[q].draft = run[q].draft
    <3>1. CASE CreateTemp(p)
      BY <1>0, <2>1, <3>1, DisturbedRuns DEF CreateTemp
    <3>2. CASE Replace(p)
      <4>1. DOMAIN Disturb(p) = Procs
        BY DEF Disturb
      <4>2. run'[q] = Disturb(p)[q] /\ doing'[q] = doing[q]
        BY <1>0, <2>1, <3>2, <4>1 DEF Replace
      <4> QED
        BY <1>0, <4>2, DisturbedRuns
    <3>3. CASE ~(CreateTemp(p) \/ Replace(p))
      BY <1>0, <1>3, <2>1, <3>3
      DEF Step, Validate, Lookup, Mutate, FillTemp, Report, AbortEdit, End, Start
    <3> QED
      BY <3>1, <3>2, <3>3
  <2>2. ASSUME doing'[p] \in {"create", "fill", "replace"}
        PROVE  /\ run'[p].base \in Seq(Job) /\ CanEdit(run'[p].req, run'[p].base)
               /\ run'[p].draft = EditOf(run'[p].req, run'[p].base)
    <3>1. CASE Mutate(p)
      <4> DEFINE r == run[p].req
                 new == [run[p] EXCEPT !.base = manifest, !.draft = EditOf(r, manifest)]
      <4>1. /\ Acceptable(r, manifest)
            /\ run' = [run EXCEPT ![p].base = manifest, ![p].draft = EditOf(r, manifest)]
        BY <1>0, <2>2, <3>1 DEF Mutate, End, Ended
      <4>2. new.req = r /\ new.base = manifest /\ new.draft = EditOf(r, manifest)
        BY <1>0 DEF Run
      <4>3. run'[p] = new
        BY <1>0, <4>1
      <4> HIDE DEF new, r
      <4> QED
        BY <1>0, <4>1, <4>2, <4>3 DEF Acceptable, Document, r
    <3>2. CASE CreateTemp(p)
      BY <1>0, <3>2, DisturbedRuns DEF CreateTemp, Drafted
    <3>3. CASE FillTemp(p)
      BY <1>0, <3>3 DEF FillTemp, Drafted
    <3>4. CASE ~(Mutate(p) \/ CreateTemp(p) \/ FillTemp(p))
      <4>1. doing'[p] \notin {"create", "fill", "replace"}
        BY <1>0, <1>3, <3>4
        DEF Step, Validate, Lookup, Replace, Report, AbortEdit, End, Start, Ended
      <4> QED
        BY <2>2, <4>1
    <3> QED
      BY <3>1, <3>2, <3>3, <3>4
  <2> QED
    BY <2>1, <2>2 DEF Drafted
<1> QED
  BY <1>1, <1>2, <1>3 DEF Next

(* Whatever other commands and the user do meanwhile, a command that puts  *)
(* its edit in place of the very manifest it had copied changes one job,   *)
(* one its request may mean, and moves, loses or adds no other.            *)
THEOREM FreshEditsTouchOne == Spec => FreshEditTouchesOneJob
<1> DEFINE Touches == \A p \in Procs :
             doing[p] = "replace" /\ doing'[p] = "report" /\ run[p].base = manifest =>
               \E i \in Ids :
                 /\ <<run[p].req.name, i>> \in MayMean
                 /\ KeepsOthers(manifest, manifest', i)
<1>1. Types /\ Drafted /\ [Next]_vars => [Touches]_vars
  <2> SUFFICES ASSUME Types, Drafted, [Next]_vars, NEW p \in Procs,
                      doing[p] = "replace", doing'[p] = "report", run[p].base = manifest
               PROVE  \E i \in Ids :
                        /\ <<run[p].req.name, i>> \in MayMean
                        /\ KeepsOthers(manifest, manifest', i)
    OBVIOUS
  <2>1. manifest' = temp[p]
    BY OnlyReplaceReplaces DEF Replace
  <2>2. run[p].req \in Request /\ temp[p] = run[p].draft
    BY DEF Types, Working, Ended
  <2>3. /\ manifest \in Seq(Job) /\ CanEdit(run[p].req, manifest)
        /\ run[p].draft = EditOf(run[p].req, manifest)
    BY DEF Drafted
  <2> QED
    BY <2>1, <2>2, <2>3, EditTouchesOne
<1>2. Init => Drafted
  BY DEF Init, Drafted
<1>3. Spec => [](Types /\ Drafted)
  BY <1>2, TypesInit, TypesNext, DraftedNext, PTL DEF Spec
<1> QED
  BY <1>1, <1>3, PTL DEF Spec, FreshEditTouchesOneJob
=============================================================================
