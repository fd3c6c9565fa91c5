----------------------------- MODULE OpsCatalogue -----------------------------
(***************************************************************************)
(* src/ops/control/bin/catalogue.py: the repository's operations           *)
(* catalogue.  Each directory ops/<id>/ declares a capability; `validate`  *)
(* is the gate before every routed command and every aggregate lane, and   *)
(* an aggregate lane runs the commands the capabilities declare for it.    *)
(*                                                                         *)
(* A catalogue is a record: caps, the capabilities in the order discover   *)
(* returns them; active, the services ops.yaml assigns; assets, the files  *)
(* under ops/; imports, whether product code imports ops.  A pattern of a  *)
(* declaration is a record: glob, the string it is written as; files, what *)
(* it matches under ops/.  A diagnostic is <<rule, subject>>.  The module  *)
(* is a library of operators, which Release uses.                          *)
(***************************************************************************)
EXTENDS Naturals, Sequences, FiniteSets, SequencesExt

\* One diagnostic, when something is wrong.
Report(wrong, diagnostic) == IF wrong THEN {diagnostic} ELSE {}

Caps(cat) == Range(cat.caps)
Ids(cat) == {c.id : c \in Caps(cat)}

\* The provider of a service or command: by_id keeps the last capability of an id.
ById(cat, id) == cat.caps[SelectLastInSeq(cat.caps, LAMBDA c : c.id = id)]

-----------------------------------------------------------------------------
(* The search for dependency cycles *)

Searched(active, visited, cycles) == [active |-> active, visited |-> visited, cycles |-> cycles]
Searches(nodes) == [active : SUBSET nodes, visited : SUBSET nodes, cycles : Seq(Seq(nodes))]

\* The loop over targets, which visits those that are capabilities: after[i] is what the
\* first i of them come to.
Loop(nodes, visit, targets, trail, st) ==
  LET after[i \in 0..Len(targets)] ==
        IF i = 0 THEN st
        ELSE IF targets[i] \in nodes THEN visit[<<targets[i], trail, after[i - 1]>>]
        ELSE after[i - 1]
  IN  after[Len(targets)]

\* The body of visit(node, trail), with the sets active and visited and the cycles as st.
Visit(graph, visit, node, trail, st) ==
  IF node \in st.active
  THEN Searched(st.active, st.visited, Append(st.cycles, Append(trail, node)))
  ELSE IF node \in st.visited THEN st
  ELSE LET inside == Loop(DOMAIN graph, visit, graph[node], Append(trail, node),
                          Searched(st.active \cup {node}, st.visited, st.cycles))
       IN  Searched(inside.active \ {node}, inside.visited \cup {node}, inside.cycles)

Visits(graph) ==
  LET nodes == DOMAIN graph
      visit[call \in nodes \X Seq(nodes) \X Searches(nodes)] ==
        Visit(graph, visit, call[1], call[2], call[3])
  IN  visit

\* _cycles: every identifier is a root, in the order they were discovered.
Cycles(graph, order) ==
  Loop(DOMAIN graph, Visits(graph), order, <<>>, Searched({}, {}, <<>>)).cycles

-----------------------------------------------------------------------------
(* The diagnostics *)

\* _declaration_diagnostics: no pattern stands, word for word, in two of a capability's
\* three declarations.
DeclarationDiagnostics(cap) ==
  LET Globs(patterns) == {p.glob : p \in patterns}
      twice == (Globs(cap.owns) \cap (Globs(cap.reads) \cup Globs(cap.generates)))
               \cup (Globs(cap.reads) \cap Globs(cap.generates))
  IN  {<<"ownership", g>> : g \in twice}

\* _product_boundary_diagnostics: product code never imports an operations module.
ProductBoundaryDiagnostics(cat) == Report(cat.imports, <<"product-boundary", "import">>)

\* _peer_private_path_diagnostics: no script names another capability's bin/ or tests/.
PeerDiagnostics(cap) == Report(cap.peers \ {cap.id} # {}, <<"peer-boundary", cap.id>>)

\* The directory, the assets, the own pattern, the recipes and the skills of a capability.
\* present: which of README.md, justfile and the declared skills' files exist.
LayoutDiagnostics(cap) ==
  LET recipes == IF "justfile" \in cap.present THEN cap.recipes ELSE {}
      declared == {k.name : k \in Range(cap.commands)}
  IN     Report(cap.dir # cap.id, <<"identity", cap.id>>)
    \cup Report(~ {"README.md", "justfile"} \subseteq cap.present, <<"layout", cap.id>>)
    \cup Report(~ cap.ownsLocal, <<"ownership", cap.id>>)
    \cup Report(~ ({"default"} \cup declared) \subseteq recipes, <<"commands", cap.id>>)
    \cup Report(~ cap.skills \subseteq cap.present, <<"skills", cap.id>>)

\* requires names capabilities that exist, and no chain of them returns to its start.
DependencyDiagnostics(cat) ==
  LET graph == [id \in Ids(cat) |-> ById(cat, id).requires]
      order == [i \in DOMAIN cat.caps |-> cat.caps[i].id]
  IN     {<<"dependencies", d>> : d \in (UNION {Range(c.requires) : c \in Caps(cat)}) \ Ids(cat)}
    \cup {<<"dependencies", c>> : c \in Range(Cycles(graph, order))}

\* Each active service is assigned to a capability that provides it.
ProviderDiagnostics(cat) ==
  {<<"providers", s>> : s \in {x \in DOMAIN cat.active :
     \/ cat.active[x] \notin Ids(cat)
     \/ x \notin ById(cat, cat.active[x]).provides}}

\* Each file under ops/ has exactly one owner.
OwnershipDiagnostics(cat) ==
  {<<"ownership", f>> : f \in {g \in cat.assets :
     Cardinality({i \in DOMAIN cat.caps : \E p \in cat.caps[i].owns : g \in p.files}) # 1}}

\* validate
Validate(cat) ==
  IF cat.caps = <<>> THEN {<<"catalogue", "empty">>}
  ELSE (UNION {DeclarationDiagnostics(c) \cup LayoutDiagnostics(c) \cup PeerDiagnostics(c)
                 : c \in Caps(cat)})
       \cup Report(Cardinality(Ids(cat)) # Len(cat.caps), <<"identity", "unique">>)
       \cup DependencyDiagnostics(cat) \cup ProviderDiagnostics(cat)
       \cup OwnershipDiagnostics(cat) \cup ProductBoundaryDiagnostics(cat)

-----------------------------------------------------------------------------
(* Commands *)

\* _steps: what a lane runs, capability by capability, command by command.
Steps(cat, lane) ==
  LET StepsOf(cap) ==
        FlattenSeq([j \in DOMAIN cap.commands |->
          IF cap.commands[j].aggregate = lane THEN <<<<cap.id, cap.commands[j].name>>>> ELSE <<>>])
  IN  FlattenSeq([i \in DOMAIN cat.caps |-> StepsOf(cat.caps[i])])

\* route: the exit code of `just ops <id> <command>`, `exit` being that of the recipe.
Route(cat, id, command, exit) ==
  IF Validate(cat) # {} THEN 1
  ELSE IF id \notin Ids(cat) THEN 2
  ELSE IF command \notin {"default"} \cup {k.name : k \in Range(ById(cat, id).commands)} THEN 2
  ELSE exit
=============================================================================
