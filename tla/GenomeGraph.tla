----------------------------- MODULE GenomeGraph -----------------------------
(***************************************************************************)
(* The structural graph of a snapshot (packages/genome/.../builder.py):    *)
(* the nodes, edges, evidence and diagnostics that are built from the      *)
(* facts of the analyzed files, and the pages in which it is read          *)
(* (routes/graph.py) while the tree changes and later snapshots are        *)
(* published.                                                              *)
(*                                                                         *)
(* A path is the sequence of its segments, a segment a stem with a suffix, *)
(* which is empty for a directory.  Ids are hashes of what they stand for, *)
(* so a node, an edge and an evidence are that themselves.                 *)
(***************************************************************************)
EXTENDS FiniteSets, Integers, Sequences, SequencesExt

CONSTANTS
  Stems,         \* what the segments of paths are called
  Dotted,        \* those of them that start with a dot
  Endings,       \* how segments end
  Lower,         \* the endings in lower case
  Files,         \* the source files that the tree may have
  FirstFiles,    \* those that it has at first
  Specifiers,    \* what files may import: the import at line i names Specifiers[i]
  Symbols,       \* for each file, the symbols declared in it, each a name and a line
  Exports,       \* for each file, its exports of local names, each a name and a line
  Broken,        \* the files that do not parse completely
  Rank,          \* the place of a node by kind and natural key
  PageSize,      \* the parameter limit
  MaxEdits,      \* bound: changes of the tree
  MaxSnapshots   \* bound: snapshots published

SourceSuffixes == {".js", ".jsx", ".mjs", ".cjs", ".ts", ".tsx", ".mts", ".cts"}

Segments == [stem : Stems, suffix : Endings]

ASSUME GenomeAssumption ==
  /\ {".", "..", "index"} \subseteq Stems /\ SourceSuffixes \cup {""} \subseteq Endings
  /\ {".", ".."} \subseteq Dotted /\ Dotted \subseteq Stems /\ Lower \in [Endings -> Endings]
  /\ IsFiniteSet(Files) /\ Files \subseteq Seq(Segments)
  /\ \A f \in Files : f # <<>> /\ Lower[Last(f).suffix] \in SourceSuffixes
  /\ \A f \in Files : /\ IsFiniteSet(Symbols[f]) /\ \A s \in Symbols[f] : s.line \in Nat
                      /\ \A x \in Exports[f] : x.line \in Nat
  /\ Specifiers \in Seq(Seq(Segments)) /\ \A i \in DOMAIN Specifiers : Specifiers[i] # <<>>
  /\ FirstFiles \subseteq Files /\ Broken \subseteq Files
  /\ PageSize \in Nat \ {0} /\ MaxEdits \in Nat /\ MaxSnapshots \in Nat

VARIABLES
  files,      \* the analyzed files of the tree
  imports,    \* for each of them, the lines of its imports
  edits,
  published,  \* the nodes and edges of the published snapshots, in their order
  walk        \* a client that reads the graph page by page

vars == <<files, imports, edits, published, walk>>

-----------------------------------------------------------------------------
(* Import resolution                                                        *)

Dot == [stem |-> ".", suffix |-> ""]
Up == [stem |-> "..", suffix |-> ""]

\* module.startswith("."), also of what is no path: ".config/app".
Relative(spec) == spec[1].stem \in Dotted

\* One segment further, as normpath goes.
Enter(base, segment) ==
  CASE segment = Dot -> base
    [] segment = Up /\ base # <<>> /\ Last(base) # Up -> Front(base)
    [] OTHER -> Append(base, segment)

\* Each specifier joined to the directory of an importing file and normalized; "." is <<>>.
Normalized ==
  [u \in Files \X DOMAIN Specifiers |-> FoldLeft(Enter, Front(u[1]), Specifiers[u[2]])]

Escapes(base) == base # <<>> /\ base[1] = Up

\* base.with_suffix, for each suffix.
WithSuffixes(base, suffixes) ==
  [k \in DOMAIN suffixes |-> Append(Front(base), [stem |-> Last(base).stem, suffix |-> suffixes[k]])]

\* The index file of the directory, with each suffix.
Indices(base, suffixes) ==
  [k \in DOMAIN suffixes |-> Append(base, [stem |-> "index", suffix |-> suffixes[k]])]

\* The paths that an import of this base may mean, the preferred one first.
CandidatesOf(base) ==
  IF base = <<>> \/ Escapes(base) THEN <<>>
  ELSE CASE Lower[Last(base).suffix] \in {".js", ".jsx"} ->
              <<base>> \o WithSuffixes(base, <<".ts", ".tsx">>)
         [] Lower[Last(base).suffix] = "" ->
              <<base>> \o WithSuffixes(base, <<".ts", ".tsx", ".js", ".jsx", ".mjs", ".cjs">>)
                       \o Indices(base, <<".ts", ".tsx", ".js", ".jsx">>)
         [] OTHER -> <<base>>

ImportCandidates ==
  [u \in Files \X DOMAIN Specifiers |->
     IF Relative(Specifiers[u[2]]) THEN CandidatesOf(Normalized[u]) ELSE <<>>]

\* Mutant: the first candidate is taken, whether or not the tree has it.
FirstCandidate(candidates, known) == IF candidates = <<>> THEN 0 ELSE 1

\* Mutant: an import that several files of the tree match is left unresolved.
OnlyCandidate(candidates, known) ==
  LET found == {k \in DOMAIN candidates : candidates[k] \in known}
  IN IF Cardinality(found) = 1 THEN CHOOSE k \in found : TRUE ELSE 0

\* The first candidate that the tree has; 0 if it has none.
FirstKnown(candidates, known) == SelectInSeq(candidates, LAMBDA c : c \in known)

Asset(spec) == Relative(spec) /\ Lower[Last(spec).suffix] \notin SourceSuffixes \cup {""}

-----------------------------------------------------------------------------
(* The graph of a tree, a record of files and imports                       *)

Node(kind, path, line) == [kind |-> kind, path |-> path, line |-> line]

FileNode(path) == Node("FILE", path, 0)

Unresolved == Node("NONE", <<>>, 0)

\* The nodes that a graph may have: files, symbols, and what an import may stand for.
AnyNode ==
  {FileNode(f) : f \in Files}
    \cup (UNION {{Node("SYMBOL", f, s.line) : s \in Symbols[f]} : f \in Files})
    \cup {Node(kind, p, 0) : kind \in {"ASSET", "EXTERNAL"},
                             p \in {Specifiers[i] : i \in DOMAIN Specifiers}
                                     \cup {Normalized[u] : u \in Files \X DOMAIN Specifiers}}

\* uq: a snapshot has one node of a kind and natural key.
ASSUME RankAssumption ==
  /\ \A n \in AnyNode : Rank[n] \in Int
  /\ \A m, n \in AnyNode : Rank[m] = Rank[n] => m = n

\* What the import at a line of a file stands for.
Target(tree, path, line) ==
  LET spec == Specifiers[line]
      base == Normalized[<<path, line>>]
      candidates == ImportCandidates[<<path, line>>]
      first == FirstKnown(candidates, tree.files)
  IN CASE first # 0 -> FileNode(candidates[first])
       [] first = 0 /\ Asset(spec) -> Node("ASSET", IF Escapes(base) THEN spec ELSE base, 0)
       [] first = 0 /\ Relative(spec) /\ ~Asset(spec) -> Unresolved
       [] OTHER -> Node("EXTERNAL", spec, 0)

ImportsOf(tree) == {u \in tree.files \X DOMAIN Specifiers : u[2] \in tree.imports[u[1]]}

\* A path that is the root itself has no name to give a suffix to: with_suffix raises, and the
\* analysis fails.
Builds(tree) ==
  \A u \in ImportsOf(tree) :
    Relative(Specifiers[u[2]]) => Normalized[u] # <<>>

Evidence(kind, path, line) == [kind |-> kind, path |-> path, line |-> line]

\* Mutant: an import replaces the evidence of the earlier ones.
LastImport(tree, node) == {CHOOSE u \in ImportsOf(tree) : Target(tree, u[1], u[2]) = node}

\* The imports of a module, in any file.
ImportersOf(tree, node) == {u \in ImportsOf(tree) : Target(tree, u[1], u[2]) = node}

Targets(tree) == {Target(tree, u[1], u[2]) : u \in ImportsOf(tree)}

\* What is imported and is no file of the tree.
Modules(tree) == {n \in Targets(tree) : n.kind \in {"ASSET", "EXTERNAL"}}

SymbolNodes(tree) ==
  UNION {{Node("SYMBOL", f, s.line) : s \in Symbols[f]} : f \in tree.files}

Nodes(tree) == {FileNode(f) : f \in tree.files} \cup SymbolNodes(tree) \cup Modules(tree)

\* The evidence_ids of a node.
EvidenceOf(tree, node) ==
  CASE node.kind = "FILE" -> {Evidence("file", node.path, 0)}
    [] node.kind = "SYMBOL" -> {Evidence("symbol", node.path, node.line)}
    [] OTHER -> {Evidence("import", u[1], u[2]) : u \in ImportersOf(tree, node)}

Edge(kind, from, to, evidence) == [kind |-> kind, from |-> from, to |-> to, evidence |-> evidence]

\* A symbol is declared by its file, and exported by the exports of its name.
SymbolEdges(tree) ==
  UNION {LET f == n.path
             name == (CHOOSE s \in Symbols[f] : s.line = n.line).name
             lines == {x.line : x \in {x \in Exports[f] : x.name = name}}
         IN {Edge("DECLARES", FileNode(f), n, Evidence("symbol", f, n.line))}
              \cup {Edge("EXPORTS", FileNode(f), n, Evidence("export", f, l)) :
                      l \in {l \in lines : \A k \in lines : k <= l}}
         : n \in SymbolNodes(tree)}

\* One edge from a file to each of its targets, with the evidence of the last import.
ImportEdges(tree) ==
  {Edge("IMPORTS", FileNode(u[1]), Target(tree, u[1], u[2]), Evidence("import", u[1], u[2])) :
     u \in {u \in ImportsOf(tree) :
              /\ Target(tree, u[1], u[2]) # Unresolved
              /\ \A i \in tree.imports[u[1]] :
                   Target(tree, u[1], i) = Target(tree, u[1], u[2]) => i <= u[2]}}

Edges(tree) == SymbolEdges(tree) \cup ImportEdges(tree)

Graph(tree) == [nodes |-> Nodes(tree), edges |-> Edges(tree)]

\* The imports with an UNRESOLVED_IMPORT.
Diagnosed(tree) == {u \in ImportsOf(tree) : Target(tree, u[1], u[2]) = Unresolved}

\* Every fact has its evidence, and so have the diagnostics of the parser.
EvidenceSet(tree) ==
  {Evidence("file", f, 0) : f \in tree.files}
    \cup {Evidence("symbol", n.path, n.line) : n \in SymbolNodes(tree)}
    \cup (UNION {{Evidence("export", f, x.line) :
                    x \in {x \in Exports[f] : x.name \in {s.name : s \in Symbols[f]}}} : f \in tree.files})
    \cup {Evidence("import", u[1], u[2]) : u \in ImportsOf(tree)}
    \cup {Evidence("diagnostic", f, 0) : f \in tree.files \cap Broken}

-----------------------------------------------------------------------------
(* The tree and its snapshots                                               *)

Tree == [files |-> files, imports |-> imports]

AnyEvidence ==
  [kind : {"file", "symbol", "export", "import", "diagnostic"}, path : Files, line : Nat]

AnyEdge ==
  [kind : {"DECLARES", "EXPORTS", "IMPORTS"}, from : AnyNode, to : AnyNode, evidence : AnyEvidence]

TypeOK ==
  /\ files \subseteq Files
  /\ imports \in [Files -> SUBSET DOMAIN Specifiers]
  /\ edits \in 0..MaxEdits
  /\ published \in Seq([nodes : SUBSET AnyNode, edges : SUBSET AnyEdge])
  /\ walk \in [pc : {"idle", "more", "done"}, pinned : BOOLEAN, offset : Nat,
               scopes : SUBSET Nat, seen : SUBSET AnyNode, twice : BOOLEAN,
               edges : SUBSET AnyEdge, limited : BOOLEAN]

NoWalk == [pc |-> "idle", pinned |-> FALSE, offset |-> 0, scopes |-> {}, seen |-> {}, twice |-> FALSE,
           edges |-> {}, limited |-> FALSE]

Init ==
  /\ files = FirstFiles
  /\ imports = [f \in Files |-> {}]
  /\ edits = 0
  /\ published = <<>>
  /\ walk = NoWalk

Edit == edits < MaxEdits /\ edits' = edits + 1 /\ UNCHANGED <<published, walk>>

AddFile(f) ==
  /\ f \notin files
  /\ files' = files \cup {f}
  /\ Edit /\ UNCHANGED imports

RemoveFile(f) ==
  /\ f \in files
  /\ files' = files \ {f}
  /\ imports' = [imports EXCEPT ![f] = {}]
  /\ Edit

AddImport(f, i) ==
  /\ f \in files /\ i \notin imports[f]
  /\ imports' = [imports EXCEPT ![f] = imports[f] \cup {i}]
  /\ Edit /\ UNCHANGED files

\* An analysis pins the tree and publishes its graph; it fails if the graph cannot be built.
Publish ==
  /\ Len(published) < MaxSnapshots /\ Builds(Tree)
  /\ published' = Append(published, Graph(Tree))
  /\ UNCHANGED <<files, imports, edits, walk>>

-----------------------------------------------------------------------------
(* Pages                                                                    *)

\* How many nodes of a graph come before one of them.
Place(nodes, n) == Cardinality({m \in nodes : Rank[m] < Rank[n]})

\* Mutant: the page keeps the node that only tells whether there are more.
PageWithNext(nodes, offset) == {n \in nodes : Place(nodes, n) \in offset..offset + PageSize}

\* ORDER BY kind, natural_key OFFSET offset LIMIT limit
Page(nodes, offset) == {n \in nodes : Place(nodes, n) \in offset..offset + PageSize - 1}

HasMore(nodes, offset) == Cardinality(nodes) > offset + PageSize

\* The edges of a page are those between its nodes.
PageEdges(graph, offset) ==
  LET page == Page(graph.nodes, offset) IN {e \in graph.edges : {e.from, e.to} \subseteq page}

\* "Edges are limited to relationships between nodes in this page."
Limited(nodes, offset) == HasMore(nodes, offset) \/ offset > 0

\* The snapshot that answers: the one named by its commit, or the latest.
Answering(w) ==
  IF w.pinned /\ w.scopes # {} THEN CHOOSE s \in w.scopes : TRUE ELSE Len(published)

\* The client asks for a page and keeps its nodes and edges, its scope, whether it names the
\* limitation, and the next cursor.
GetPage(w) ==
  LET s == Answering(w)
      nodes == published[s].nodes
      page == Page(nodes, w.offset)
  IN walk' = [w EXCEPT !.pc = IF HasMore(nodes, w.offset) THEN "more" ELSE "done",
                       !.offset = w.offset + PageSize,
                       !.scopes = w.scopes \cup {s},
                       !.seen = w.seen \cup page,
                       !.twice = w.twice \/ w.seen \cap page # {},
                       !.edges = w.edges \cup PageEdges(published[s], w.offset),
                       !.limited = w.limited \/ Limited(nodes, w.offset)]

\* The first page is of the latest snapshot; a client that pins it names its commit from then on.
FirstPage ==
  /\ walk.pc \in {"idle", "done"} /\ published # <<>>
  /\ \E pinned \in BOOLEAN : GetPage([NoWalk EXCEPT !.pinned = pinned])
  /\ UNCHANGED <<files, imports, edits, published>>

NextPage ==
  /\ walk.pc = "more"
  /\ GetPage(walk)
  /\ UNCHANGED <<files, imports, edits, published>>

Next ==
  \/ \E f \in Files : AddFile(f) \/ RemoveFile(f)
  \/ \E f \in Files, i \in DOMAIN Specifiers : AddImport(f, i)
  \/ Publish \/ FirstPage \/ NextPage

Spec == Init /\ [][Next]_vars

-----------------------------------------------------------------------------
(* Properties                                                               *)

\* What graph_edges and graph_nodes refer to is stored with them: an edge joins two nodes of
\* its graph, and its evidence, like that of every node, is there to be shown.
GraphIsClosed ==
  LET nodes == Nodes(Tree)
      stored == EvidenceSet(Tree)
  IN /\ \A e \in Edges(Tree) : {e.from, e.to} \subseteq nodes /\ e.evidence \in stored
     /\ \A n \in nodes : EvidenceOf(Tree, n) \subseteq stored

\* The files that a module resolver may take for a path: itself, the same name with the suffix
\* of a source, or the index of a directory.
MayMean(base, g) ==
  \/ g = base
  \/ /\ Front(g) = Front(base) /\ Last(g).stem = Last(base).stem
     /\ \/ Lower[Last(base).suffix] = "" /\ Last(g).suffix \in SourceSuffixes \ {".mts", ".cts"}
        \/ Lower[Last(base).suffix] \in {".js", ".jsx"} /\ Last(g).suffix \in {".ts", ".tsx"}
  \/ /\ Front(g) = base /\ Lower[Last(base).suffix] = ""
     /\ Last(g).stem = "index" /\ Last(g).suffix \in {".ts", ".tsx", ".js", ".jsx"}

\* The files of the tree that a relative import may mean.
Meant(u) ==
  {g \in files : /\ Relative(Specifiers[u[2]]) /\ Normalized[u] # <<>> /\ ~Escapes(Normalized[u])
                 /\ MayMean(Normalized[u], g)}

\* No import is lost or invented.  It is an edge to a file it can mean, and only to such a
\* file; or, when the tree has none of them, to its asset or package; or it is diagnosed.
ImportsAreAccountedFor ==
  LET edges == ImportEdges(Tree) IN
  \A u \in ImportsOf(Tree) :
    LET to == {e.to : e \in {e \in edges : e.from = FileNode(u[1]) /\ e.evidence.line >= u[2]}}
    IN IF Meant(u) # {} THEN \E g \in Meant(u) : FileNode(g) \in to
       ELSE \/ u \in Diagnosed(Tree)
            \/ \E n \in to : /\ n.kind \in {"ASSET", "EXTERNAL"}
                             /\ Evidence("import", u[1], u[2]) \in EvidenceOf(Tree, n)

\* A file that comes or goes changes what it is, or was, the target of and nothing else: an
\* import follows a new file only to that file, and a removed one only if it led there.
ImportsFollowTheTree ==
  [][\A f \in files \cap files' : \A i \in imports[f] :
       LET before == Target(Tree, f, i)
           after == Target(Tree, f, i)'
       IN before # after =>
            \/ after \in {FileNode(g) : g \in files' \ files}
            \/ before \in {FileNode(g) : g \in files \ files'}]_vars

\* The edges that a client has of a graph: all, unless a page has named the limitation.
Draws(w, graph) == w.edges \subseteq graph.edges /\ (~w.limited => w.edges = graph.edges)

\* A client whose pages have one scope has only edges of that snapshot, and all of them unless a
\* page has said that edges between nodes of different pages are left out; at the last page it
\* has every node of the snapshot once.  Naming the commit keeps the scope, whatever is
\* published meanwhile.
WalkIsComplete ==
  /\ walk.pinned => Cardinality(walk.scopes) = 1
  /\ Cardinality(walk.scopes) = 1 =>
       \A s \in walk.scopes :
         /\ Draws(walk, published[s])
         /\ walk.pc = "done" => ~walk.twice /\ walk.seen = published[s].nodes

\* The nodes that the pages up to an offset have shown.
Shown(nodes, offset) == {n \in nodes : Place(nodes, n) < offset}

\* What a client that reads one snapshot has: what comes before its cursor, and edges.
Reads(w) ==
  /\ w.scopes \subseteq DOMAIN published
  /\ w.scopes = {} => w.seen = {} /\ w.edges = {} /\ w.offset = 0 /\ ~w.twice
  /\ \A s \in w.scopes : w.pinned => w.scopes = {s}
  /\ \A s \in w.scopes :
       w.scopes = {s} => /\ w.seen = Shown(published[s].nodes, w.offset) /\ ~w.twice
                         /\ Draws(w, published[s])

\* The inductive invariant: published graphs are closed, and a client that came to the last page
\* of its snapshot has its cursor behind all nodes.
WalkInv ==
  /\ \A s \in DOMAIN published : \A e \in published[s].edges : {e.from, e.to} \subseteq published[s].nodes
  /\ Reads(walk)
  /\ IF walk.pc = "idle" THEN ~walk.pinned ELSE walk.scopes # {}
  /\ walk.pc = "done" =>
       \A s \in walk.scopes :
         walk.scopes = {s} => Cardinality(published[s].nodes) <= walk.offset
=============================================================================
