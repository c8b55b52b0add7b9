-------------------------- MODULE IncrementalIndex --------------------------
(***************************************************************************)
(* How the indexer turns the source into the canonical graph (indexer.py), *)
(* revision after revision, and how the coverage issuer publishes an       *)
(* overlay of a revision beside it (coverage_authority/issuer.py).         *)
(*                                                                         *)
(* A run reads every file, parses those that changed, widens them to the   *)
(* files whose references they may resolve differently, copies the graph   *)
(* of CURRENT, replaces what those files own and publishes.  The rows of   *)
(* the files table (hash and semantic digest by path) belong to the        *)
(* repository, not to a revision: they decide what the next run reads      *)
(* again.                                                                  *)
(*                                                                         *)
(* A content is what its parser makes of it: the functions it defines and  *)
(* declares, the calls in them, the references between them, the names it  *)
(* imports and the files it includes.  Two contents with the same facts    *)
(* differ in comments only.  Spans, languages side by side, and the derived *)
(* containment nodes and edges are left out.                               *)
(***************************************************************************)
EXTENDS Naturals, FiniteSets

CONSTANTS
  Files,         \* paths, in their sorted order
  Names,         \* names of functions
  Contents,      \* contents of a file
  Versions,      \* the contents each file may have
  Facts,         \* the ParsedFile of each content; Broken: a ParseError
  Absent,        \* content of a path that is not there
  Broken,        \* facts of a file that does not parse or was never indexed
  Unread,        \* digest of a path without a row, or with one that failed
  External,      \* names with external linkage: one symbol in all files
  Postgres,      \* the store: begin locks the repository, edges are foreign keys
  MaxRevisions,  \* bound on revisions
  MaxEdits,      \* bound on edits of the source
  MaxUpgrades    \* bound on changes of the analysis identity

ParsedFile == [defs : SUBSET Names, decls : SUBSET Names,
               calls : SUBSET (Names \X Names), refs : SUBSET (Names \X Names),
               imports : SUBSET (Names \X Files), includes : SUBSET Files]

ASSUME IndexAssumption ==
  /\ Files \subseteq Nat /\ IsFiniteSet(Files)
  /\ Versions \in [Files -> SUBSET Contents]
  /\ Facts \in [Contents -> ParsedFile \cup {Broken}]
  /\ Broken \notin ParsedFile
  /\ \A c \in Contents : Facts[c] # Broken =>          \* a name is imported once
        \A i, j \in Facts[c].imports : i[1] = j[1] => i = j
  /\ Absent \notin Contents /\ Unread \notin Contents
  /\ External \subseteq Names /\ Postgres \in BOOLEAN
  /\ {MaxRevisions, MaxEdits, MaxUpgrades} \subseteq Nat

VARIABLES
  source,    \* the files under the root
  tool,      \* analysis identity of the program that runs now
  rows,      \* table files
  current,   \* CURRENT: number, parent and analysis identity (0: none)
  graph,     \* its canonical graph
  receipts,  \* source digest in the support receipts a file owns
  run,       \* the index transaction
  issuer,    \* the coverage issuer
  edits,     \* edits left
  scanned,   \* what the last run that committed had read (history)
  shrunk     \* an indexed path was once missing at a scan (history)

history == <<scanned, shrunk>>
canonical == <<rows, current, graph, receipts>>
vars == <<source, tool, canonical, run, issuer, edits, history>>

Digest == Contents \cup {Unread}
Parsed == ParsedFile \cup {Broken}
Row == [hash : Digest, facts : Parsed, tool : 0..MaxUpgrades]
Symbol == Names \X (Files \cup {Absent})
NoRow == [hash |-> Unread, facts |-> Broken, tool |-> 0]
Idle == [phase |-> "idle"]

Text(p, read) == IF read[p] = Absent THEN Broken ELSE Facts[read[p]]
Texts(read) == [p \in Files |-> Text(p, read)]
Present(read) == {p \in Files : read[p] # Absent}

(***************************************************************************)
(* Nodes.  A node is a symbol with the path of its row and whether that    *)
(* row says it is defined; files that declare or define the same external  *)
(* name share it.                                                          *)
(***************************************************************************)
Sym(n, p) == <<n, IF n \in External THEN Absent ELSE p>>
Mentions(facts, n) == facts # Broken /\ n \in facts.defs \cup facts.decls
Defines(facts, n) == facts # Broken /\ n \in facts.defs
SymbolsOf(parsed, p) == {Sym(n, p) : n \in {m \in Names : Mentions(parsed[p], m)}}
SymbolsIn(parsed, paths) == UNION {SymbolsOf(parsed, p) : p \in paths}

First(paths) == CHOOSE p \in paths : \A q \in paths : p <= q

Mentioners(parsed, paths, s) == {p \in paths : s \in SymbolsOf(parsed, p)}
Definers(parsed, paths, s) ==
  {p \in Mentioners(parsed, paths, s) : Defines(parsed[p], s[1])}

(* The paths that define s once the files of paths are added to nodes. *)
DefiningPaths(nodes, parsed, paths, s) ==
  Definers(parsed, paths, s)
    \cup (IF s \in DOMAIN nodes /\ nodes[s].defined THEN {nodes[s].path} ELSE {})

Collision(nodes, parsed, paths) ==
  \E p \in paths : \E s \in SymbolsOf(parsed, p) :
    /\ Definers(parsed, paths, s) # {}
    /\ Cardinality(DefiningPaths(nodes, parsed, paths, s)) > 1

UpsertNodes(nodes, parsed, paths) ==
  LET Upserted(s) ==
        LET definers == DefiningPaths(nodes, parsed, paths, s)
        IN [path |-> IF definers # {} THEN First(definers)
                     ELSE IF s \in DOMAIN nodes THEN nodes[s].path
                     ELSE First(Mentioners(parsed, paths, s)),
            defined |-> definers # {}]
  IN [s \in DOMAIN nodes \cup SymbolsIn(parsed, paths) |->
        IF s \in SymbolsIn(parsed, paths) THEN Upserted(s) ELSE nodes[s]]

(* delete_nodes_in_paths_except: rows of paths whose symbol is no longer   *)
(* mentioned by any of them.                                               *)
PruneNodes(nodes, parsed, paths) ==
  [s \in {t \in DOMAIN nodes : nodes[t].path \notin paths \/ t \in SymbolsIn(parsed, paths)}
     |-> nodes[s]]

(***************************************************************************)
(* Resolution of the calls, references, imports and includes a file owns.  *)
(***************************************************************************)
Candidates(nodes, facts, p, n) ==
  {Sym(n, m) : m \in {q \in Files : <<n, q>> \in facts.imports}} \cap DOMAIN nodes

Named(nodes, n) == {s \in DOMAIN nodes : s[1] = n}

(* The files of paths that hold the row of a node named n (by_name). *)
Holders(nodes, paths, n) ==
  {p \in paths : Sym(n, p) \in DOMAIN nodes /\ nodes[Sym(n, p)].path = p}

FileNodes(parsed) == {p \in Files : parsed[p] # Broken}

Includes(parsed, paths) ==
  {q \in FileNodes(parsed) : \E p \in paths \cap FileNodes(parsed) : q \in parsed[p].includes}

(* What p includes, at any depth: what is in every set that has the files  *)
(* p includes and those that its own members include.                      *)
IncludeClosure(parsed, p) ==
  {q \in Files : \A found \in SUBSET Files :
     Includes(parsed, {p} \cup found) \subseteq found => q \in found}

(* What the callee n of a call in p resolves to: an imported name, a name  *)
(* of the same file, a name of an included file, or a name that is unique  *)
(* in the repository.  Of several included files that have the name, under *)
(* different conditions, the code takes the one its set yields first.      *)
Resolved(nodes, parsed, p, n) ==
  LET candidates == Candidates(nodes, parsed[p], p, n)
      included == Holders(nodes, IncludeClosure(parsed, p), n)
  IN IF candidates # {} THEN candidates
     ELSE IF Holders(nodes, {p}, n) # {} THEN {Sym(n, p)}
     ELSE IF included # {} THEN {Sym(n, First(included))}
     ELSE IF Cardinality(Named(nodes, n)) = 1 THEN Named(nodes, n) ELSE {}

(* A call needs a node around it whose row is in the same file. *)
Calls(nodes, parsed, p) ==
  UNION {{<<"CALLS", Sym(call[1], p), t>> : t \in Resolved(nodes, parsed, p, call[2])} :
    call \in {c \in parsed[p].calls : Holders(nodes, {p}, c[1]) # {}}}

(* A reference by name: here includes do not count, and the same file goes *)
(* before the imports.                                                     *)
Referred(nodes, facts, p, n) ==
  IF Holders(nodes, {p}, n) # {} THEN {Sym(n, p)}
  ELSE IF Candidates(nodes, facts, p, n) # {} THEN Candidates(nodes, facts, p, n)
  ELSE IF Cardinality(Named(nodes, n)) = 1 THEN Named(nodes, n) ELSE {}

(* The edges the adapter leaves pending: from a node of known identity,    *)
(* whichever file holds its row, to one known by its name.                 *)
References(nodes, facts, p) ==
  UNION {{<<"REFERS", Sym(ref[1], p), t>> : t \in Referred(nodes, facts, p, ref[2])} :
    ref \in {r \in facts.refs : Sym(r[1], p) \in DOMAIN nodes}}

EdgesOf(nodes, parsed, p) ==
  IF parsed[p] = Broken THEN {} ELSE
  Calls(nodes, parsed, p) \cup References(nodes, parsed[p], p)
    \cup {<<"IMPORTS", p, q>> : q \in {i[2] : i \in parsed[p].imports} \cap FileNodes(parsed)}
    \cup {<<"INCLUDES", p, q>> : q \in parsed[p].includes \cap FileNodes(parsed)}

BetweenSymbols(e) == e[1] \in {"CALLS", "REFERS"}

(* delete_edges_from_paths: the node an edge leaves is in one of paths. *)
LeavesFrom(nodes, e, paths) ==
  IF BetweenSymbols(e) THEN e[2] \in DOMAIN nodes /\ nodes[e[2]].path \in paths
                       ELSE e[2] \in paths

EmptyGraph == [nodes |-> [s \in {} |-> NoRow], parsed |-> [p \in Files |-> Broken],
               edges |-> {}]

FullGraph(read) ==
  LET nodes == UpsertNodes(EmptyGraph.nodes, Texts(read), Files)
  IN [nodes |-> nodes, parsed |-> Texts(read),
      edges |-> UNION {EdgesOf(nodes, Texts(read), p) : p \in Files}]

(* The graph of CURRENT is copied and what the files of paths own is       *)
(* replaced: the old edges go first, then new nodes come, then old ones    *)
(* go, then the new edges come.                                            *)
ParsedAgain(old, read, paths) ==
  [p \in Files |-> IF p \in paths THEN Text(p, read) ELSE old.parsed[p]]

KeptEdges(old, paths) == {e \in old.edges : ~LeavesFrom(old.nodes, e, paths)}

DeltaNodes(old, parsed, paths) ==
  PruneNodes(UpsertNodes(old.nodes, parsed, paths), parsed, paths)

DeltaGraph(old, read, paths) ==
  LET parsed == ParsedAgain(old, read, paths)
      nodes == DeltaNodes(old, parsed, paths)
  IN [nodes |-> nodes, parsed |-> parsed,
      edges |-> KeptEdges(old, paths) \cup UNION {EdgesOf(nodes, parsed, p) : p \in paths}]

(* A node that goes leaves no edge behind.  The node of a file is always   *)
(* contained in the repository, so it cannot go at all.                    *)
DeletesCleanly(old, read, paths) ==
  LET parsed == ParsedAgain(old, read, paths)
      nodes == DeltaNodes(old, parsed, paths)
  IN /\ FileNodes(old.parsed) \subseteq FileNodes(parsed)
     /\ \A e \in KeptEdges(old, paths) :
          BetweenSymbols(e) => {e[2], e[3]} \subseteq DOMAIN nodes

(***************************************************************************)
(* The dependency closure.                                                 *)
(***************************************************************************)
SemanticSeeds(seeds, read) ==
  {p \in seeds : Text(p, read) = Broken \/ rows[p].facts # Text(p, read)}

Includers(found) ==
  {p \in Files : graph.parsed[p] # Broken /\ graph.parsed[p].includes \cap found # {}}

(* The files of paths and whatever includes them, at any depth: what is in *)
(* every set that has paths and is closed under being included.            *)
IncludersOf(paths) ==
  {p \in Files : \A found \in SUBSET Files :
     paths \subseteq found /\ Includers(found) \subseteq found => p \in found}

OldDefs(paths) ==
  {<<s, graph.nodes[s].defined>> : s \in {t \in DOMAIN graph.nodes : graph.nodes[t].path \in paths}}
NewDefs(paths, read) ==
  UNION {{<<Sym(n, p), Defines(Text(p, read), n)>> :
            n \in {m \in Names : Mentions(Text(p, read), m)}} : p \in paths}

ChangedNames(paths, read) ==
  {d[1][1] : d \in (OldDefs(paths) \ NewDefs(paths, read))
                     \cup (NewDefs(paths, read) \ OldDefs(paths))}
ChangedModules(paths, read) ==
  {p \in paths : (graph.parsed[p] = Broken) # (Text(p, read) = Broken)}

(* The files with a call or a reference to a changed name, or an import of *)
(* a changed module.                                                       *)
SymbolicUsers(names, modules) ==
  {p \in FileNodes(graph.parsed) :
     \/ \E c \in graph.parsed[p].calls : c[2] \in names
     \/ \E r \in graph.parsed[p].refs : {r[1], r[2]} \cap names # {}
     \/ \E i \in graph.parsed[p].imports : i[2] \in modules}

UsersOf(semantic, read) ==
  SymbolicUsers(ChangedNames(semantic, read), ChangedModules(semantic, read))

(* Slip: the includes are left out. *)
ClosureOfSymbols(seeds, read) == seeds \cup UsersOf(SemanticSeeds(seeds, read), read)

DependencyClosure(seeds, read) ==
  LET semantic == SemanticSeeds(seeds, read)
  IN seeds \cup IncludersOf(semantic) \cup UsersOf(semantic, read)

(***************************************************************************)
(* One index transaction: begin and _scan, then everything else.           *)
(***************************************************************************)
Changed(read) == {p \in Present(read) : rows[p].hash # read[p]}
(* The hash of a file that does not parse is recorded as well. *)
RowForAny(p, read, identity) ==
  [hash |-> read[p], facts |-> Facts[read[p]], tool |-> identity]

RowFor(p, read, identity) ==
  IF Facts[read[p]] = Broken THEN [NoRow EXCEPT !.tool = identity]
  ELSE [hash |-> read[p], facts |-> Facts[read[p]], tool |-> identity]

WriteRows(paths) ==
  rows' = [p \in Files |-> IF p \in paths THEN RowFor(p, run.read, tool) ELSE rows[p]]

(* The row is read before it is written. *)
IssueEarly(paths) ==
  receipts' = [p \in Files |->
    IF p \in paths THEN rows[p].hash ELSE receipts[p]]

IssueReceipts(paths) ==
  receipts' = [p \in Files |->
    IF p \in paths THEN rows'[p].hash ELSE receipts[p]]

Publish(parent) ==
  current' = [number |-> current.number + 1, parent |-> parent, tool |-> tool]

Incremental == current.number # 0 /\ ~run.force
IdentityChanged == tool # current.tool

SemanticallyUnchanged(p) ==
  /\ Facts[run.read[p]] # Broken
  /\ rows[p].facts = Facts[run.read[p]]

Invalidated ==
  LET seeds == IF IdentityChanged THEN Present(run.read) ELSE Changed(run.read)
  IN DependencyClosure(seeds, run.read) \cap Present(run.read)

(* A run ends: what it read is what CURRENT stands for from now on. *)
Committed ==
  /\ run' = Idle
  /\ scanned' = run.read
  /\ shrunk' = (shrunk \/ \E p \in Files \ Present(run.read) :
                  rows[p] # NoRow \/ graph.parsed[p] # Broken)
  /\ UNCHANGED <<source, tool, issuer, edits>>

Rollback ==
  /\ run' = Idle
  /\ UNCHANGED <<source, tool, canonical, issuer, edits, history>>

NoFileChanged ==
  /\ run.phase = "scanned" /\ Incremental
  /\ Changed(run.read) = {} /\ ~IdentityChanged
  /\ UNCHANGED canonical
  /\ Committed

CutsOff ==
  /\ Incremental /\ Changed(run.read) # {} /\ ~IdentityChanged
  /\ \A p \in Changed(run.read) : SemanticallyUnchanged(p) /\ rows[p].tool = tool

SemanticCutoff ==
  /\ run.phase = "scanned" /\ CutsOff
  /\ WriteRows(Changed(run.read))
  /\ UNCHANGED <<current, graph, receipts>>
  /\ Committed

Reuses ==
  /\ Incremental /\ IdentityChanged /\ Changed(run.read) = {}
  /\ \A p \in Invalidated : SemanticallyUnchanged(p)

(* Receipts are issued again when their source is still the row's; the     *)
(* facts are copied.                                                       *)
DriftedReceipts ==
  {p \in Invalidated : receipts[p] # Unread /\ receipts[p] # run.read[p]}

ReattestRevision ==
  /\ run.phase = "scanned" /\ Reuses
  /\ DriftedReceipts = {}
  /\ current.number < MaxRevisions
  /\ WriteRows(Invalidated)
  /\ Publish(current.number)
  /\ UNCHANGED <<graph, receipts>>
  /\ Committed

ReattestRaises ==
  /\ run.phase = "scanned" /\ Reuses
  /\ DriftedReceipts # {}
  /\ Rollback

BuildsRevision ==
  /\ run.phase = "scanned" /\ Incremental /\ ~CutsOff /\ ~Reuses
  /\ Changed(run.read) # {} \/ IdentityChanged

(* The copied nodes are still there while the new ones are merged. *)
Collides == Collision(graph.nodes, Texts(run.read), Invalidated)

Dangles == ~DeletesCleanly(graph, run.read, Invalidated)

BuildRevision ==
  /\ BuildsRevision /\ ~Collides
  /\ Postgres => ~Dangles
  /\ current.number < MaxRevisions
  /\ LET paths == Invalidated
     IN /\ graph' = DeltaGraph(graph, run.read, paths)
        /\ WriteRows(paths)
        /\ IssueReceipts(paths)
  /\ Publish(current.number)
  /\ Committed

BuildCollides ==
  /\ BuildsRevision /\ Collides
  /\ Rollback

ForeignKeyRaises ==
  /\ BuildsRevision /\ ~Collides
  /\ Postgres /\ Dangles
  /\ Rollback

DefinedTwice(read) == Collision(EmptyGraph.nodes, Texts(read), Files)

FullRevision ==
  /\ run.phase = "scanned" /\ ~Incremental
  /\ current.number < MaxRevisions
  /\ ~DefinedTwice(run.read)
  /\ graph' = FullGraph(run.read)
  /\ WriteRows(Present(run.read))
  /\ receipts' = [p \in Files |-> IF p \in Present(run.read) THEN rows'[p].hash ELSE Unread]
  /\ Publish(current.number)
  /\ Committed

FullCollides ==
  /\ run.phase = "scanned" /\ ~Incremental
  /\ DefinedTwice(run.read)
  /\ Rollback

(* A database operation, the progress callback or a cancellation raises. *)
RunFails ==
  /\ run.phase = "scanned"
  /\ Rollback

Begin(force) ==
  /\ run = Idle /\ current.number < MaxRevisions
  /\ force => current.number # 0
  /\ Postgres => issuer.phase # "checked"
  /\ run' = [phase |-> "scanned", read |-> source, force |-> force]
  /\ UNCHANGED <<source, tool, canonical, issuer, edits, history>>

(***************************************************************************)
(* The coverage issuer: it analyses one file of CURRENT, and publishes a   *)
(* copy of that revision with a certificate and new support for the file.  *)
(***************************************************************************)
Analyzable(p) ==
  /\ source[p] # Absent
  /\ rows[p].hash = source[p]
  /\ \E s \in DOMAIN graph.nodes : graph.nodes[s].path = p

IssuerBegins(p) ==
  /\ issuer = Idle /\ current.number # 0 /\ current.number < MaxRevisions
  /\ Analyzable(p)
  /\ issuer' = [phase |-> "analysing", base |-> current, unit |-> p, read |-> source[p],
                graph |-> graph, receipts |-> receipts]
  /\ UNCHANGED <<source, tool, canonical, run, edits, history>>

(* The check without the lock, as on SQLite, where begin does nothing. *)
IssuerChecksUnlocked ==
  /\ issuer.phase = "analysing"
  /\ source[issuer.unit] = issuer.read
  /\ current.number = issuer.base.number
  /\ issuer' = [issuer EXCEPT !.phase = "checked"]
  /\ UNCHANGED <<source, tool, canonical, run, edits, history>>

(* begin: on PostgreSQL it waits for the transaction of the indexer. *)
IssuerChecks ==
  /\ issuer.phase = "analysing"
  /\ source[issuer.unit] = issuer.read
  /\ Postgres => run = Idle
  /\ current.number = issuer.base.number
  /\ issuer' = [issuer EXCEPT !.phase = "checked"]
  /\ UNCHANGED <<source, tool, canonical, run, edits, history>>

(* The base is copied with its meta; nothing but support is added, and the *)
(* certificate is written in the same transaction.                         *)
IssuerPublishes ==
  /\ issuer.phase = "checked"
  /\ run = Idle /\ current.number < MaxRevisions
  /\ current' = [number |-> current.number + 1, parent |-> issuer.base.number,
                 tool |-> issuer.base.tool]
  /\ graph' = issuer.graph
  /\ receipts' = issuer.receipts
  /\ issuer' = Idle
  /\ UNCHANGED <<source, tool, rows, run, edits, history>>

(* The source or CURRENT moved, the analysis failed, or the store raised. *)
IssuerGivesUp ==
  /\ issuer # Idle
  /\ issuer' = Idle
  /\ UNCHANGED <<source, tool, canonical, run, edits, history>>

(***************************************************************************)
(* The world around them.                                                  *)
(***************************************************************************)
Edit(p, c) ==
  /\ edits > 0 /\ source[p] # c
  /\ source' = [source EXCEPT ![p] = c]
  /\ edits' = edits - 1
  /\ UNCHANGED <<tool, canonical, run, issuer, history>>

(* A new version, another provider configuration or another commit; the    *)
(* program of a transaction does not change under it.                      *)
Upgrade ==
  /\ run = Idle /\ current.number # 0 /\ tool < MaxUpgrades
  /\ tool' = tool + 1
  /\ UNCHANGED <<source, canonical, run, issuer, edits, history>>

Init ==
  /\ source \in {files \in [Files -> Contents \cup {Absent}] :
                  \A p \in Files : files[p] \in Versions[p] \cup {Absent}}
  /\ tool = 0
  /\ rows = [p \in Files |-> NoRow]
  /\ current = [number |-> 0, parent |-> 0, tool |-> 0]
  /\ graph = EmptyGraph
  /\ receipts = [p \in Files |-> Unread]
  /\ run = Idle /\ issuer = Idle
  /\ edits = MaxEdits
  /\ scanned = [p \in Files |-> Absent]
  /\ shrunk = FALSE

IndexRun ==
  \/ \E force \in BOOLEAN : Begin(force)
  \/ NoFileChanged \/ SemanticCutoff
  \/ ReattestRevision \/ ReattestRaises
  \/ BuildRevision \/ BuildCollides \/ ForeignKeyRaises
  \/ FullRevision \/ FullCollides
  \/ RunFails

Coverage ==
  \/ \E p \in Files : IssuerBegins(p)
  \/ IssuerChecks \/ IssuerPublishes \/ IssuerGivesUp

Next ==
  \/ IndexRun
  \/ Coverage
  \/ \E p \in Files : \E c \in Versions[p] \cup {Absent} : Edit(p, c)
  \/ Upgrade

Spec == Init /\ [][Next]_vars

(***************************************************************************)
(* Properties.                                                             *)
(***************************************************************************)
Revision == [number : 0..MaxRevisions, parent : 0..MaxRevisions, tool : 0..MaxUpgrades]

GraphOK(g) ==
  /\ \A s \in DOMAIN g.nodes : s \in Symbol /\ g.nodes[s].path \in Files
  /\ \A p \in Files : g.parsed[p] = Broken \/ g.parsed[p] \in {Facts[c] : c \in Contents}

(* Every variable keeps its type; a row has a digest exactly when its file *)
(* parsed.                                                                 *)
IndexTypeOK ==
  /\ source \in [Files -> Contents \cup {Absent}]
  /\ \A p \in Files : /\ rows[p].hash \in Digest /\ rows[p].tool \in 0..MaxUpgrades
                       /\ (rows[p].hash = Unread) = (rows[p].facts = Broken)
  /\ current \in Revision /\ current.parent <= current.number
  /\ GraphOK(graph)
  /\ receipts \in [Files -> Digest]
  /\ run.phase \in {"idle", "scanned"}
  /\ issuer.phase \in {"idle", "analysing", "checked"}

(* A file declares and refers from nothing that it does not define itself: *)
(* Python and TypeScript, and Fortran without submodules.  Not C, whose    *)
(* prototypes share the node of a definition in another file, nor Go and   *)
(* Java, whose package is one node and contains what other files define.   *)
OwnSymbolsOnly ==
  \A c \in Contents : Facts[c] # Broken =>
     Facts[c].decls \cup {r[1] : r \in Facts[c].refs} \subseteq Facts[c].defs

(* What the incremental runs have built out of copies, closures, cutoffs   *)
(* and partial resolution is what one full run over the same source builds *)
(* ("dependency manifests widen invalidation only to real consumers"), as  *)
(* long as no indexed file has disappeared.  Where files share nodes it is *)
(* not: see UnchangedFactsAreCopied.                                       *)
IncrementalIsFull ==
  OwnSymbolsOnly /\ current.number # 0 /\ ~shrunk => graph = FullGraph(scanned)

(* Deleting a node never strands an edge of another file: the closure has  *)
(* invalidated every file that calls it, as long as the files that were    *)
(* indexed are there and parse (_dependency_closure, the foreign keys of   *)
(* snapshot_edges).                                                        *)
DeletionsAreClosed ==
  /\ OwnSymbolsOnly /\ BuildsRevision /\ ~shrunk
  /\ \A p \in Files : rows[p] # NoRow => Text(p, run.read) # Broken
  => ~Dangles

(* The two together: a published revision is what a full run would have    *)
(* built, and a revision about to be built on it can be.                   *)
IncrementalIsSound == IncrementalIsFull /\ DeletionsAreClosed

(* A file of CURRENT keeps the symbols it mentions ("unchanged facts are    *)
(* copied into the new snapshot", indexer.py), also when another file that *)
(* shares one of them is replaced.                                         *)
UnchangedFactsAreCopied ==
  current.number # 0 /\ ~shrunk =>
    \A p \in Files : SymbolsOf(graph.parsed, p) \subseteq DOMAIN graph.nodes

(* The source a support receipt names yields the facts it supports.        *)
ReceiptsAreOfTheFacts ==
  \A p \in Files : graph.parsed[p] # Broken =>
     receipts[p] # Unread /\ Facts[receipts[p]] = graph.parsed[p]

(* A revision becomes CURRENT only as the successor of CURRENT: nothing    *)
(* published is ever left out of the lineage of what follows.              *)
LineageIsLinear == [][current' # current => current'.parent = current.number]_vars

=============================================================================
