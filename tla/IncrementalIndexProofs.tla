----------------------- MODULE IncrementalIndexProofs -----------------------
(* Proofs about the indexer: whatever sequence of edits, incremental and    *)
(* full runs, cutoffs, failures and issuer overlays, CURRENT is what a full *)
(* run builds, its receipts name the source of its facts, and its lineage   *)
(* is linear, for any number of files, names, contents and revisions.       *)
EXTENDS IncrementalIndex, FiniteSetTheorems, WellFoundedInduction, TLAPS

Known == {Facts[c] : c \in Contents} \cup {Broken}
Reads == [Files -> Contents \cup {Absent}]

(* No two files mention the same symbol.                                    *)
Unshared(parsed) ==
  \A p, q \in Files : \A s \in SymbolsOf(parsed, p) : s \in SymbolsOf(parsed, q) => p = q

(* The nodes of a graph in which each symbol is defined in one file.        *)
NodesAre(nodes, parsed) ==
  /\ nodes = [s \in DOMAIN nodes |-> nodes[s]]
  /\ \A s : s \in DOMAIN nodes <=> \E p \in Files : s \in SymbolsOf(parsed, p)
  /\ \A p \in Files : \A s \in SymbolsOf(parsed, p) :
       nodes[s] = [path |-> p, defined |-> TRUE]

(* What merging the files of paths makes of nodes.                          *)
Merges(new, nodes, parsed, paths) ==
  /\ new = [s \in DOMAIN nodes \cup SymbolsIn(parsed, paths) |-> new[s]]
  /\ \A p \in paths : \A s \in SymbolsOf(parsed, p) :
       new[s] = [path |-> p, defined |-> TRUE]
  /\ \A s \in DOMAIN nodes \ SymbolsIn(parsed, paths) : new[s] = nodes[s]
------------------------------------------------------------------------------
(* Finite sets of paths.                                                    *)

LEMMA FirstIsThere ==
  ASSUME NEW paths \in SUBSET Files, paths # {}
  PROVE  First(paths) \in paths
<1>1. paths \subseteq Nat
  BY IndexAssumption
<1>2. PICK p \in paths : \A q \in paths : ~ (<<q, p>> \in OpToRel(<, Nat))
  BY <1>1, NatLessThanWellFounded, WFMin
<1>3. \A q \in paths : p <= q
  <2>1. ASSUME NEW q \in paths PROVE p <= q
    <3>1. p \in Nat /\ q \in Nat
      BY <1>1
    <3>2. ~ (q < p)
      BY <1>2, <3>1 DEF OpToRel
    <3>3. QED  BY <3>1, <3>2
  <2>2. QED  BY <2>1
<1>4. QED  BY <1>3 DEF First

LEMMA Only ==
  ASSUME NEW paths \in SUBSET Files, NEW p \in paths, ~ (Cardinality(paths) > 1)
  PROVE  paths = {p}
<1>1. IsFiniteSet(paths) /\ Cardinality(paths) \in Nat
  BY IndexAssumption, FS_Subset, FS_CardinalityType
<1>2. Cardinality(paths) # 0
  BY <1>1, FS_EmptySet
<1>3. Cardinality(paths) = 1
  BY <1>1, <1>2
<1>4. QED  BY <1>1, <1>3, FS_Singleton

LEMMA AtMostOne ==
  ASSUME NEW paths, NEW p, paths \subseteq {p}
  PROVE  ~ (Cardinality(paths) > 1)
<1>1. paths = {} \/ paths = {p}
  OBVIOUS
<1>2. Cardinality({}) = 0 /\ Cardinality({p}) = 1
  BY FS_EmptySet, FS_Singleton
<1>3. CASE paths = {}
  BY <1>2, <1>3
<1>4. CASE paths = {p}
  BY <1>2, <1>4
<1>5. QED  BY <1>1, <1>3, <1>4
------------------------------------------------------------------------------
(* Symbols and the files that define them.                                  *)

LEMMA SymbolIs ==
  ASSUME NEW parsed, NEW p, NEW s
  PROVE  s \in SymbolsOf(parsed, p) <=>
           /\ s[1] \in Names /\ s = Sym(s[1], p)
           /\ Mentions(parsed[p], s[1])
  BY DEF SymbolsOf, Sym

LEMMA FactsAre ==
  ASSUME NEW facts \in Known, facts # Broken
  PROVE  facts \in ParsedFile
  BY IndexAssumption DEF Known

(* Where declarations come with their definitions, to mention a name is to  *)
(* define it.                                                               *)
LEMMA MentionedIsDefined ==
  ASSUME OwnSymbolsOnly, NEW facts \in Known, NEW n
  PROVE  Mentions(facts, n) <=> Defines(facts, n)
  BY DEF OwnSymbolsOnly, Known, Mentions, Defines

LEMMA DefinersAre ==
  ASSUME OwnSymbolsOnly, NEW parsed \in [Files -> Known],
         NEW paths \in SUBSET Files, NEW s
  PROVE  Definers(parsed, paths, s) = {p \in paths : s \in SymbolsOf(parsed, p)}
<1>1. ASSUME NEW p \in paths, s \in SymbolsOf(parsed, p)
      PROVE  Defines(parsed[p], s[1])
  BY <1>1, SymbolIs, MentionedIsDefined
<1>2. QED  BY <1>1 DEF Definers, Mentioners

(* A file adds a symbol without a collision: it is the only one of paths    *)
(* that defines it, and the node that is there was its own.                 *)
LEMMA NoCollision ==
  ASSUME OwnSymbolsOnly, NEW parsed \in [Files -> Known],
         NEW paths \in SUBSET Files, NEW nodes,
         \A t \in DOMAIN nodes : nodes[t].path \in Files,
         ~ Collision(nodes, parsed, paths),
         NEW p \in paths, NEW s \in SymbolsOf(parsed, p)
  PROVE  DefiningPaths(nodes, parsed, paths, s) = {p}
<1>1. p \in Definers(parsed, paths, s)
  BY DefinersAre
<1>2. DefiningPaths(nodes, parsed, paths, s) \in SUBSET Files
  BY DefinersAre DEF DefiningPaths
<1>3. p \in DefiningPaths(nodes, parsed, paths, s)
  BY <1>1 DEF DefiningPaths
<1>4. ~ (Cardinality(DefiningPaths(nodes, parsed, paths, s)) > 1)
  BY <1>1 DEF Collision
<1>5. QED  BY <1>2, <1>3, <1>4, Only

LEMMA EmptyNodes == DOMAIN EmptyGraph.nodes = {}
  BY DEF EmptyGraph

LEMMA OnceIsUnshared ==
  ASSUME OwnSymbolsOnly, NEW parsed \in [Files -> Known]
  PROVE  ~ Collision(EmptyGraph.nodes, parsed, Files) <=> Unshared(parsed)
<1>1. ASSUME ~ Collision(EmptyGraph.nodes, parsed, Files),
             NEW p \in Files, NEW q \in Files, NEW s \in SymbolsOf(parsed, p),
             s \in SymbolsOf(parsed, q)
      PROVE  p = q
  <2>1. DefiningPaths(EmptyGraph.nodes, parsed, Files, s) = {p}
    BY <1>1, EmptyNodes, NoCollision
  <2>2. DefiningPaths(EmptyGraph.nodes, parsed, Files, s) = {q}
    BY <1>1, EmptyNodes, NoCollision
  <2>3. QED  BY <2>1, <2>2
<1>2. ASSUME Unshared(parsed)
      PROVE  ~ Collision(EmptyGraph.nodes, parsed, Files)
  <2>1. ASSUME NEW p \in Files, NEW s \in SymbolsOf(parsed, p)
        PROVE  ~ (Cardinality(DefiningPaths(EmptyGraph.nodes, parsed, Files, s)) > 1)
    <3>1. DefiningPaths(EmptyGraph.nodes, parsed, Files, s) \subseteq {p}
      BY <1>2, <2>1, EmptyNodes, DefinersAre DEF DefiningPaths, Unshared
    <3>2. QED  BY <3>1, AtMostOne
  <2>2. QED  BY <2>1 DEF Collision
<1>3. QED  BY <1>1, <1>2 DEF Unshared
------------------------------------------------------------------------------
(* Nodes: of a full run, and of an incremental one.                         *)

LEMMA Upserted ==
  ASSUME OwnSymbolsOnly, NEW parsed \in [Files -> Known],
         NEW paths \in SUBSET Files, NEW nodes,
         \A t \in DOMAIN nodes : nodes[t].path \in Files,
         ~ Collision(nodes, parsed, paths)
  PROVE  Merges(UpsertNodes(nodes, parsed, paths), nodes, parsed, paths)
<1> DEFINE new == UpsertNodes(nodes, parsed, paths)
<1>1. new = [s \in DOMAIN nodes \cup SymbolsIn(parsed, paths) |-> new[s]]
  BY DEF UpsertNodes
<1>2. ASSUME NEW p \in paths, NEW s \in SymbolsOf(parsed, p)
      PROVE  new[s] = [path |-> p, defined |-> TRUE]
  <2>1. DefiningPaths(nodes, parsed, paths, s) = {p}
    BY NoCollision
  <2>2. First({p}) = p
    <3>1. {p} \in SUBSET Files /\ {p} # {}
      OBVIOUS
    <3>2. First({p}) \in {p}
      BY <3>1, FirstIsThere
    <3>3. QED  BY <3>2
  <2>3. s \in SymbolsIn(parsed, paths)
    BY DEF SymbolsIn
  <2>4. QED  BY <2>1, <2>2, <2>3 DEF UpsertNodes
<1>3. ASSUME NEW s \in DOMAIN nodes \ SymbolsIn(parsed, paths)
      PROVE  new[s] = nodes[s]
  BY <1>3 DEF UpsertNodes
<1> HIDE DEF new
<1>4. Merges(new, nodes, parsed, paths)
  BY <1>1, <1>2, <1>3 DEF Merges
<1>5. QED  BY <1>4 DEF new

LEMMA NodeHasFile ==
  ASSUME NEW parsed, NEW nodes, NodesAre(nodes, parsed), NEW s \in DOMAIN nodes
  PROVE  \E p \in Files : /\ s \in SymbolsOf(parsed, p)
                          /\ nodes[s].path = p /\ nodes[s].defined = TRUE
<1>1. PICK p \in Files : s \in SymbolsOf(parsed, p)
  BY Zenon DEF NodesAre
<1>2. nodes[s] = [path |-> p, defined |-> TRUE]
  BY <1>1, Zenon DEF NodesAre
<1>3. QED  BY <1>1, <1>2

LEMMA NodeIs ==
  ASSUME NEW parsed, NEW nodes, NodesAre(nodes, parsed),
         NEW p \in Files, NEW s \in SymbolsOf(parsed, p)
  PROVE  s \in DOMAIN nodes /\ nodes[s].path = p
<1>1. s \in DOMAIN nodes
  BY Zenon DEF NodesAre
<1>2. nodes[s] = [path |-> p, defined |-> TRUE]
  BY Zenon DEF NodesAre
<1>3. QED  BY <1>1, <1>2

LEMMA NodeIsDefined ==
  ASSUME NEW parsed, NEW nodes, NodesAre(nodes, parsed),
         NEW p \in Files, NEW s \in SymbolsOf(parsed, p)
  PROVE  nodes[s].defined = TRUE
<1>1. nodes[s] = [path |-> p, defined |-> TRUE]
  BY Zenon DEF NodesAre
<1>2. QED  BY <1>1

LEMMA PathsAre ==
  ASSUME NEW parsed, NEW nodes, NodesAre(nodes, parsed)
  PROVE  \A s \in DOMAIN nodes : nodes[s].path \in Files
  BY NodeHasFile

LEMMA FullNodes ==
  ASSUME OwnSymbolsOnly, NEW parsed \in [Files -> Known], Unshared(parsed)
  PROVE  NodesAre(UpsertNodes(EmptyGraph.nodes, parsed, Files), parsed)
<1> DEFINE new == UpsertNodes(EmptyGraph.nodes, parsed, Files)
<1>1. ~ Collision(EmptyGraph.nodes, parsed, Files)
  BY OnceIsUnshared
<1>2. Merges(new, EmptyGraph.nodes, parsed, Files)
  BY <1>1, EmptyNodes, Upserted
<1> HIDE DEF new
<1>3. new = [s \in SymbolsIn(parsed, Files) |-> new[s]]
  BY <1>2, EmptyNodes DEF Merges
<1>4. DOMAIN new = SymbolsIn(parsed, Files)
  BY <1>3
<1>5. \A s : s \in DOMAIN new <=> \E p \in Files : s \in SymbolsOf(parsed, p)
  BY <1>4 DEF SymbolsIn
<1>6. NodesAre(new, parsed)
  BY <1>2, <1>3, <1>4, <1>5 DEF NodesAre, Merges
<1>7. QED  BY <1>6 DEF new

LEMMA NodesAreDetermined ==
  ASSUME NEW parsed, NEW nodes, NEW others,
         NodesAre(nodes, parsed), NodesAre(others, parsed)
  PROVE  nodes = others
<1>1. \A s : s \in DOMAIN nodes <=> s \in DOMAIN others
  BY Zenon DEF NodesAre
<1>2. DOMAIN nodes = DOMAIN others
  BY <1>1
<1>3. ASSUME NEW s \in DOMAIN nodes
      PROVE  nodes[s] = others[s]
  <2>1. PICK p \in Files : s \in SymbolsOf(parsed, p)
    BY NodeHasFile
  <2>2. QED  BY <2>1, Zenon DEF NodesAre
<1>4. nodes = [s \in DOMAIN nodes |-> nodes[s]] /\ others = [s \in DOMAIN others |-> others[s]]
  BY DEF NodesAre
<1>5. [s \in DOMAIN nodes |-> nodes[s]] = [s \in DOMAIN others |-> others[s]]
  BY <1>2, <1>3
<1>6. QED  BY <1>4, <1>5

(* The files that are not parsed again keep their facts.                    *)
LEMMA DeltaUnshared ==
  ASSUME OwnSymbolsOnly, NEW old \in [Files -> Known], NEW parsed \in [Files -> Known],
         NEW paths \in SUBSET Files, NEW nodes,
         Unshared(old), NodesAre(nodes, old),
         \A p \in Files \ paths : parsed[p] = old[p],
         ~ Collision(nodes, parsed, paths)
  PROVE  Unshared(parsed)
<1>0. \A t \in DOMAIN nodes : nodes[t].path \in Files
  BY PathsAre
<1>1. ASSUME NEW p \in Files \ paths
      PROVE  SymbolsOf(parsed, p) = SymbolsOf(old, p)
  BY DEF SymbolsOf
<1>2. ASSUME NEW p \in paths, NEW q \in Files, NEW s \in SymbolsOf(parsed, p),
             s \in SymbolsOf(parsed, q)
      PROVE  p = q
  <2>1. DefiningPaths(nodes, parsed, paths, s) = {p}
    BY <1>0, NoCollision
  <2>2. CASE q \in paths
    <3>1. DefiningPaths(nodes, parsed, paths, s) = {q}
      BY <1>0, <1>2, <2>2, NoCollision
    <3>2. QED  BY <2>1, <3>1
  <2>3. CASE q \notin paths
    <3>1. s \in SymbolsOf(old, q)
      BY <1>1, <1>2, <2>3
    <3>2. s \in DOMAIN nodes /\ nodes[s].path = q
      BY <3>1, NodeIs
    <3>3. nodes[s].defined = TRUE
      BY <3>1, NodeIsDefined
    <3>4. q \in DefiningPaths(nodes, parsed, paths, s)
      BY <3>2, <3>3 DEF DefiningPaths
    <3>5. QED  BY <2>1, <3>4
  <2>4. QED  BY <2>2, <2>3
<1>3. ASSUME NEW p \in Files \ paths, NEW q \in Files \ paths, NEW s \in SymbolsOf(parsed, p),
             s \in SymbolsOf(parsed, q)
      PROVE  p = q
  BY <1>1, <1>3 DEF Unshared
<1>4. QED  BY <1>2, <1>3 DEF Unshared

LEMMA DeltaNodesAre ==
  ASSUME OwnSymbolsOnly, NEW old \in [Files -> Known], NEW parsed \in [Files -> Known],
         NEW paths \in SUBSET Files, NEW nodes,
         Unshared(old), NodesAre(nodes, old),
         \A p \in Files \ paths : parsed[p] = old[p],
         ~ Collision(nodes, parsed, paths)
  PROVE  NodesAre(PruneNodes(UpsertNodes(nodes, parsed, paths), parsed, paths), parsed)
<1> DEFINE new == UpsertNodes(nodes, parsed, paths)
           left == PruneNodes(new, parsed, paths)
<1>0. \A t \in DOMAIN nodes : nodes[t].path \in Files
  BY PathsAre
<1>1. ASSUME NEW p \in Files \ paths
      PROVE  SymbolsOf(parsed, p) = SymbolsOf(old, p)
  BY DEF SymbolsOf
<1>2. Merges(new, nodes, parsed, paths)
  BY <1>0, Upserted
<1> HIDE DEF new
<1>4. left = [s \in {t \in DOMAIN new : new[t].path \notin paths \/ t \in SymbolsIn(parsed, paths)}
                |-> new[s]]
  BY Zenon DEF PruneNodes
<1> HIDE DEF left
<1>5. DOMAIN new = DOMAIN nodes \cup SymbolsIn(parsed, paths)
  BY <1>2 DEF Merges
<1>6. left = [s \in DOMAIN left |-> left[s]]
  BY <1>4
<1>7. ASSUME NEW p \in paths, NEW s \in SymbolsOf(parsed, p)
      PROVE  s \in DOMAIN left /\ left[s] = [path |-> p, defined |-> TRUE]
  BY <1>2, <1>4, <1>5, <1>7 DEF Merges, SymbolsIn
<1>8. ASSUME NEW p \in Files \ paths, NEW s \in SymbolsOf(parsed, p)
      PROVE  s \in DOMAIN left /\ left[s] = [path |-> p, defined |-> TRUE]
  <2>1. s \in SymbolsOf(old, p)
    BY <1>1, <1>8
  <2>2. s \in DOMAIN nodes /\ nodes[s] = [path |-> p, defined |-> TRUE]
    BY <2>1, Zenon DEF NodesAre
  <2>3. s \notin SymbolsIn(parsed, paths)
    <3>1. Unshared(parsed)
      BY DeltaUnshared
    <3>2. QED  BY <1>8, <3>1 DEF Unshared, SymbolsIn
  <2>4. new[s] = [path |-> p, defined |-> TRUE]
    BY <1>2, <2>2, <2>3 DEF Merges
  <2>5. s \in DOMAIN new /\ new[s].path \notin paths
    BY <1>5, <1>8, <2>2, <2>4
  <2>6. s \in DOMAIN left /\ left[s] = new[s]
    BY <1>4, <2>5
  <2>7. QED  BY <2>4, <2>6
<1>9. ASSUME NEW s \in DOMAIN left
      PROVE  \E p \in Files : s \in SymbolsOf(parsed, p)
  <2>1. CASE s \in SymbolsIn(parsed, paths)
    BY <2>1 DEF SymbolsIn
  <2>2. CASE s \notin SymbolsIn(parsed, paths)
    <3>1. s \in DOMAIN nodes /\ nodes[s].path \notin paths
      BY <1>2, <1>4, <1>5, <1>9, <2>2 DEF Merges
    <3>2. PICK p \in Files : s \in SymbolsOf(old, p) /\ nodes[s].path = p
      BY <3>1, NodeHasFile
    <3>3. s \in SymbolsOf(parsed, p)
      BY <1>1, <3>1, <3>2
    <3>4. QED  BY <3>3
  <2>3. QED  BY <2>1, <2>2
<1>10. \A p \in Files : \A s \in SymbolsOf(parsed, p) :
        s \in DOMAIN left /\ left[s] = [path |-> p, defined |-> TRUE]
  BY <1>7, <1>8
<1>11. NodesAre(left, parsed)
  BY <1>6, <1>9, <1>10 DEF NodesAre
<1>12. QED  BY <1>11 DEF left, new
------------------------------------------------------------------------------
(* Edges.                                                                   *)

LEMMA OwnSymbol ==
  ASSUME NEW parsed, NEW nodes, NodesAre(nodes, parsed), NEW p \in Files, NEW n
  PROVE  Sym(n, p) \in DOMAIN nodes /\ nodes[Sym(n, p)].path = p
           <=> n \in Names /\ Mentions(parsed[p], n)
<1>1. Sym(n, p)[1] = n
  BY DEF Sym
<1>2. ASSUME Sym(n, p) \in DOMAIN nodes, nodes[Sym(n, p)].path = p
      PROVE  n \in Names /\ Mentions(parsed[p], n)
  <2>1. Sym(n, p) \in SymbolsOf(parsed, p)
    BY <1>2, NodeHasFile
  <2>2. QED  BY <1>1, <2>1, SymbolIs
<1>3. ASSUME n \in Names, Mentions(parsed[p], n)
      PROVE  Sym(n, p) \in DOMAIN nodes /\ nodes[Sym(n, p)].path = p
  <2>1. Sym(n, p) \in SymbolsOf(parsed, p)
    BY <1>3 DEF SymbolsOf
  <2>2. QED  BY <2>1, NodeIs
<1>4. QED  BY <1>2, <1>3

LEMMA HoldersAre ==
  ASSUME NEW parsed, NEW nodes, NodesAre(nodes, parsed), NEW paths \in SUBSET Files, NEW n
  PROVE  Holders(nodes, paths, n) = {p \in paths : n \in Names /\ Mentions(parsed[p], n)}
  BY OwnSymbol DEF Holders

LEMMA RefersFromOwn ==
  ASSUME OwnSymbolsOnly, NEW facts \in Known, facts # Broken, NEW ref \in facts.refs
  PROVE  ref[1] \in Names /\ Mentions(facts, ref[1])
<1>1. facts \in ParsedFile
  BY FactsAre
<1>2. facts.defs \subseteq Names
  BY <1>1 DEF ParsedFile
<1>3. PICK c \in Contents : facts = Facts[c]
  BY DEF Known
<1>4. ref[1] \in facts.defs
  BY <1>3 DEF OwnSymbolsOnly
<1>5. QED  BY <1>2, <1>4 DEF Mentions

(* Every edge a file owns leaves from it.                                   *)
LEMMA EdgeLeaves ==
  ASSUME OwnSymbolsOnly, NEW parsed \in [Files -> Known], NEW nodes, NodesAre(nodes, parsed),
         NEW p \in Files, NEW e \in EdgesOf(nodes, parsed, p), NEW paths
  PROVE  LeavesFrom(nodes, e, paths) <=> p \in paths
<1>1. parsed[p] # Broken
  BY DEF EdgesOf
<1>2. CASE e \in Calls(nodes, parsed, p)
  <2>1. PICK call \in parsed[p].calls :
          /\ Holders(nodes, {p}, call[1]) # {}
          /\ \E t \in Resolved(nodes, parsed, p, call[2]) : e = <<"CALLS", Sym(call[1], p), t>>
    BY <1>2 DEF Calls
  <2>2. Sym(call[1], p) \in DOMAIN nodes /\ nodes[Sym(call[1], p)].path = p
    BY <2>1 DEF Holders
  <2>3. QED  BY <2>1, <2>2 DEF LeavesFrom, BetweenSymbols
<1>3. CASE e \in References(nodes, parsed[p], p)
  <2>1. PICK ref \in parsed[p].refs :
          /\ Sym(ref[1], p) \in DOMAIN nodes
          /\ \E t \in Referred(nodes, parsed[p], p, ref[2]) : e = <<"REFERS", Sym(ref[1], p), t>>
    BY <1>3 DEF References
  <2>2. ref[1] \in Names /\ Mentions(parsed[p], ref[1])
    BY <1>1, RefersFromOwn
  <2>3. nodes[Sym(ref[1], p)].path = p
    BY <2>2, OwnSymbol
  <2>4. QED  BY <2>1, <2>3 DEF LeavesFrom, BetweenSymbols
<1>4. CASE \E q : e = <<"IMPORTS", p, q>> \/ e = <<"INCLUDES", p, q>>
  BY <1>4 DEF LeavesFrom, BetweenSymbols
<1>5. QED  BY <1>1, <1>2, <1>3, <1>4 DEF EdgesOf

(* What a name resolves to is there and has that name.                      *)
LEMMA ResolvedIs ==
  ASSUME NEW nodes, NEW parsed, NEW p \in Files, NEW n, NEW t,
         t \in Resolved(nodes, parsed, p, n) \/ t \in Referred(nodes, parsed[p], p, n)
  PROVE  t \in DOMAIN nodes /\ t[1] = n
<1>1. \A m : Sym(n, m)[1] = n
  BY DEF Sym
<1>2. \A s \in Candidates(nodes, parsed[p], p, n) : s \in DOMAIN nodes /\ s[1] = n
  BY <1>1 DEF Candidates
<1>3. \A s \in Named(nodes, n) : s \in DOMAIN nodes /\ s[1] = n
  BY DEF Named
<1>4. \A paths : \A m \in Holders(nodes, paths, n) : m \in paths /\ Sym(n, m) \in DOMAIN nodes
  BY DEF Holders
<1> DEFINE included == Holders(nodes, IncludeClosure(parsed, p), n)
<1>5. included \in SUBSET Files
  BY DEF Holders, IncludeClosure
<1>6. included # {} => Sym(n, First(included)) \in DOMAIN nodes
  <2>1. included # {} => First(included) \in included
    BY <1>5, FirstIsThere
  <2>2. QED  BY <1>4, <2>1
<1>7. Holders(nodes, {p}, n) # {} => Sym(n, p) \in DOMAIN nodes
  BY <1>4
<1>8. CASE t \in Resolved(nodes, parsed, p, n)
  BY <1>1, <1>2, <1>3, <1>6, <1>7, <1>8 DEF Resolved
<1>9. CASE t \in Referred(nodes, parsed[p], p, n)
  BY <1>1, <1>2, <1>3, <1>7, <1>9 DEF Referred
<1>10. QED  BY <1>8, <1>9

(* Files that no change has reached: they are as they were, and so is all   *)
(* they include.                                                            *)
Untouched(old, parsed, still) ==
  /\ still \in SUBSET Files
  /\ \A p \in still : old[p] = parsed[p]
  /\ \A p \in still : old[p] # Broken => old[p].includes \cap Files \subseteq still

SameNames(nodes, others, n) ==
  \A s : s[1] = n => (s \in DOMAIN nodes <=> s \in DOMAIN others)

LEMMA IncludesAgree ==
  ASSUME NEW old, NEW parsed, NEW still, Untouched(old, parsed, still), NEW paths \in SUBSET still
  PROVE  Includes(old, paths) = Includes(parsed, paths) /\ Includes(old, paths) \subseteq still
<1>1. Includes(old, paths) \subseteq still
  BY DEF Includes, Untouched, FileNodes
<1>2. Includes(parsed, paths) \subseteq still
  BY DEF Includes, Untouched, FileNodes
<1>3. \A q \in still : q \in Includes(old, paths) <=> q \in Includes(parsed, paths)
  BY DEF Includes, Untouched, FileNodes
<1>4. QED  BY <1>1, <1>2, <1>3

LEMMA IncludeClosuresWithin ==
  ASSUME NEW old, NEW parsed, NEW still, Untouched(old, parsed, still), NEW p \in still
  PROVE  /\ IncludeClosure(old, p) \subseteq IncludeClosure(parsed, p)
         /\ IncludeClosure(old, p) \subseteq still
<1>1. still \in SUBSET Files /\ {p} \cup still \in SUBSET still
  BY DEF Untouched
<1>2. IncludeClosure(old, p) \subseteq still
  <2>1. Includes(old, {p} \cup still) \subseteq still
    BY <1>1, IncludesAgree
  <2>2. QED  BY <1>1, <2>1 DEF IncludeClosure
<1>3. ASSUME NEW q \in IncludeClosure(old, p), NEW found \in SUBSET Files,
             Includes(parsed, {p} \cup found) \subseteq found
      PROVE  q \in found
  <2> DEFINE near == found \cap still
  <2>1. near \in SUBSET Files /\ {p} \cup near \in SUBSET still
    BY <1>1
  <2>2. Includes(old, {p} \cup near) = Includes(parsed, {p} \cup near)
        /\ Includes(old, {p} \cup near) \subseteq still
    BY <2>1, IncludesAgree
  <2>3. Includes(parsed, {p} \cup near) \subseteq Includes(parsed, {p} \cup found)
    BY DEF Includes
  <2>4. Includes(old, {p} \cup near) \subseteq near
    BY <1>3, <2>2, <2>3
  <2>5. q \in near
    BY <1>3, <2>1, <2>4 DEF IncludeClosure
  <2>6. QED  BY <2>5
<1>4. IncludeClosure(old, p) \subseteq IncludeClosure(parsed, p)
  BY <1>3 DEF IncludeClosure
<1>5. QED  BY <1>2, <1>4

LEMMA IncludeClosuresAgree ==
  ASSUME NEW old, NEW parsed, NEW still, Untouched(old, parsed, still), NEW p \in still
  PROVE  /\ IncludeClosure(old, p) = IncludeClosure(parsed, p)
         /\ IncludeClosure(old, p) \subseteq still
<1>1. Untouched(parsed, old, still)
  BY DEF Untouched
<1>2. QED  BY <1>1, IncludeClosuresWithin

LEMMA ResolvedAgree ==
  ASSUME NEW old, NEW parsed, NEW still, Untouched(old, parsed, still), NEW p \in still,
         NEW nodes, NodesAre(nodes, old), NEW others, NodesAre(others, parsed),
         NEW n, SameNames(nodes, others, n)
  PROVE  /\ Resolved(nodes, old, p, n) = Resolved(others, parsed, p, n)
         /\ Referred(nodes, old[p], p, n) = Referred(others, parsed[p], p, n)
<1>1. \A m : Sym(n, m)[1] = n
  BY DEF Sym
<1>2. old[p] = parsed[p] /\ still \in SUBSET Files
  BY DEF Untouched
<1>3. Candidates(nodes, old[p], p, n) = Candidates(others, parsed[p], p, n)
  BY <1>1, <1>2 DEF Candidates, SameNames
<1>4. Named(nodes, n) = Named(others, n)
  BY DEF Named, SameNames
<1>5. ASSUME NEW paths \in SUBSET still
      PROVE  Holders(nodes, paths, n) = Holders(others, paths, n)
  <2>1. paths \in SUBSET Files
    BY <1>2
  <2>2. \A q \in paths : old[q] = parsed[q]
    BY DEF Untouched
  <2>3. QED  BY <2>1, <2>2, HoldersAre
<1>6. /\ IncludeClosure(old, p) = IncludeClosure(parsed, p)
      /\ IncludeClosure(old, p) \in SUBSET still /\ {p} \in SUBSET still
  BY IncludeClosuresAgree
<1>7. Holders(nodes, {p}, n) = Holders(others, {p}, n)
  BY <1>5, <1>6
<1>8. Holders(nodes, IncludeClosure(old, p), n) = Holders(others, IncludeClosure(parsed, p), n)
  BY <1>5, <1>6
<1>9. Resolved(nodes, old, p, n) = Resolved(others, parsed, p, n)
  BY <1>3, <1>4, <1>7, <1>8 DEF Resolved
<1>10. Referred(nodes, old[p], p, n) = Referred(others, parsed[p], p, n)
  BY <1>3, <1>4, <1>7 DEF Referred
<1>11. QED  BY <1>9, <1>10

(* The names the calls and references of a file speak of.                   *)
Spoken(facts) ==
  {c[2] : c \in facts.calls} \cup {r[1] : r \in facts.refs} \cup {r[2] : r \in facts.refs}

LEMMA EdgesAgree ==
  ASSUME NEW old, NEW parsed, NEW still, Untouched(old, parsed, still), NEW p \in still,
         NEW nodes, NodesAre(nodes, old), NEW others, NodesAre(others, parsed),
         parsed[p] # Broken =>
           /\ \A n \in Spoken(parsed[p]) : SameNames(nodes, others, n)
           /\ \A i \in parsed[p].imports : i[2] \in Files =>
                (old[i[2]] = Broken <=> parsed[i[2]] = Broken)
  PROVE  EdgesOf(nodes, old, p) = EdgesOf(others, parsed, p)
<1>1. old[p] = parsed[p] /\ p \in Files
  BY DEF Untouched
<1>2. CASE parsed[p] = Broken
  BY <1>1, <1>2 DEF EdgesOf
<1>3. CASE parsed[p] # Broken
  <2> DEFINE facts == parsed[p]
             from == {c \in facts.calls : Holders(nodes, {p}, c[1]) # {}}
             into == {c \in facts.calls : Holders(others, {p}, c[1]) # {}}
             leaving == {r \in facts.refs : Sym(r[1], p) \in DOMAIN nodes}
             entering == {r \in facts.refs : Sym(r[1], p) \in DOMAIN others}
  <2>1. from = into
    <3>1. {p} \in SUBSET Files
      BY <1>1
    <3>2. ASSUME NEW c \in facts.calls
          PROVE  Holders(nodes, {p}, c[1]) = Holders(others, {p}, c[1])
      <4>1. Holders(nodes, {p}, c[1]) = {q \in {p} : c[1] \in Names /\ Mentions(old[q], c[1])}
        BY <3>1, HoldersAre
      <4>2. Holders(others, {p}, c[1]) = {q \in {p} : c[1] \in Names /\ Mentions(parsed[q], c[1])}
        BY <3>1, HoldersAre
      <4>3. QED  BY <1>1, <4>1, <4>2
    <3>3. \A c \in facts.calls : Holders(nodes, {p}, c[1]) # {} <=> Holders(others, {p}, c[1]) # {}
      BY <3>2
    <3>4. QED  BY <3>3
  <2>2. \A c \in facts.calls :
          Resolved(nodes, old, p, c[2]) = Resolved(others, parsed, p, c[2])
    <3>1. ASSUME NEW c \in facts.calls
          PROVE  Resolved(nodes, old, p, c[2]) = Resolved(others, parsed, p, c[2])
      <4>1. SameNames(nodes, others, c[2])
        BY <1>3 DEF Spoken
      <4>2. QED  BY <4>1, ResolvedAgree
    <3>2. QED  BY <3>1
  <2>3. Calls(nodes, old, p) = Calls(others, parsed, p)
    <3>1. Calls(nodes, old, p)
            = UNION {{<<"CALLS", Sym(c[1], p), t>> : t \in Resolved(nodes, old, p, c[2])} : c \in from}
      BY <1>1 DEF Calls
    <3>2. Calls(others, parsed, p)
            = UNION {{<<"CALLS", Sym(c[1], p), t>> : t \in Resolved(others, parsed, p, c[2])} : c \in into}
      BY DEF Calls
    <3>3. \A c \in from : Resolved(nodes, old, p, c[2]) = Resolved(others, parsed, p, c[2])
      BY <2>2
    <3> HIDE DEF from, into
    <3>4. QED  BY <2>1, <3>1, <3>2, <3>3
  <2>4. leaving = entering
    <3>1. \A r \in facts.refs : SameNames(nodes, others, r[1])
      BY <1>3 DEF Spoken
    <3>2. \A n : Sym(n, p)[1] = n
      BY DEF Sym
    <3>3. QED  BY <3>1, <3>2 DEF SameNames
  <2>5. \A r \in facts.refs :
          Referred(nodes, facts, p, r[2]) = Referred(others, facts, p, r[2])
    <3>1. ASSUME NEW r \in facts.refs
          PROVE  Referred(nodes, facts, p, r[2]) = Referred(others, facts, p, r[2])
      <4>1. SameNames(nodes, others, r[2])
        BY <1>3 DEF Spoken
      <4>2. QED  BY <1>1, <4>1, ResolvedAgree
    <3>2. QED  BY <3>1
  <2>6. References(nodes, facts, p) = References(others, facts, p)
    BY <2>4, <2>5 DEF References
  <2>7. {i[2] : i \in facts.imports} \cap FileNodes(old)
          = {i[2] : i \in facts.imports} \cap FileNodes(parsed)
    <3>1. \A q : q \in {i[2] : i \in facts.imports} \cap FileNodes(old)
                 <=> q \in {i[2] : i \in facts.imports} \cap FileNodes(parsed)
      BY <1>3 DEF FileNodes
    <3>2. QED  BY <3>1
  <2>8. facts.includes \cap FileNodes(old) = facts.includes \cap FileNodes(parsed)
    <3>1. \A q \in facts.includes \cap Files : old[q] = parsed[q]
      BY <1>1, <1>3 DEF Untouched
    <3>2. QED  BY <3>1 DEF FileNodes
  <2> HIDE DEF facts
  <2>9. QED  BY <1>1, <1>3, <2>3, <2>6, <2>7, <2>8 DEF EdgesOf, facts
<1>4. QED  BY <1>2, <1>3
------------------------------------------------------------------------------
(* What CURRENT stands for, and what an incremental run may rely on.        *)

StandsFor(base) ==
  /\ base \in Reads
  /\ Unshared(Texts(base))
  /\ graph = FullGraph(base)
  /\ \A p \in Files : rows[p].facts = Text(p, base)

(* The seeds of a run over read: a file that is no seed has not changed,    *)
(* and what is not there was never indexed.                                 *)
SeedsOf(seeds, read) ==
  /\ read \in Reads
  /\ seeds \subseteq Present(read)
  /\ \A p \in Files \ seeds : Text(p, read) = rows[p].facts
  /\ \A p \in Files \ Present(read) : rows[p].facts = Broken

Closed(seeds, read) == DependencyClosure(seeds, read) \cap Present(read)

LEMMA TextIs ==
  ASSUME NEW read \in Reads, NEW p \in Files
  PROVE  Text(p, read) \in Known
  BY DEF Text, Reads, Known

LEMMA TextsAre ==
  ASSUME NEW read \in Reads
  PROVE  Texts(read) \in [Files -> Known] /\ \A p \in Files : Texts(read)[p] = Text(p, read)
  BY TextIs DEF Texts

LEMMA FullIs ==
  ASSUME OwnSymbolsOnly, NEW read \in Reads, Unshared(Texts(read))
  PROVE  LET full == FullGraph(read)
         IN  /\ full = [nodes |-> full.nodes, parsed |-> Texts(read), edges |-> full.edges]
             /\ NodesAre(full.nodes, Texts(read))
             /\ full.edges = UNION {EdgesOf(full.nodes, Texts(read), p) : p \in Files}
<1>1. NodesAre(UpsertNodes(EmptyGraph.nodes, Texts(read), Files), Texts(read))
  BY FullNodes, TextsAre
<1>2. QED  BY <1>1 DEF FullGraph

LEMMA BaseIs ==
  ASSUME OwnSymbolsOnly, NEW base, StandsFor(base)
  PROVE  /\ base \in Reads /\ Texts(base) \in [Files -> Known]
         /\ graph.parsed = Texts(base)
         /\ NodesAre(graph.nodes, graph.parsed)
         /\ graph.edges = UNION {EdgesOf(graph.nodes, graph.parsed, p) : p \in Files}
         /\ \A p \in Files : graph.parsed[p] = Text(p, base) /\ rows[p].facts = graph.parsed[p]
  BY FullIs, TextsAre DEF StandsFor

LEMMA SameText ==
  ASSUME OwnSymbolsOnly, NEW base, StandsFor(base), NEW seeds, NEW read, SeedsOf(seeds, read),
         NEW p \in Files \ Closed(seeds, read)
  PROVE  Text(p, read) = graph.parsed[p]
<1>1. p \notin seeds
  BY DEF SeedsOf, Closed, DependencyClosure
<1>2. QED  BY <1>1, BaseIs DEF SeedsOf

LEMMA ChangedIsSemantic ==
  ASSUME OwnSymbolsOnly, NEW base, StandsFor(base), NEW seeds, NEW read, SeedsOf(seeds, read),
         NEW p \in Files, Text(p, read) # graph.parsed[p]
  PROVE  p \in SemanticSeeds(seeds, read)
<1>1. p \in seeds
  BY BaseIs DEF SeedsOf
<1>2. QED  BY <1>1, BaseIs DEF SemanticSeeds

LEMMA KnownIsPresent ==
  ASSUME OwnSymbolsOnly, NEW base, StandsFor(base), NEW seeds, NEW read, SeedsOf(seeds, read),
         NEW p \in Files, graph.parsed[p] # Broken
  PROVE  p \in Present(read)
  BY BaseIs DEF SeedsOf

(* The three ways a file of CURRENT can depend on one that has changed.     *)
LEMMA ImportersAreClosed ==
  ASSUME OwnSymbolsOnly, NEW base, StandsFor(base), NEW seeds, NEW read, SeedsOf(seeds, read),
         NEW p \in Files \ Closed(seeds, read), graph.parsed[p] # Broken,
         NEW i \in graph.parsed[p].imports, i[2] \in Files
  PROVE  graph.parsed[i[2]] = Broken <=> Text(i[2], read) = Broken
<1>1. p \in Present(read)
  BY KnownIsPresent
<1>2. SUFFICES ASSUME ~ (graph.parsed[i[2]] = Broken <=> Text(i[2], read) = Broken)
               PROVE  FALSE
  OBVIOUS
<1>3. i[2] \in SemanticSeeds(seeds, read)
  BY <1>2, ChangedIsSemantic
<1>4. i[2] \in ChangedModules(SemanticSeeds(seeds, read), read)
  BY <1>2, <1>3 DEF ChangedModules
<1>5. p \in DependencyClosure(seeds, read)
  BY <1>4 DEF DependencyClosure, UsersOf, SymbolicUsers, FileNodes
<1>6. QED  BY <1>1, <1>5 DEF Closed

LEMMA IncludersAreClosed ==
  ASSUME OwnSymbolsOnly, NEW base, StandsFor(base), NEW seeds, NEW read, SeedsOf(seeds, read)
  PROVE  LET still == Files \ IncludersOf(SemanticSeeds(seeds, read))
         IN  /\ Untouched(graph.parsed, Texts(read), still)
             /\ \A p \in Files \ Closed(seeds, read) : graph.parsed[p] # Broken => p \in still
<1> DEFINE semantic == SemanticSeeds(seeds, read)
           reached == IncludersOf(semantic)
           still == Files \ reached
<1>1. \A p \in Files : Texts(read)[p] = Text(p, read)
  BY TextsAre DEF SeedsOf
<1>2. semantic \subseteq Files
  BY DEF SemanticSeeds, SeedsOf, Present
<1>3. semantic \subseteq reached
  BY <1>2 DEF IncludersOf
<1>4. \A p \in still : graph.parsed[p] = Texts(read)[p]
  BY <1>1, <1>3, ChangedIsSemantic
<1>5. Includers(reached) \subseteq reached
  <2>1. ASSUME NEW p \in Includers(reached), NEW found \in SUBSET Files,
               semantic \subseteq found, Includers(found) \subseteq found
        PROVE  p \in found
    <3>1. reached \subseteq found
      BY <2>1 DEF IncludersOf
    <3>2. Includers(reached) \subseteq Includers(found)
      BY <3>1 DEF Includers
    <3>3. QED  BY <2>1, <3>2
  <2>2. QED  BY <2>1 DEF IncludersOf, Includers
<1>6. \A p \in still : graph.parsed[p] # Broken => graph.parsed[p].includes \cap Files \subseteq still
  BY <1>5 DEF Includers
<1>7. Untouched(graph.parsed, Texts(read), still)
  BY <1>4, <1>6 DEF Untouched
<1>8. ASSUME NEW p \in Files \ Closed(seeds, read), graph.parsed[p] # Broken
      PROVE  p \in still
  <2>1. p \in Present(read)
    BY <1>8, KnownIsPresent
  <2>2. p \notin DependencyClosure(seeds, read)
    BY <2>1 DEF Closed
  <2>3. QED  BY <2>2 DEF DependencyClosure
<1>9. QED  BY <1>7, <1>8

LEMMA UsersAreClosed ==
  ASSUME OwnSymbolsOnly, NEW base, StandsFor(base), NEW seeds, NEW read, SeedsOf(seeds, read),
         NEW p \in Files \ Closed(seeds, read), graph.parsed[p] # Broken,
         NEW s, s[1] \in Spoken(graph.parsed[p])
  PROVE  s \in DOMAIN graph.nodes <=> \E q \in Files : s \in SymbolsOf(Texts(read), q)
<1> DEFINE semantic == SemanticSeeds(seeds, read)
<1>1. p \in Present(read)
  BY KnownIsPresent
<1>2. s[1] \notin ChangedNames(semantic, read)
  BY <1>1 DEF Closed, DependencyClosure, UsersOf, SymbolicUsers, FileNodes, Spoken
<1>3. \A q \in Files : Texts(read)[q] = Text(q, read)
  BY TextsAre DEF SeedsOf
<1>4. ASSUME NEW d \in (OldDefs(semantic) \ NewDefs(semantic, read))
                         \cup (NewDefs(semantic, read) \ OldDefs(semantic))
      PROVE  d[1] # s
  BY <1>2, <1>4 DEF ChangedNames
<1>5. semantic \subseteq Files
  BY DEF SemanticSeeds, SeedsOf, Present
<1> HIDE DEF semantic
<1>6. ASSUME s \in DOMAIN graph.nodes, \A q \in Files : s \notin SymbolsOf(Texts(read), q)
      PROVE  FALSE
  <2>1. PICK q \in Files : /\ s \in SymbolsOf(graph.parsed, q)
                           /\ graph.nodes[s].path = q /\ graph.nodes[s].defined = TRUE
    BY <1>6, BaseIs, NodeHasFile
  <2>2. graph.parsed[q] # Text(q, read)
    BY <1>3, <1>6, <2>1, SymbolIs
  <2>3. q \in semantic
    BY <2>2, ChangedIsSemantic DEF semantic
  <2>4. <<s, graph.nodes[s].defined>> \in OldDefs(semantic)
    BY <1>6, <2>1, <2>3 DEF OldDefs
  <2>5. <<s, graph.nodes[s].defined>> \notin NewDefs(semantic, read)
    <3>1. SUFFICES ASSUME <<s, graph.nodes[s].defined>> \in NewDefs(semantic, read)
                   PROVE  FALSE
      OBVIOUS
    <3>2. PICK r \in semantic : \E n \in Names : Mentions(Text(r, read), n) /\ s = Sym(n, r)
      BY <3>1 DEF NewDefs
    <3>3. s \in SymbolsOf(Texts(read), r)
      BY <1>3, <1>5, <3>2 DEF SymbolsOf
    <3>4. QED  BY <1>5, <1>6, <3>3
  <2>6. QED  BY <1>4, <2>4, <2>5
<1>7. ASSUME NEW q \in Files, s \in SymbolsOf(Texts(read), q), s \notin DOMAIN graph.nodes
      PROVE  FALSE
  <2>1. /\ s[1] \in Names /\ s = Sym(s[1], q) /\ Mentions(Text(q, read), s[1])
    BY <1>3, <1>7, SymbolIs
  <2>2. s \notin SymbolsOf(graph.parsed, q)
    BY <1>7, BaseIs, NodeIs
  <2>3. graph.parsed[q] # Text(q, read)
    BY <2>1, <2>2, SymbolIs
  <2>4. q \in semantic
    BY <2>3, ChangedIsSemantic DEF semantic
  <2>5. <<s, Defines(Text(q, read), s[1])>> \in NewDefs(semantic, read)
    BY <2>1, <2>4 DEF NewDefs
  <2>6. <<s, Defines(Text(q, read), s[1])>> \notin OldDefs(semantic)
    BY <1>7 DEF OldDefs
  <2>7. QED  BY <1>4, <2>5, <2>6
<1>8. QED  BY <1>6, <1>7
------------------------------------------------------------------------------
(* One incremental run.                                                     *)

LEMMA ParsedAgainIs ==
  ASSUME OwnSymbolsOnly, NEW base, StandsFor(base), NEW seeds, NEW read, SeedsOf(seeds, read)
  PROVE  /\ Closed(seeds, read) \in SUBSET Files
         /\ ParsedAgain(graph, read, Closed(seeds, read)) = Texts(read)
<1>1. Closed(seeds, read) \in SUBSET Files
  BY DEF Closed, Present
<1>2. \A p \in Files : (IF p \in Closed(seeds, read) THEN Text(p, read) ELSE graph.parsed[p])
                          = Text(p, read)
  BY SameText
<1>3. QED  BY <1>1, <1>2 DEF ParsedAgain, Texts

(* What the files outside the closure own stays, and stays right.           *)
LEMMA KeptEdgesAre ==
  ASSUME OwnSymbolsOnly, NEW base, StandsFor(base), NEW paths
  PROVE  KeptEdges(graph, paths)
           = UNION {EdgesOf(graph.nodes, graph.parsed, p) : p \in Files \ paths}
<1>1. graph.edges = UNION {EdgesOf(graph.nodes, graph.parsed, p) : p \in Files}
  BY BaseIs
<1>2. \A p \in Files : \A e \in EdgesOf(graph.nodes, graph.parsed, p) :
        LeavesFrom(graph.nodes, e, paths) <=> p \in paths
  BY BaseIs, EdgeLeaves
<1>3. \A e : e \in KeptEdges(graph, paths) <=>
               \E p \in Files \ paths : e \in EdgesOf(graph.nodes, graph.parsed, p)
  BY <1>1, <1>2 DEF KeptEdges
<1>4. QED  BY <1>3

LEMMA DeltaIsFull ==
  ASSUME OwnSymbolsOnly, NEW base, StandsFor(base), NEW seeds, NEW read, SeedsOf(seeds, read),
         ~ Collision(graph.nodes, Texts(read), Closed(seeds, read))
  PROVE  /\ Unshared(Texts(read))
         /\ DeltaGraph(graph, read, Closed(seeds, read)) = FullGraph(read)
<1> DEFINE paths == Closed(seeds, read)
           new == DeltaNodes(graph, Texts(read), paths)
           full == FullGraph(read)
<1>1. /\ paths \in SUBSET Files /\ ParsedAgain(graph, read, paths) = Texts(read)
      /\ graph.parsed \in [Files -> Known] /\ Texts(read) \in [Files -> Known]
      /\ Unshared(graph.parsed) /\ NodesAre(graph.nodes, graph.parsed)
  BY BaseIs, TextsAre, ParsedAgainIs DEF StandsFor, SeedsOf
<1>2. \A p \in Files \ paths : Texts(read)[p] = graph.parsed[p]
  BY SameText, TextsAre DEF SeedsOf
<1> HIDE DEF paths
<1>3. ~ Collision(graph.nodes, Texts(read), paths)
  BY DEF paths
<1>4. Unshared(Texts(read))
  BY <1>1, <1>2, <1>3, DeltaUnshared
<1>5. NodesAre(new, Texts(read))
  BY <1>1, <1>2, <1>3, DeltaNodesAre DEF DeltaNodes
<1>6. /\ full = [nodes |-> full.nodes, parsed |-> Texts(read), edges |-> full.edges]
      /\ NodesAre(full.nodes, Texts(read))
      /\ full.edges = UNION {EdgesOf(full.nodes, Texts(read), p) : p \in Files}
  BY <1>4, FullIs DEF SeedsOf
<1> HIDE DEF full
<1>7. new = full.nodes
  BY <1>5, <1>6, NodesAreDetermined
<1>8. DeltaGraph(graph, read, paths)
        = [nodes |-> new, parsed |-> Texts(read),
           edges |-> KeptEdges(graph, paths) \cup UNION {EdgesOf(new, Texts(read), p) : p \in paths}]
  BY <1>1 DEF DeltaGraph
<1> HIDE DEF new
<1>9. ASSUME NEW p \in Files \ paths
      PROVE  EdgesOf(graph.nodes, graph.parsed, p) = EdgesOf(new, Texts(read), p)
  <2>1. graph.parsed[p] = Texts(read)[p]
    BY <1>2
  <2>2. CASE graph.parsed[p] = Broken
    BY <2>1, <2>2 DEF EdgesOf
  <2>3. CASE graph.parsed[p] # Broken
    <3>1. PICK still : Untouched(graph.parsed, Texts(read), still) /\ p \in still
      BY <2>3, IncludersAreClosed DEF paths
    <3>2. ASSUME NEW n \in Spoken(graph.parsed[p])
          PROVE  SameNames(graph.nodes, new, n)
      <4>1. ASSUME NEW s, s[1] = n
            PROVE  s \in DOMAIN graph.nodes <=> s \in DOMAIN new
        <5>1. s \in DOMAIN new <=> \E q \in Files : s \in SymbolsOf(Texts(read), q)
          BY <1>5, Zenon DEF NodesAre
        <5>2. s[1] \in Spoken(graph.parsed[p])
          BY <4>1
        <5>3. QED  BY <2>3, <5>1, <5>2, UsersAreClosed DEF paths
      <4>2. QED  BY <4>1 DEF SameNames
    <3>3. ASSUME NEW i \in graph.parsed[p].imports, i[2] \in Files
          PROVE  graph.parsed[i[2]] = Broken <=> Texts(read)[i[2]] = Broken
      BY <2>3, <3>3, ImportersAreClosed, TextsAre DEF paths, SeedsOf
    <3>4. QED  BY <1>1, <1>5, <2>1, <3>1, <3>2, <3>3, EdgesAgree
  <2>4. QED  BY <2>2, <2>3
<1>10. KeptEdges(graph, paths) = UNION {EdgesOf(new, Texts(read), p) : p \in Files \ paths}
  <2>1. KeptEdges(graph, paths)
          = UNION {EdgesOf(graph.nodes, graph.parsed, p) : p \in Files \ paths}
    BY KeptEdgesAre
  <2>2. QED  BY <1>9, <2>1
<1>11. KeptEdges(graph, paths) \cup UNION {EdgesOf(new, Texts(read), p) : p \in paths}
         = UNION {EdgesOf(new, Texts(read), p) : p \in Files}
  BY <1>1, <1>10
<1>12. DeltaGraph(graph, read, paths) = full
  BY <1>6, <1>7, <1>8, <1>11
<1>13. QED  BY <1>4, <1>12 DEF paths, full

(* A node that goes leaves no edge behind.                                  *)
LEMMA NothingDangles ==
  ASSUME OwnSymbolsOnly, NEW base, StandsFor(base), NEW seeds, NEW read, SeedsOf(seeds, read),
         \A p \in Files : graph.parsed[p] # Broken => Text(p, read) # Broken
  PROVE  DeletesCleanly(graph, read, Closed(seeds, read))
<1> DEFINE paths == Closed(seeds, read)
           merged == UpsertNodes(graph.nodes, Texts(read), paths)
           new == DeltaNodes(graph, Texts(read), paths)
<1>1. /\ paths \in SUBSET Files /\ ParsedAgain(graph, read, paths) = Texts(read)
      /\ NodesAre(graph.nodes, graph.parsed) /\ graph.parsed \in [Files -> Known]
  BY BaseIs, ParsedAgainIs
<1>2. \A p \in Files : Texts(read)[p] = Text(p, read)
  BY TextsAre DEF SeedsOf
<1>3. FileNodes(graph.parsed) \subseteq FileNodes(Texts(read))
  BY <1>2 DEF FileNodes
<1>4. ASSUME NEW s \in DOMAIN graph.nodes,
             graph.nodes[s].path \notin paths \/ s \in SymbolsIn(Texts(read), paths)
      PROVE  s \in DOMAIN new
  <2>1. DOMAIN merged = DOMAIN graph.nodes \cup SymbolsIn(Texts(read), paths)
    BY DEF UpsertNodes
  <2>2. s \notin SymbolsIn(Texts(read), paths) => merged[s] = graph.nodes[s]
    BY DEF UpsertNodes
  <2>3. DOMAIN new = {t \in DOMAIN merged :
                        merged[t].path \notin paths \/ t \in SymbolsIn(Texts(read), paths)}
    BY DEF DeltaNodes, PruneNodes
  <2> HIDE DEF merged, new, paths
  <2>4. QED  BY <1>4, <2>1, <2>2, <2>3
<1> HIDE DEF new, merged, paths
<1>5. ASSUME NEW p \in Files \ paths, NEW e \in EdgesOf(graph.nodes, graph.parsed, p),
             BetweenSymbols(e)
      PROVE  {e[2], e[3]} \subseteq DOMAIN new
  <2>1. graph.parsed[p] # Broken
    BY <1>5 DEF EdgesOf
  <2>2. e \in Calls(graph.nodes, graph.parsed, p)
          \/ e \in References(graph.nodes, graph.parsed[p], p)
    BY <1>5, <2>1 DEF EdgesOf, BetweenSymbols
  <2>3. PICK m, n, t : /\ Sym(m, p) \in DOMAIN graph.nodes
                       /\ m \in Names /\ Mentions(graph.parsed[p], m)
                       /\ n \in Spoken(graph.parsed[p])
                       /\ \/ t \in Resolved(graph.nodes, graph.parsed, p, n)
                          \/ t \in Referred(graph.nodes, graph.parsed[p], p, n)
                       /\ e[2] = Sym(m, p) /\ e[3] = t
    <3>1. CASE e \in Calls(graph.nodes, graph.parsed, p)
      <4>1. PICK call \in graph.parsed[p].calls :
              /\ Holders(graph.nodes, {p}, call[1]) # {}
              /\ \E u \in Resolved(graph.nodes, graph.parsed, p, call[2]) :
                   e = <<"CALLS", Sym(call[1], p), u>>
        BY <3>1 DEF Calls
      <4>2. Sym(call[1], p) \in DOMAIN graph.nodes /\ graph.nodes[Sym(call[1], p)].path = p
        BY <4>1 DEF Holders
      <4>3. call[1] \in Names /\ Mentions(graph.parsed[p], call[1])
        BY <1>1, <4>2, OwnSymbol
      <4>4. call[2] \in Spoken(graph.parsed[p])
        BY DEF Spoken
      <4>5. QED  BY <4>1, <4>2, <4>3, <4>4
    <3>2. CASE e \in References(graph.nodes, graph.parsed[p], p)
      <4>1. PICK ref \in graph.parsed[p].refs :
              /\ Sym(ref[1], p) \in DOMAIN graph.nodes
              /\ \E u \in Referred(graph.nodes, graph.parsed[p], p, ref[2]) :
                   e = <<"REFERS", Sym(ref[1], p), u>>
        BY <3>2 DEF References
      <4>2. ref[1] \in Names /\ Mentions(graph.parsed[p], ref[1])
        BY <1>1, <2>1, RefersFromOwn
      <4>3. ref[2] \in Spoken(graph.parsed[p])
        BY DEF Spoken
      <4>4. QED  BY <4>1, <4>2, <4>3
    <3>3. QED  BY <2>2, <3>1, <3>2
  <2>4. graph.nodes[e[2]].path \notin paths
    BY <1>1, <2>3, OwnSymbol
  <2>5. e[2] \in DOMAIN new
    BY <1>4, <2>3, <2>4
  <2>6. t \in DOMAIN graph.nodes /\ t[1] = n
    BY <2>3, ResolvedIs
  <2>7. PICK q \in Files : t \in SymbolsOf(Texts(read), q)
    BY <2>1, <2>3, <2>6, UsersAreClosed DEF paths
  <2>8. t \in DOMAIN new
    <3>1. CASE q \in paths
      BY <1>4, <2>6, <2>7, <3>1 DEF SymbolsIn
    <3>2. CASE q \notin paths
      <4>1. t \in SymbolsOf(graph.parsed, q)
        BY <1>2, <2>7, <3>2, SameText, SymbolIs DEF paths
      <4>2. graph.nodes[t].path = q
        BY <1>1, <4>1, NodeIs
      <4>3. QED  BY <1>4, <2>6, <3>2, <4>2
    <3>3. QED  BY <3>1, <3>2
  <2>9. QED  BY <2>3, <2>5, <2>8
<1>6. \A e \in KeptEdges(graph, paths) :
        \E p \in Files \ paths : e \in EdgesOf(graph.nodes, graph.parsed, p)
  BY KeptEdgesAre
<1>7. DeletesCleanly(graph, read, paths)
  BY <1>1, <1>3, <1>5, <1>6 DEF DeletesCleanly, new
<1>8. QED  BY <1>7 DEF paths
------------------------------------------------------------------------------
(* The invariant.                                                           *)

RowIs(row) ==
  /\ row.hash \in Digest /\ row.tool \in 0..MaxUpgrades
  /\ row.hash # Unread => Facts[row.hash] # Broken /\ row.facts = Facts[row.hash]
  /\ row.hash = Unread => row.facts = Broken

RunIs ==
  run # Idle =>
    /\ run = [phase |-> "scanned", read |-> run.read, force |-> run.force]
    /\ run.read \in Reads

IssuerIs ==
  issuer # Idle =>
    /\ DOMAIN issuer = {"phase", "base", "unit", "read", "graph", "receipts"}
    /\ issuer.phase \in {"analysing", "checked"}
    /\ issuer.base \in Revision /\ issuer.base.number <= current.number
    /\ issuer.base.number # 0
    /\ GraphOK(issuer.graph) /\ issuer.receipts \in [Files -> Digest]

TypesHold ==
  /\ source \in Reads /\ tool \in 0..MaxUpgrades
  /\ \A p \in Files : RowIs(rows[p])
  /\ current \in Revision /\ current.parent <= current.number
  /\ GraphOK(graph)
  /\ receipts \in [Files -> Digest]
  /\ RunIs /\ IssuerIs

(* The source of a receipt yields the facts, in CURRENT and in the copy an  *)
(* issuer will publish.                                                     *)
Supported(g, digests) ==
  \A p \in Files : g.parsed[p] # Broken =>
    digests[p] \in Contents /\ Facts[digests[p]] = g.parsed[p]

SupportHolds ==
  /\ Supported(graph, receipts)
  /\ issuer # Idle => Supported(issuer.graph, issuer.receipts)

(* A number names one graph, also in the hands of the issuer.               *)
CopyHolds ==
  issuer # Idle /\ issuer.base.number = current.number => issuer.graph = graph

(* Once the issuer has checked CURRENT under the lock, nothing is indexed.  *)
LockHolds ==
  Postgres /\ issuer.phase = "checked" =>
    run = Idle /\ issuer.base.number = current.number

GraphIsFull ==
  Postgres /\ OwnSymbolsOnly /\ current.number # 0 /\ ~shrunk => StandsFor(scanned)

IndexInv == TypesHold /\ SupportHolds /\ CopyHolds /\ LockHolds /\ GraphIsFull
------------------------------------------------------------------------------
(* The graphs that are built have their types.                              *)

LEMMA SymbolsAre ==
  ASSUME NEW parsed, NEW p \in Files
  PROVE  SymbolsOf(parsed, p) \subseteq Symbol
  BY DEF SymbolsOf, Sym, Symbol

LEMMA UpsertKeepsTypes ==
  ASSUME NEW parsed, NEW paths \in SUBSET Files, NEW nodes,
         \A s \in DOMAIN nodes : s \in Symbol /\ nodes[s].path \in Files
  PROVE  LET new == UpsertNodes(nodes, parsed, paths)
         IN  \A s \in DOMAIN new : s \in Symbol /\ new[s].path \in Files
<1> DEFINE new == UpsertNodes(nodes, parsed, paths)
<1>1. DOMAIN new = DOMAIN nodes \cup SymbolsIn(parsed, paths)
  BY DEF UpsertNodes
<1>2. SymbolsIn(parsed, paths) \subseteq Symbol
  BY SymbolsAre DEF SymbolsIn
<1>3. ASSUME NEW s \in SymbolsIn(parsed, paths)
      PROVE  new[s].path \in Files
  <2> DEFINE definers == DefiningPaths(nodes, parsed, paths, s)
             mentioners == Mentioners(parsed, paths, s)
  <2>1. definers \in SUBSET Files
    BY DEF DefiningPaths, Definers, Mentioners
  <2>2. mentioners \in SUBSET Files /\ mentioners # {}
    BY DEF Mentioners, SymbolsIn
  <2>3. new[s].path = IF definers # {} THEN First(definers)
                      ELSE IF s \in DOMAIN nodes THEN nodes[s].path ELSE First(mentioners)
    BY <1>3 DEF UpsertNodes
  <2> HIDE DEF new, definers, mentioners
  <2>4. QED  BY <2>1, <2>2, <2>3, FirstIsThere
<1>4. ASSUME NEW s \in DOMAIN nodes, s \notin SymbolsIn(parsed, paths)
      PROVE  new[s].path \in Files
  BY <1>4 DEF UpsertNodes
<1> HIDE DEF new
<1>5. \A s \in DOMAIN new : s \in Symbol /\ new[s].path \in Files
  BY <1>1, <1>2, <1>3, <1>4
<1>6. QED  BY <1>5 DEF new

LEMMA TextIsFacts ==
  ASSUME NEW read \in Reads, NEW p \in Files
  PROVE  Text(p, read) = Broken \/ Text(p, read) \in {Facts[c] : c \in Contents}
  BY DEF Text, Reads

LEMMA FullGraphOK ==
  ASSUME NEW read \in Reads
  PROVE  GraphOK(FullGraph(read))
<1> DEFINE new == UpsertNodes(EmptyGraph.nodes, Texts(read), Files)
<1>1. \A s \in DOMAIN new : s \in Symbol /\ new[s].path \in Files
  BY EmptyNodes, UpsertKeepsTypes
<1> HIDE DEF new
<1>2. FullGraph(read).nodes = new /\ FullGraph(read).parsed = Texts(read)
  BY DEF FullGraph, new
<1>3. QED  BY <1>1, <1>2, TextIsFacts DEF GraphOK, Texts

LEMMA DeltaGraphOK ==
  ASSUME NEW old, GraphOK(old), NEW read \in Reads, NEW paths \in SUBSET Files
  PROVE  GraphOK(DeltaGraph(old, read, paths))
<1> DEFINE parsed == ParsedAgain(old, read, paths)
           merged == UpsertNodes(old.nodes, parsed, paths)
           new == PruneNodes(merged, parsed, paths)
<1>1. \A s \in DOMAIN merged : s \in Symbol /\ merged[s].path \in Files
  BY UpsertKeepsTypes DEF GraphOK
<1> HIDE DEF merged
<1>2. \A s \in DOMAIN new : s \in Symbol /\ new[s].path \in Files
  BY <1>1 DEF PruneNodes
<1> HIDE DEF new
<1>3. \A p \in Files : parsed[p] = Broken \/ parsed[p] \in {Facts[c] : c \in Contents}
  BY TextIsFacts DEF ParsedAgain, GraphOK
<1> HIDE DEF parsed
<1>4. DeltaGraph(old, read, paths).nodes = new /\ DeltaGraph(old, read, paths).parsed = parsed
  BY DEF DeltaGraph, DeltaNodes, new, merged, parsed
<1>5. QED  BY <1>2, <1>3, <1>4 DEF GraphOK
------------------------------------------------------------------------------
(* The steps.                                                               *)

LEMMA UnreadIsNoContent == Unread \notin Contents /\ Absent \notin Contents
  BY IndexAssumption

LEMMA NoRowIs == RowIs(NoRow) /\ NoRow.facts = Broken
  BY IndexAssumption DEF NoRow, RowIs, Digest

LEMMA RunIsScanned ==
  ASSUME IndexInv, run.phase = "scanned"
  PROVE  /\ run.read \in Reads /\ run # Idle
         /\ tool \in 0..MaxUpgrades /\ current.number \in 0..MaxRevisions
         /\ issuer.phase = "checked" => ~ Postgres
  BY DEF IndexInv, TypesHold, RunIs, LockHolds, Idle, Revision

LEMMA RowForIs ==
  ASSUME NEW read \in Reads, NEW p \in Present(read), NEW identity \in 0..MaxUpgrades
  PROVE  /\ RowIs(RowFor(p, read, identity))
         /\ RowFor(p, read, identity).facts = Text(p, read)
         /\ Text(p, read) # Broken =>
              /\ RowFor(p, read, identity).hash \in Contents
              /\ Facts[RowFor(p, read, identity).hash] = Text(p, read)
<1>1. read[p] \in Contents /\ Text(p, read) = Facts[read[p]]
  BY DEF Present, Reads, Text
<1>2. CASE Facts[read[p]] = Broken
  <2>1. RowFor(p, read, identity) = [hash |-> Unread, facts |-> Broken, tool |-> identity]
    BY <1>2 DEF RowFor, NoRow
  <2>2. QED  BY <1>1, <1>2, <2>1 DEF RowIs, Digest
<1>3. CASE Facts[read[p]] # Broken
  <2>1. RowFor(p, read, identity) = [hash |-> read[p], facts |-> Facts[read[p]], tool |-> identity]
    BY <1>3 DEF RowFor
  <2>2. QED  BY <1>1, <1>3, <2>1, UnreadIsNoContent DEF RowIs, Digest
<1>4. QED  BY <1>2, <1>3

LEMMA WrittenRows ==
  ASSUME IndexInv, run.phase = "scanned", NEW paths, paths \subseteq Present(run.read),
         WriteRows(paths)
  PROVE  /\ \A p \in Files : RowIs(rows[p])'
         /\ \A p \in paths : /\ rows'[p].facts = Text(p, run.read)
                             /\ Text(p, run.read) # Broken =>
                                  /\ rows'[p].hash \in Contents
                                  /\ Facts[rows'[p].hash] = Text(p, run.read)
         /\ \A p \in Files \ paths : rows'[p] = rows[p]
<1>1. run.read \in Reads /\ tool \in 0..MaxUpgrades
  BY RunIsScanned
<1>2. paths \subseteq Files
  BY DEF Present
<1>3. ASSUME NEW p \in paths
      PROVE  rows'[p] = RowFor(p, run.read, tool)
  BY <1>2 DEF WriteRows
<1>4. ASSUME NEW p \in Files \ paths
      PROVE  rows'[p] = rows[p]
  BY DEF WriteRows
<1>5. ASSUME NEW p \in Files
      PROVE  RowIs(rows'[p])
  <2>1. CASE p \in paths
    BY <1>1, <1>3, <2>1, RowForIs
  <2>2. CASE p \notin paths
    BY <1>4, <2>2 DEF IndexInv, TypesHold
  <2>3. QED  BY <2>1, <2>2
<1>6. \A p \in Files : RowIs(rows[p])'
  BY <1>5 DEF RowIs
<1>7. QED  BY <1>1, <1>3, <1>4, <1>6, RowForIs

(* A run that commits without a shrunk source: what it did not read was     *)
(* never indexed.                                                           *)
LEMMA NothingShrank ==
  ASSUME IndexInv, Committed, ~ shrunk'
  PROVE  /\ ~ shrunk
         /\ \A p \in Files \ Present(run.read) : /\ rows[p] = NoRow /\ rows[p].facts = Broken
                                                 /\ Text(p, run.read) = Broken
  BY NoRowIs DEF Committed, Present, Text

LEMMA UnchangedText ==
  ASSUME IndexInv, run.phase = "scanned", NEW p \in Present(run.read) \ Changed(run.read)
  PROVE  Text(p, run.read) = rows[p].facts
<1>1. run.read \in Reads
  BY RunIsScanned
<1>2. rows[p].hash = run.read[p] /\ run.read[p] \in Contents /\ p \in Files
  BY <1>1 DEF Changed, Present, Reads
<1>3. RowIs(rows[p])
  BY <1>2 DEF IndexInv, TypesHold
<1>4. QED  BY <1>2, <1>3, UnreadIsNoContent DEF RowIs, Text

Seeds == IF IdentityChanged THEN Present(run.read) ELSE Changed(run.read)

LEMMA SeedsAre ==
  ASSUME IndexInv, run.phase = "scanned",
         \A p \in Files \ Present(run.read) : rows[p].facts = Broken /\ Text(p, run.read) = Broken
  PROVE  SeedsOf(Seeds, run.read) /\ Invalidated = Closed(Seeds, run.read)
<1>1. Seeds \subseteq Present(run.read)
  BY DEF Seeds, Changed
<1>2. ASSUME NEW p \in Files \ Seeds
      PROVE  Text(p, run.read) = rows[p].facts
  <2>1. CASE p \notin Present(run.read)
    BY <2>1
  <2>2. CASE p \in Present(run.read)
    BY <2>2, UnchangedText DEF Seeds
  <2>3. QED  BY <2>1, <2>2
<1>3. run.read \in Reads
  BY RunIsScanned
<1>4. SeedsOf(Seeds, run.read)
  BY <1>1, <1>2, <1>3 DEF SeedsOf
<1>5. QED  BY <1>4 DEF Invalidated, Closed, Seeds

(* A run that ends without a new graph: the text of every file is as before.*)
LEMMA SameTextsStand ==
  ASSUME NEW base, StandsFor(base), NEW read \in Reads,
         \A p \in Files : Text(p, read) = rows[p].facts
  PROVE  Texts(read) = Texts(base)
  BY DEF StandsFor, Texts

LEMMA Commits ==
  ASSUME IndexInv, run.phase = "scanned", Committed,
         \A p \in Files : RowIs(rows[p])',
         current' \in Revision, current'.parent <= current'.number,
         \/ current'.number > current.number
         \/ current'.number = current.number /\ graph' = graph,
         GraphOK(graph'), receipts' \in [Files -> Digest],
         Supported(graph', receipts'), GraphIsFull'
  PROVE  IndexInv'
<1>1. run' = Idle /\ source' = source /\ tool' = tool /\ issuer' = issuer
  BY DEF Committed
<1>2. current.number \in Nat /\ current'.number \in Nat
  BY IndexAssumption DEF IndexInv, TypesHold, Revision
<1>3. issuer # Idle => issuer.base.number \in Nat /\ issuer.base.number <= current.number
  BY IndexAssumption DEF IndexInv, TypesHold, IssuerIs, Revision
<1>4. IssuerIs'
  BY <1>1, <1>2, <1>3 DEF IndexInv, TypesHold, IssuerIs
<1>5. TypesHold'
  BY <1>1, <1>4 DEF IndexInv, TypesHold, RunIs
<1>6. SupportHolds'
  BY <1>1 DEF IndexInv, SupportHolds
<1>7. CopyHolds'
  BY <1>1, <1>2, <1>3 DEF IndexInv, CopyHolds
<1>8. LockHolds'
  BY <1>1, RunIsScanned DEF LockHolds
<1>9. QED  BY <1>5, <1>6, <1>7, <1>8 DEF IndexInv

(* The graph and the receipts are copied.                                   *)
LEMMA CopyCommits ==
  ASSUME IndexInv, run.phase = "scanned", Incremental, Committed,
         UNCHANGED <<graph, receipts>>, current' = current \/ Publish(current.number),
         current' # current => current.number < MaxRevisions,
         \A p \in Files : RowIs(rows[p])',
         \A p \in Files : rows'[p].facts = rows[p].facts,
         \A p \in Present(run.read) : Text(p, run.read) = rows[p].facts
  PROVE  IndexInv'
<1>1. run.read \in Reads /\ tool \in 0..MaxUpgrades
  BY RunIsScanned
<1>2. current \in Revision /\ current.number \in Nat /\ MaxRevisions \in Nat
  BY IndexAssumption DEF IndexInv, TypesHold, Revision
<1>3. /\ current' \in Revision /\ current'.parent <= current'.number
      /\ \/ current'.number > current.number
         \/ current'.number = current.number /\ graph' = graph
  <2>1. CASE current' = current
    BY <2>1 DEF IndexInv, TypesHold
  <2>2. CASE Publish(current.number) /\ current' # current
    BY <1>1, <1>2, <2>2 DEF Publish, Revision
  <2>3. QED  BY <2>1, <2>2
<1>4. ASSUME Postgres, OwnSymbolsOnly, ~ shrunk'
      PROVE  StandsFor(scanned)'
  <2>1. StandsFor(scanned)
    BY <1>4, NothingShrank DEF IndexInv, GraphIsFull, Incremental
  <2>2. \A p \in Files : Text(p, run.read) = rows[p].facts
    BY <1>4, NothingShrank
  <2>3. Texts(run.read) = Texts(scanned)
    BY <1>1, <2>1, <2>2, SameTextsStand
  <2>4. scanned' = run.read
    BY DEF Committed
  <2>5. Unshared(Texts(scanned')) /\ graph' = FullGraph(scanned')
    BY <2>1, <2>3, <2>4 DEF StandsFor, FullGraph
  <2>6. \A p \in Files : rows'[p].facts = Text(p, scanned')
    BY <2>2, <2>4
  <2>7. QED  BY <1>1, <2>4, <2>5, <2>6 DEF StandsFor
<1>5. GraphIsFull'
  BY <1>4 DEF GraphIsFull
<1>6. GraphOK(graph') /\ receipts' \in [Files -> Digest] /\ Supported(graph', receipts')
  BY DEF IndexInv, TypesHold, SupportHolds
<1>7. QED  BY <1>3, <1>5, <1>6, Commits

LEMMA NoFileChangedKeeps ==
  ASSUME IndexInv, NoFileChanged
  PROVE  IndexInv'
<1>1. run.phase = "scanned" /\ Incremental /\ Changed(run.read) = {} /\ Committed
  BY DEF NoFileChanged
<1>2. rows' = rows /\ current' = current /\ UNCHANGED <<graph, receipts>>
  BY DEF NoFileChanged, canonical
<1>3. \A p \in Files : RowIs(rows[p])'
  BY <1>2 DEF IndexInv, TypesHold, RowIs
<1>4. \A p \in Present(run.read) : Text(p, run.read) = rows[p].facts
  BY <1>1, UnchangedText
<1>5. QED  BY <1>1, <1>2, <1>3, <1>4, CopyCommits

LEMMA SemanticCutoffKeeps ==
  ASSUME IndexInv, SemanticCutoff
  PROVE  IndexInv'
<1>1. run.phase = "scanned" /\ Incremental /\ Committed /\ WriteRows(Changed(run.read))
  BY DEF SemanticCutoff, CutsOff
<1>2. current' = current /\ UNCHANGED <<graph, receipts>>
  BY DEF SemanticCutoff
<1>3. Changed(run.read) \subseteq Present(run.read) /\ Present(run.read) \subseteq Files
  BY DEF Changed, Present
<1>4. ASSUME NEW p \in Changed(run.read)
      PROVE  Text(p, run.read) = rows[p].facts
  BY DEF SemanticCutoff, CutsOff, SemanticallyUnchanged, Text, Changed, Present
<1>5. /\ \A p \in Files : RowIs(rows[p])'
      /\ \A p \in Changed(run.read) : rows'[p].facts = Text(p, run.read)
      /\ \A p \in Files \ Changed(run.read) : rows'[p] = rows[p]
  BY <1>1, <1>3, WrittenRows
<1>6. \A p \in Files : rows'[p].facts = rows[p].facts
  BY <1>4, <1>5
<1>7. \A p \in Present(run.read) : Text(p, run.read) = rows[p].facts
  BY <1>1, <1>4, UnchangedText
<1>8. QED  BY <1>1, <1>2, <1>5, <1>6, <1>7, CopyCommits

LEMMA ReattestKeeps ==
  ASSUME IndexInv, ReattestRevision
  PROVE  IndexInv'
<1>1. /\ run.phase = "scanned" /\ Incremental /\ Committed /\ Changed(run.read) = {}
      /\ WriteRows(Invalidated) /\ Publish(current.number) /\ current.number < MaxRevisions
      /\ UNCHANGED <<graph, receipts>>
  BY DEF ReattestRevision, Reuses
<1>2. Invalidated \subseteq Present(run.read) /\ Present(run.read) \subseteq Files
  BY DEF Invalidated, Present
<1>3. \A p \in Present(run.read) : Text(p, run.read) = rows[p].facts
  BY <1>1, UnchangedText
<1>4. /\ \A p \in Files : RowIs(rows[p])'
      /\ \A p \in Invalidated : rows'[p].facts = Text(p, run.read)
      /\ \A p \in Files \ Invalidated : rows'[p] = rows[p]
  BY <1>1, <1>2, WrittenRows
<1>5. \A p \in Files : rows'[p].facts = rows[p].facts
  BY <1>2, <1>3, <1>4
<1>6. QED  BY <1>1, <1>3, <1>4, <1>5, CopyCommits

LEMMA Published ==
  ASSUME IndexInv, run.phase = "scanned", Publish(current.number),
         current.number < MaxRevisions
  PROVE  /\ current' \in Revision /\ current'.parent <= current'.number
         /\ current'.number > current.number
<1>1. tool \in 0..MaxUpgrades
  BY RunIsScanned
<1>2. current \in Revision /\ current.number \in Nat /\ MaxRevisions \in Nat
  BY IndexAssumption DEF IndexInv, TypesHold, Revision
<1>3. QED  BY <1>1, <1>2 DEF Publish, Revision

LEMMA BuildKeeps ==
  ASSUME IndexInv, BuildRevision
  PROVE  IndexInv'
<1>1. /\ run.phase = "scanned" /\ Incremental /\ ~ Collides /\ Committed
      /\ graph' = DeltaGraph(graph, run.read, Invalidated)
      /\ WriteRows(Invalidated) /\ IssueReceipts(Invalidated)
      /\ Publish(current.number) /\ current.number < MaxRevisions
  BY DEF BuildRevision, BuildsRevision
<1>2. Invalidated \subseteq Present(run.read) /\ Invalidated \in SUBSET Files
  BY DEF Invalidated, Present
<1>3. run.read \in Reads
  BY <1>1, RunIsScanned
<1>4. /\ \A p \in Files : RowIs(rows[p])'
      /\ \A p \in Invalidated : /\ rows'[p].facts = Text(p, run.read)
                                /\ Text(p, run.read) # Broken =>
                                     /\ rows'[p].hash \in Contents
                                     /\ Facts[rows'[p].hash] = Text(p, run.read)
      /\ \A p \in Files \ Invalidated : rows'[p] = rows[p]
  BY <1>1, <1>2, WrittenRows
<1>5. GraphOK(graph')
  BY <1>1, <1>2, <1>3, DeltaGraphOK DEF IndexInv, TypesHold
<1>6. /\ receipts' \in [Files -> Digest]
      /\ \A p \in Invalidated : receipts'[p] = rows'[p].hash
      /\ \A p \in Files \ Invalidated : receipts'[p] = receipts[p]
  <2>1. \A p \in Files : rows'[p].hash \in Digest
    BY <1>4 DEF RowIs
  <2>2. QED  BY <1>1, <1>2, <2>1 DEF IssueReceipts, IndexInv, TypesHold
<1>7. \A p \in Files : graph'.parsed[p] = IF p \in Invalidated THEN Text(p, run.read)
                                          ELSE graph.parsed[p]
  <2>1. graph'.parsed = ParsedAgain(graph, run.read, Invalidated)
    BY <1>1 DEF DeltaGraph
  <2>2. QED  BY <2>1 DEF ParsedAgain
<1>8. Supported(graph', receipts')
  BY <1>4, <1>6, <1>7 DEF Supported, IndexInv, SupportHolds
<1>9. ASSUME Postgres, OwnSymbolsOnly, ~ shrunk'
      PROVE  StandsFor(scanned)'
  <2>1. /\ ~ shrunk
        /\ \A p \in Files \ Present(run.read) : rows[p].facts = Broken /\ Text(p, run.read) = Broken
    BY <1>1, <1>9, NothingShrank
  <2>2. StandsFor(scanned)
    BY <1>1, <1>9, <2>1 DEF IndexInv, GraphIsFull, Incremental
  <2>3. SeedsOf(Seeds, run.read) /\ Invalidated = Closed(Seeds, run.read)
    BY <1>1, <2>1, SeedsAre
  <2>4. ~ Collision(graph.nodes, Texts(run.read), Closed(Seeds, run.read))
    BY <1>1, <2>3 DEF Collides
  <2>5. Unshared(Texts(run.read)) /\ graph' = FullGraph(run.read)
    BY <1>1, <1>9, <2>2, <2>3, <2>4, DeltaIsFull
  <2>6. \A p \in Files \ Invalidated : rows[p].facts = Text(p, run.read)
    BY <1>9, <2>2, <2>3, SameText, BaseIs
  <2>7. \A p \in Files : rows'[p].facts = Text(p, run.read)
    BY <1>4, <2>6
  <2>8. scanned' = run.read
    BY <1>1 DEF Committed
  <2>9. QED  BY <1>3, <2>5, <2>7, <2>8 DEF StandsFor
<1>10. GraphIsFull'
  BY <1>9 DEF GraphIsFull
<1>11. /\ current' \in Revision /\ current'.parent <= current'.number
       /\ current'.number > current.number
  BY <1>1, Published
<1>12. QED  BY <1>1, <1>4, <1>5, <1>6, <1>8, <1>10, <1>11, Commits

LEMMA FullKeeps ==
  ASSUME IndexInv, FullRevision
  PROVE  IndexInv'
<1>1. /\ run.phase = "scanned" /\ Committed /\ ~ DefinedTwice(run.read)
      /\ graph' = FullGraph(run.read) /\ WriteRows(Present(run.read))
      /\ receipts' = [p \in Files |-> IF p \in Present(run.read) THEN rows'[p].hash ELSE Unread]
      /\ Publish(current.number) /\ current.number < MaxRevisions
  BY DEF FullRevision
<1>2. run.read \in Reads
  BY <1>1, RunIsScanned
<1>3. /\ \A p \in Files : RowIs(rows[p])'
      /\ \A p \in Present(run.read) : /\ rows'[p].facts = Text(p, run.read)
                                      /\ Text(p, run.read) # Broken =>
                                           /\ rows'[p].hash \in Contents
                                           /\ Facts[rows'[p].hash] = Text(p, run.read)
      /\ \A p \in Files \ Present(run.read) : rows'[p] = rows[p]
  BY <1>1, WrittenRows
<1>4. GraphOK(graph')
  BY <1>1, <1>2, FullGraphOK
<1>5. receipts' \in [Files -> Digest]
  <2>1. \A p \in Files : rows'[p].hash \in Digest
    BY <1>3 DEF RowIs
  <2>2. QED  BY <1>1, <2>1 DEF Digest
<1>6. \A p \in Files : graph'.parsed[p] = Text(p, run.read)
  BY <1>1 DEF FullGraph, Texts
<1>7. \A p \in Files \ Present(run.read) : Text(p, run.read) = Broken
  BY DEF Present, Text
<1>8. Supported(graph', receipts')
  BY <1>1, <1>3, <1>6, <1>7 DEF Supported
<1>9. ASSUME OwnSymbolsOnly, ~ shrunk'
      PROVE  StandsFor(scanned)'
  <2>1. \A p \in Files \ Present(run.read) : rows[p].facts = Broken
    BY <1>1, <1>9, NothingShrank
  <2>2. \A p \in Files : rows'[p].facts = Text(p, run.read)
    BY <1>3, <1>7, <2>1
  <2>3. Unshared(Texts(run.read))
    BY <1>1, <1>2, <1>9, OnceIsUnshared, TextsAre DEF DefinedTwice
  <2>4. scanned' = run.read
    BY <1>1 DEF Committed
  <2>5. QED  BY <1>1, <1>2, <2>2, <2>3, <2>4 DEF StandsFor
<1>10. GraphIsFull'
  BY <1>9 DEF GraphIsFull
<1>11. /\ current' \in Revision /\ current'.parent <= current'.number
       /\ current'.number > current.number
  BY <1>1, Published
<1>12. QED  BY <1>1, <1>3, <1>4, <1>5, <1>8, <1>10, <1>11, Commits

(* The steps that leave what is published alone.                            *)
LEMMA CanonicalStays ==
  ASSUME IndexInv, UNCHANGED <<canonical, history>>,
         source' \in Reads, tool' \in 0..MaxUpgrades, RunIs', IssuerIs',
         issuer' # Idle => Supported(issuer'.graph, issuer'.receipts),
         CopyHolds', LockHolds'
  PROVE  IndexInv'
<1>1. /\ rows' = rows /\ current' = current /\ graph' = graph /\ receipts' = receipts
      /\ scanned' = scanned /\ shrunk' = shrunk
  BY DEF canonical, history
<1>2. TypesHold'
  BY <1>1 DEF IndexInv, TypesHold, RowIs
<1>3. SupportHolds'
  BY <1>1 DEF IndexInv, SupportHolds
<1>4. GraphIsFull'
  BY <1>1 DEF IndexInv, GraphIsFull, StandsFor
<1>5. QED  BY <1>2, <1>3, <1>4 DEF IndexInv

LEMMA RollbackKeeps ==
  ASSUME IndexInv, Rollback
  PROVE  IndexInv'
<1>1. /\ UNCHANGED <<canonical, history>> /\ source' = source /\ tool' = tool
      /\ issuer' = issuer /\ run' = Idle /\ current' = current /\ graph' = graph
  BY DEF Rollback, canonical, history
<1>2. RunIs' /\ IssuerIs' /\ CopyHolds' /\ LockHolds'
  BY <1>1 DEF IndexInv, TypesHold, RunIs, IssuerIs, CopyHolds, LockHolds
<1>3. QED  BY <1>1, <1>2, CanonicalStays DEF IndexInv, TypesHold, SupportHolds

LEMMA BeginKeeps ==
  ASSUME IndexInv, NEW force \in BOOLEAN, Begin(force)
  PROVE  IndexInv'
<1>1. /\ UNCHANGED <<canonical, history>> /\ source' = source /\ tool' = tool
      /\ issuer' = issuer /\ current' = current /\ graph' = graph
      /\ run' = [phase |-> "scanned", read |-> source, force |-> force]
      /\ Postgres => issuer.phase # "checked"
  BY DEF Begin, canonical, history
<1>2. run'.read = source
  BY <1>1
<1>3. RunIs'
  BY <1>1, <1>2 DEF IndexInv, TypesHold, RunIs
<1>4. IssuerIs' /\ CopyHolds' /\ LockHolds'
  BY <1>1 DEF IndexInv, TypesHold, IssuerIs, CopyHolds, LockHolds
<1>5. QED  BY <1>1, <1>3, <1>4, CanonicalStays DEF IndexInv, TypesHold, SupportHolds

LEMMA IssuerBeginsKeeps ==
  ASSUME IndexInv, NEW p \in Files, IssuerBegins(p)
  PROVE  IndexInv'
<1>1. /\ UNCHANGED <<canonical, history>> /\ source' = source /\ tool' = tool
      /\ run' = run /\ current' = current /\ graph' = graph /\ current.number # 0
      /\ issuer' = [phase |-> "analysing", base |-> current, unit |-> p, read |-> source[p],
                    graph |-> graph, receipts |-> receipts]
  BY DEF IssuerBegins, canonical, history
<1>2. /\ issuer'.phase = "analysing" /\ issuer'.base = current
      /\ issuer'.graph = graph /\ issuer'.receipts = receipts
      /\ DOMAIN issuer' = {"phase", "base", "unit", "read", "graph", "receipts"}
  BY <1>1
<1>3. current.number \in Nat
  BY IndexAssumption DEF IndexInv, TypesHold, Revision
<1>4. IssuerIs'
  BY <1>1, <1>2, <1>3 DEF IndexInv, TypesHold, IssuerIs
<1>5. RunIs' /\ CopyHolds' /\ LockHolds'
  BY <1>1, <1>2 DEF IndexInv, TypesHold, RunIs, CopyHolds, LockHolds
<1>6. Supported(issuer'.graph, issuer'.receipts)
  BY <1>2 DEF IndexInv, SupportHolds
<1>7. QED  BY <1>1, <1>4, <1>5, <1>6, CanonicalStays DEF IndexInv, TypesHold

LEMMA IssuerChecksKeeps ==
  ASSUME IndexInv, IssuerChecks
  PROVE  IndexInv'
<1>1. /\ UNCHANGED <<canonical, history>> /\ source' = source /\ tool' = tool
      /\ run' = run /\ current' = current /\ graph' = graph
      /\ issuer.phase = "analysing" /\ issuer' = [issuer EXCEPT !.phase = "checked"]
      /\ Postgres => run = Idle
      /\ current.number = issuer.base.number
  BY DEF IssuerChecks, canonical, history
<1>2. issuer # Idle
  BY <1>1 DEF Idle
<1>3. DOMAIN issuer = {"phase", "base", "unit", "read", "graph", "receipts"}
  BY <1>2 DEF IndexInv, TypesHold, IssuerIs
<1>4. /\ issuer'.phase = "checked" /\ issuer'.base = issuer.base
      /\ issuer'.graph = issuer.graph /\ issuer'.receipts = issuer.receipts
      /\ DOMAIN issuer' = DOMAIN issuer
  BY <1>1, <1>3
<1>5. IssuerIs' /\ RunIs' /\ CopyHolds' /\ LockHolds'
  BY <1>1, <1>2, <1>3, <1>4
  DEF IndexInv, TypesHold, RunIs, IssuerIs, CopyHolds, LockHolds
<1>6. Supported(issuer'.graph, issuer'.receipts)
  BY <1>2, <1>4 DEF IndexInv, SupportHolds
<1>7. QED  BY <1>1, <1>5, <1>6, CanonicalStays DEF IndexInv, TypesHold

LEMMA IssuerPublishesKeeps ==
  ASSUME IndexInv, IssuerPublishes
  PROVE  IndexInv'
<1>1. /\ issuer.phase = "checked" /\ run = Idle /\ current.number < MaxRevisions
      /\ current' = [number |-> current.number + 1, parent |-> issuer.base.number,
                     tool |-> issuer.base.tool]
      /\ graph' = issuer.graph /\ receipts' = issuer.receipts /\ issuer' = Idle
      /\ source' = source /\ tool' = tool /\ rows' = rows /\ run' = run
      /\ scanned' = scanned /\ shrunk' = shrunk
  BY DEF IssuerPublishes, history
<1>2. issuer # Idle
  BY <1>1 DEF Idle
<1>3. /\ issuer.base \in Revision /\ issuer.base.number <= current.number
      /\ GraphOK(issuer.graph) /\ issuer.receipts \in [Files -> Digest]
  BY <1>2 DEF IndexInv, TypesHold, IssuerIs
<1>4. current \in Revision /\ MaxRevisions \in Nat
  BY IndexAssumption DEF IndexInv, TypesHold
<1>5. current' \in Revision /\ current'.parent <= current'.number
  BY <1>1, <1>3, <1>4 DEF Revision
<1>6. TypesHold'
  BY <1>1, <1>3, <1>5 DEF IndexInv, TypesHold, RowIs, RunIs, IssuerIs
<1>7. SupportHolds'
  BY <1>1, <1>2 DEF IndexInv, SupportHolds
<1>8. CopyHolds' /\ LockHolds'
  BY <1>1 DEF CopyHolds, LockHolds, Idle
<1>9. GraphIsFull'
  <2>1. SUFFICES ASSUME Postgres, OwnSymbolsOnly, ~ shrunk
                 PROVE  StandsFor(scanned)'
    BY <1>1 DEF GraphIsFull
  <2>2. issuer.base.number = current.number /\ current.number # 0
    <3>1. issuer.base.number = current.number
      BY <1>1, <2>1 DEF IndexInv, LockHolds
    <3>2. QED  BY <1>2, <3>1 DEF IndexInv, TypesHold, IssuerIs
  <2>3. graph' = graph
    BY <1>1, <1>2, <2>2 DEF IndexInv, CopyHolds
  <2>4. StandsFor(scanned)
    BY <2>1, <2>2 DEF IndexInv, GraphIsFull
  <2>5. QED  BY <1>1, <2>3, <2>4 DEF StandsFor
<1>10. QED  BY <1>6, <1>7, <1>8, <1>9 DEF IndexInv

LEMMA IssuerGivesUpKeeps ==
  ASSUME IndexInv, IssuerGivesUp
  PROVE  IndexInv'
<1>1. /\ UNCHANGED <<canonical, history>> /\ source' = source /\ tool' = tool
      /\ run' = run /\ current' = current /\ graph' = graph /\ issuer' = Idle
  BY DEF IssuerGivesUp, canonical, history
<1>2. RunIs' /\ IssuerIs' /\ CopyHolds' /\ LockHolds'
  BY <1>1 DEF IndexInv, TypesHold, RunIs, IssuerIs, CopyHolds, LockHolds, Idle
<1>3. QED  BY <1>1, <1>2, CanonicalStays DEF IndexInv, TypesHold

LEMMA WorldKeeps ==
  ASSUME IndexInv,
         \/ \E p \in Files : \E c \in Versions[p] \cup {Absent} : Edit(p, c)
         \/ Upgrade
         \/ UNCHANGED vars
  PROVE  IndexInv'
<1>1. /\ UNCHANGED <<canonical, history>> /\ current' = current /\ graph' = graph
      /\ run' = run /\ issuer' = issuer
  BY DEF Edit, Upgrade, vars, canonical, history
<1>2. source' \in Reads
  <2>1. CASE \E p \in Files : \E c \in Versions[p] \cup {Absent} : Edit(p, c)
    <3>1. PICK p \in Files, c \in Contents \cup {Absent} : Edit(p, c)
      BY <2>1, IndexAssumption
    <3>2. source \in [Files -> Contents \cup {Absent}]
      BY DEF IndexInv, TypesHold, Reads
    <3>3. QED  BY <3>1, <3>2 DEF Edit, Reads
  <2>2. CASE Upgrade \/ UNCHANGED vars
    BY <2>2 DEF Upgrade, vars, IndexInv, TypesHold
  <2>3. QED  BY <2>1, <2>2
<1>3. tool' \in 0..MaxUpgrades
  BY IndexAssumption DEF Edit, Upgrade, vars, IndexInv, TypesHold
<1>4. RunIs' /\ IssuerIs' /\ CopyHolds' /\ LockHolds'
  BY <1>1 DEF IndexInv, TypesHold, RunIs, IssuerIs, CopyHolds, LockHolds
<1>5. QED  BY <1>1, <1>2, <1>3, <1>4, CanonicalStays DEF IndexInv, SupportHolds

LEMMA InitHolds == Init => IndexInv
<1> SUFFICES ASSUME Init PROVE IndexInv
  OBVIOUS
<1>1. source \in Reads
  <2>1. source \in [Files -> Contents \cup {Absent}]
    BY DEF Init
  <2>2. QED  BY <2>1 DEF Reads
<1>2. tool \in 0..MaxUpgrades /\ current \in Revision /\ current.parent <= current.number
  BY IndexAssumption DEF Init, Revision
<1>3. \A p \in Files : RowIs(rows[p])
  <2>1. \A p \in Files : rows[p] = NoRow
    BY DEF Init
  <2>2. 0 \in 0..MaxUpgrades
    BY IndexAssumption
  <2>3. QED  BY <2>1, <2>2 DEF RowIs, NoRow, Digest
<1>4. GraphOK(graph) /\ Supported(graph, receipts)
  <2>1. graph.nodes = [s \in {} |-> NoRow] /\ graph.parsed = [p \in Files |-> Broken]
    BY DEF Init, EmptyGraph
  <2>2. QED  BY <2>1 DEF GraphOK, Supported
<1>5. receipts \in [Files -> Digest]
  BY DEF Init, Digest
<1>6. run = Idle /\ issuer = Idle /\ current.number = 0
  BY DEF Init
<1>7. issuer.phase # "checked"
  BY <1>6 DEF Idle
<1>8. QED
  BY <1>1, <1>2, <1>3, <1>4, <1>5, <1>6, <1>7
  DEF IndexInv, TypesHold, RunIs, IssuerIs, SupportHolds, CopyHolds, LockHolds, GraphIsFull

LEMMA StepKeeps == IndexInv /\ [Next]_vars => IndexInv'
<1> SUFFICES ASSUME IndexInv, [Next]_vars PROVE IndexInv'
  OBVIOUS
<1>1. CASE \E force \in BOOLEAN : Begin(force)
  BY <1>1, BeginKeeps
<1>2. CASE NoFileChanged
  BY <1>2, NoFileChangedKeeps
<1>3. CASE SemanticCutoff
  BY <1>3, SemanticCutoffKeeps
<1>4. CASE ReattestRevision
  BY <1>4, ReattestKeeps
<1>5. CASE ReattestRaises \/ BuildCollides \/ ForeignKeyRaises \/ FullCollides \/ RunFails
  BY <1>5, RollbackKeeps DEF ReattestRaises, BuildCollides, ForeignKeyRaises, FullCollides, RunFails
<1>6. CASE BuildRevision
  BY <1>6, BuildKeeps
<1>7. CASE FullRevision
  BY <1>7, FullKeeps
<1>8. CASE \E p \in Files : IssuerBegins(p)
  BY <1>8, IssuerBeginsKeeps
<1>9. CASE IssuerChecks
  BY <1>9, IssuerChecksKeeps
<1>10. CASE IssuerPublishes
  BY <1>10, IssuerPublishesKeeps
<1>11. CASE IssuerGivesUp
  BY <1>11, IssuerGivesUpKeeps
<1>12. CASE \/ \E p \in Files : \E c \in Versions[p] \cup {Absent} : Edit(p, c)
            \/ Upgrade \/ UNCHANGED vars
  BY <1>12, WorldKeeps
<1>13. QED
  BY <1>1, <1>2, <1>3, <1>4, <1>5, <1>6, <1>7, <1>8, <1>9, <1>10, <1>11, <1>12
  DEF Next, IndexRun, Coverage

LEMMA InvariantHolds == Spec => []IndexInv
<1>1. Init => IndexInv
  BY InitHolds
<1>2. IndexInv /\ [Next]_vars => IndexInv'
  BY StepKeeps
<1>3. QED  BY <1>1, <1>2, PTL DEF Spec
------------------------------------------------------------------------------
(* What follows from it.                                                    *)

(* Every variable has its type in every reachable state, and a row has a    *)
(* digest exactly when its file parsed: the rows, the graph and the         *)
(* receipts that indexer.py writes, for any files and contents.             *)
THEOREM TypesAlwaysHold == Spec => []IndexTypeOK
<1>1. IndexInv => IndexTypeOK
  <2> SUFFICES ASSUME IndexInv PROVE IndexTypeOK
    OBVIOUS
  <2>1. \A p \in Files : /\ rows[p].hash \in Digest /\ rows[p].tool \in 0..MaxUpgrades
                          /\ (rows[p].hash = Unread) = (rows[p].facts = Broken)
    <3>1. ASSUME NEW p \in Files
          PROVE  /\ rows[p].hash \in Digest /\ rows[p].tool \in 0..MaxUpgrades
                 /\ (rows[p].hash = Unread) <=> (rows[p].facts = Broken)
      BY DEF IndexInv, TypesHold, RowIs
    <3>2. QED  BY <3>1
  <2>2. run.phase \in {"idle", "scanned"} /\ issuer.phase \in {"idle", "analysing", "checked"}
    <3>1. run = Idle \/ run.phase = "scanned"
      <4>1. run # Idle => run = [phase |-> "scanned", read |-> run.read, force |-> run.force]
        BY DEF IndexInv, TypesHold, RunIs
      <4>2. QED  BY <4>1
    <3>2. issuer = Idle \/ issuer.phase \in {"analysing", "checked"}
      BY DEF IndexInv, TypesHold, IssuerIs
    <3>3. QED  BY <3>1, <3>2 DEF Idle
  <2>3. source \in [Files -> Contents \cup {Absent}]
    BY DEF IndexInv, TypesHold, Reads
  <2>4. QED  BY <2>1, <2>2, <2>3 DEF IndexInv, TypesHold, IndexTypeOK
<1>2. QED  BY <1>1, InvariantHolds, PTL

(* The source a support receipt of CURRENT names yields the facts it        *)
(* supports, after any interleaving of runs with coverage overlays          *)
(* (indexer.py, coverage_authority/issuer.py), on either store.             *)
THEOREM ReceiptsAlwaysMatch == Spec => []ReceiptsAreOfTheFacts
<1>1. IndexInv => ReceiptsAreOfTheFacts
  BY UnreadIsNoContent DEF IndexInv, SupportHolds, Supported, ReceiptsAreOfTheFacts
<1>2. QED  BY <1>1, InvariantHolds, PTL

(* On PostgreSQL, what incremental runs have built is what one full run     *)
(* over the same source builds, and a node that goes leaves no edge behind  *)
(* (indexer.py, _dependency_closure), for projects of any size in which     *)
(* declarations come with their definitions.                                *)
THEOREM IncrementalIsAlwaysSound ==
  ASSUME Postgres
  PROVE  Spec => []IncrementalIsSound
<1>1. IndexInv => IncrementalIsFull
  BY DEF IndexInv, GraphIsFull, IncrementalIsFull, StandsFor
<1>2. IndexInv => DeletionsAreClosed
  <2>1. SUFFICES ASSUME IndexInv, OwnSymbolsOnly, BuildsRevision, ~ shrunk,
                        \A p \in Files : rows[p] # NoRow => Text(p, run.read) # Broken
                 PROVE  ~ Dangles
    BY DEF DeletionsAreClosed
  <2>2. run.phase = "scanned" /\ current.number # 0
    BY <2>1 DEF BuildsRevision, Incremental
  <2>3. StandsFor(scanned)
    BY <2>1, <2>2 DEF IndexInv, GraphIsFull
  <2>4. \A p \in Files \ Present(run.read) : rows[p].facts = Broken /\ Text(p, run.read) = Broken
    BY <2>1, NoRowIs DEF Present, Text
  <2>5. SeedsOf(Seeds, run.read) /\ Invalidated = Closed(Seeds, run.read)
    BY <2>1, <2>2, <2>4, SeedsAre
  <2>6. \A p \in Files : graph.parsed[p] # Broken => Text(p, run.read) # Broken
    BY <2>1, <2>3, BaseIs, NoRowIs
  <2>7. QED  BY <2>1, <2>3, <2>5, <2>6, NothingDangles DEF Dangles
<1>3. IndexInv => IncrementalIsSound
  BY <1>1, <1>2 DEF IncrementalIsSound
<1>4. QED  BY <1>3, InvariantHolds, PTL

(* On PostgreSQL a revision becomes CURRENT only as the successor of        *)
(* CURRENT: the check the issuer makes under the repository lock still      *)
(* holds when it publishes (coverage_authority/issuer.py).                  *)
THEOREM LineageIsAlwaysLinear ==
  ASSUME Postgres
  PROVE  Spec => LineageIsLinear
<1>1. IndexInv /\ [Next]_vars => (current' # current => current'.parent = current.number)
  <2> SUFFICES ASSUME IndexInv, [Next]_vars, current' # current
               PROVE  current'.parent = current.number
    OBVIOUS
  <2>1. CASE Publish(current.number)
    BY <2>1 DEF Publish
  <2>2. CASE IssuerPublishes
    BY <2>2 DEF IssuerPublishes, IndexInv, LockHolds
  <2>3. Publish(current.number) \/ IssuerPublishes
    BY DEF Next, IndexRun, Coverage, vars, canonical, Begin, NoFileChanged, SemanticCutoff,
           ReattestRevision, ReattestRaises, BuildRevision, BuildCollides, ForeignKeyRaises,
           FullRevision, FullCollides, RunFails, Rollback, IssuerBegins, IssuerChecks,
           IssuerGivesUp, Edit, Upgrade
  <2>4. QED  BY <2>1, <2>2, <2>3
<1>2. QED  BY <1>1, InvariantHolds, PTL DEF Spec, LineageIsLinear
==============================================================================
