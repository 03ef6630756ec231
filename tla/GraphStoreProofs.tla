-------------------------- MODULE GraphStoreProofs --------------------------
(***************************************************************************)
(* Theorems about GraphStore for any ids, node data, links and legacy      *)
(* graph.  The JSON store implements DurableGraph whatever happens, the    *)
(* SQLite store as long as no write fails and nothing is restored, and     *)
(* then no edge dangles; the adjacency index and the caches are right      *)
(* always.                                                                 *)
(***************************************************************************)
EXTENDS GraphStore, FiniteSetTheorems, TLAPS

(* The typing part of the invariants: the graphs, and change sets that     *)
(* name only what can be written or deleted.                               *)
IsFile(file) == file = {} \/ \E g \in Graph : file = {g}
Types ==
  /\ InMemory \in Graph /\ edgesDirty \in BOOLEAN
  /\ dirty \subseteq DOMAIN nodes /\ removed \subseteq Ids \ DOMAIN nodes
  /\ IsFile(json) /\ IsFile(db) /\ IsFile(snapshot)

(* The empty graph is a graph.                                             *)
LEMMA EmptyIsGraph == EmptyGraph \in Graph
<1>1. EmptyGraph.nodes \in [{} -> Values] /\ {} \in SUBSET Ids
  BY DEF EmptyGraph
<1> QED BY <1>1 DEF EmptyGraph, Graph

(* A file holds its graph.                                                 *)
LEMMA TheOnlyOne ==
  /\ TheOnly({}) = EmptyGraph
  /\ \A g : TheOnly({g}) = g
BY DEF TheOnly

(* What a file holds, or stands for, is a graph.                           *)
LEMMA FileHoldsGraph == ASSUME NEW file, IsFile(file) PROVE TheOnly(file) \in Graph
BY EmptyIsGraph, TheOnlyOne DEF IsFile

(* Graphs, seen through their fields.                                      *)
LEMMA GraphFields ==
  \A n, e : [nodes |-> n, edges |-> e] \in Graph <=>
    /\ \E D \in SUBSET Ids : n \in [D -> Values]
    /\ e \in SUBSET Links
BY DEF Graph

(* A graph's fields.                                                       *)
LEMMA GraphShape ==
  ASSUME NEW g \in Graph
  PROVE  /\ DOMAIN g.nodes \in SUBSET Ids /\ g.nodes \in [DOMAIN g.nodes -> Values]
         /\ g.edges \in SUBSET Links
         /\ g = [nodes |-> g.nodes, edges |-> g.edges]
BY DEF Graph

(* An incremental save of a graph into a table yields a graph.             *)
LEMMA UpsertedType ==
  ASSUME NEW old \in Graph, NEW g \in Graph, NEW doomed, NEW named, NEW edgesNamed \in BOOLEAN
  PROVE  Upserted(old, g, doomed, named, edgesNamed) \in Graph
<1> DEFINE D == (DOMAIN old.nodes \ doomed) \cup (named \cap DOMAIN g.nodes)
           n == [i \in D |-> IF i \in named \cap DOMAIN g.nodes THEN g.nodes[i] ELSE old.nodes[i]]
           e == IF edgesNamed THEN g.edges ELSE old.edges
<1>1. D \in SUBSET Ids
  BY GraphShape
<1>2. n \in [D -> Values]
  BY GraphShape
<1>3. e \in SUBSET Links
  BY GraphShape
<1>4. Upserted(old, g, doomed, named, edgesNamed) = [nodes |-> n, edges |-> e]
  BY DEF Upserted
<1> HIDE DEF D, n, e
<1> QED BY <1>1, <1>2, <1>3, <1>4, GraphFields

(* If the change sets cover the difference between the table and the graph,*)
(* writing only what they name makes the table equal to the graph.         *)
LEMMA IncrementalSaveIsFull ==
  ASSUME NEW old \in Graph, NEW g \in Graph, NEW doomed, NEW named, NEW edgesNamed \in BOOLEAN,
         named \subseteq DOMAIN g.nodes, doomed \cap DOMAIN g.nodes = {},
         \A i \in Ids \ (named \cup doomed) :
           /\ i \in DOMAIN g.nodes <=> i \in DOMAIN old.nodes
           /\ i \in DOMAIN g.nodes => g.nodes[i] = old.nodes[i],
         ~edgesNamed => g.edges = old.edges
  PROVE  Upserted(old, g, doomed, named, edgesNamed) = g
<1> DEFINE D == (DOMAIN old.nodes \ doomed) \cup (named \cap DOMAIN g.nodes)
           n == [i \in D |-> IF i \in named \cap DOMAIN g.nodes THEN g.nodes[i] ELSE old.nodes[i]]
<1>1. DOMAIN g.nodes \in SUBSET Ids /\ DOMAIN old.nodes \in SUBSET Ids
  BY GraphShape
<1>2. D = DOMAIN g.nodes
  BY <1>1
<1>3. n = g.nodes
  <2>1. \A i \in D : n[i] = g.nodes[i]
    BY <1>1, <1>2
  <2>2. g.nodes = [i \in DOMAIN g.nodes |-> g.nodes[i]]
    BY GraphShape
  <2> QED BY <1>2, <2>1, <2>2
<1>4. (IF edgesNamed THEN g.edges ELSE old.edges) = g.edges
  OBVIOUS
<1>5. Upserted(old, g, doomed, named, edgesNamed)
        = [nodes |-> n, edges |-> IF edgesNamed THEN g.edges ELSE old.edges]
  BY DEF Upserted
<1> HIDE DEF n
<1> QED BY <1>3, <1>4, <1>5, GraphShape

-----------------------------------------------------------------------------
(* The adjacency index: every step keeps it right.                         *)
LEMMA IndexStep == IndexMatchesEdges /\ [AnyNext]_vars => IndexMatchesEdges'
<1> SUFFICES ASSUME IndexMatchesEdges, [AnyNext]_vars PROVE IndexMatchesEdges'
  OBVIOUS
<1> USE DEF IndexMatchesEdges
<1>1. ASSUME NEW g, NEW version, Holds(g, version) PROVE IndexMatchesEdges'
  BY <1>1 DEF Holds
<1>2. ASSUME UNCHANGED content PROVE IndexMatchesEdges'
  BY <1>2 DEF content
<1>3. ASSUME NEW id \in Ids, NEW v \in Values, AddNode(id, v) PROVE IndexMatchesEdges'
  BY <1>3 DEF AddNode
<1>4. ASSUME NEW id \in Ids, NEW v \in Values, ChangeNode(id, v) PROVE IndexMatchesEdges'
  BY <1>4 DEF ChangeNode
<1>5. ASSUME NEW e \in Links, AddEdge(e) PROVE IndexMatchesEdges'
  BY <1>5 DEF AddEdge
<1>6. ASSUME NEW id \in Ids, RemoveNode(id) PROVE IndexMatchesEdges'
  <2> DEFINE doomed == edgesByNode[id]
  <2>1. edges' = edges \ doomed /\ CleansOtherEnds(id, doomed)
    BY <1>6 DEF RemoveNode
  <2>2. doomed = {e \in edges : id \in Ends(e)}
    OBVIOUS
  <2> HIDE DEF doomed
  <2> SUFFICES ASSUME NEW i \in Ids PROVE edgesByNode'[i] = {e \in edges' : i \in Ends(e)}
    OBVIOUS
  <2>3. CASE i = id
    BY <2>1, <2>2, <2>3 DEF CleansOtherEnds
  <2>4. CASE i # id /\ i \in UNION {Ends(e) : e \in doomed}
    BY <2>1, <2>2, <2>4 DEF CleansOtherEnds
  <2>5. CASE i # id /\ i \notin UNION {Ends(e) : e \in doomed}
    BY <2>1, <2>2, <2>5 DEF CleansOtherEnds
  <2> QED BY <2>3, <2>4, <2>5
<1>7. CASE Load
  BY <1>1, <1>7 DEF Load, LoadFresh, LoadJson, LoadDatabase, Import
<1>8. CASE Exit
  BY <1>1, <1>8 DEF Exit
<1>9. CASE RestoreSnapshot
  BY <1>1, <1>9 DEF RestoreSnapshot
<1>10. CASE Read \/ Save \/ CreateSnapshot \/ SaveFails \/ ImportDies \/ UNCHANGED vars
  BY <1>2, <1>10 DEF Read, EmbeddingMatrix, LexicalIndex, Save, CreateSnapshot, SaveFails,
                     ImportDies, vars
<1> QED BY <1>3, <1>4, <1>5, <1>6, <1>7, <1>8, <1>9, <1>10 DEF AnyNext, Calm, Mutate

(* The adjacency index never disagrees with the edge list                  *)
(* (IndexMatchesEdges), whatever is added, removed, loaded or restored.    *)
THEOREM IndexIsRight == AnySpec => []IndexMatchesEdges
<1>1. Init => IndexMatchesEdges
  BY DEF Init, IndexMatchesEdges
<1> QED BY <1>1, IndexStep, PTL DEF AnySpec

-----------------------------------------------------------------------------
(* Types.  A new graph object holds its graph.                             *)
LEMMA HoldsType ==
  ASSUME NEW g \in Graph, NEW version, Holds(g, version)
  PROVE  InMemory' = g
BY GraphShape DEF Holds, InMemory

(* Where the graph in memory is replaced, the change sets are reset.       *)
LEMMA FreshTypes ==
  ASSUME NEW g \in Graph, NEW version, Holds(g, version), ConsumeChanges
  PROVE  /\ InMemory' \in Graph /\ edgesDirty' \in BOOLEAN
         /\ dirty' \subseteq DOMAIN nodes' /\ removed' \subseteq Ids \ DOMAIN nodes'
BY HoldsType DEF ConsumeChanges

(* Every step keeps the graphs and the change sets what they are.          *)
LEMMA TypesStep == Types /\ [AnyNext]_vars => Types'
<1> SUFFICES ASSUME Types, [AnyNext]_vars PROVE Types'
  OBVIOUS
<1>a. /\ DOMAIN nodes \in SUBSET Ids /\ nodes \in [DOMAIN nodes -> Values]
      /\ edges \in SUBSET Links
  BY GraphShape DEF Types, InMemory
<1>b. TheOnly(json) \in Graph /\ TheOnly(db) \in Graph /\ EmptyGraph \in Graph
  BY FileHoldsGraph, EmptyIsGraph DEF Types
<1>c. \A g \in Graph : IsFile({g})
  BY DEF IsFile
<1>d. ASSUME NEW D \in SUBSET Ids, nodes' \in [D -> Values], edges' \in SUBSET Links
      PROVE  InMemory' \in Graph
  BY <1>d, GraphFields DEF InMemory
<1>1. ASSUME NEW id \in Ids, NEW v \in Values, AddNode(id, v) PROVE Types'
  <2>1. nodes' \in [DOMAIN nodes \cup {id} -> Values] /\ edges' \in SUBSET Links
    BY <1>1, <1>a DEF AddNode
  <2>2. InMemory' \in Graph
    BY <1>a, <1>d, <2>1
  <2> QED BY <1>1, <1>a, <2>1, <2>2 DEF Types, AddNode, files
<1>2. ASSUME NEW id \in Ids, NEW v \in Values, ChangeNode(id, v) PROVE Types'
  <2>1. nodes' \in [DOMAIN nodes -> Values] /\ edges' \in SUBSET Links /\ DOMAIN nodes' = DOMAIN nodes
    BY <1>2, <1>a DEF ChangeNode
  <2>2. InMemory' \in Graph
    BY <1>a, <1>d, <2>1
  <2> QED BY <1>2, <2>1, <2>2 DEF Types, ChangeNode, Marks, files
<1>3. ASSUME NEW e \in Links, AddEdge(e) PROVE Types'
  <2>1. nodes' = nodes /\ edges' \in SUBSET Links
    BY <1>3, <1>a DEF AddEdge
  <2>2. InMemory' \in Graph
    BY <1>a, <1>d, <2>1
  <2> QED BY <1>3, <2>1, <2>2 DEF Types, AddEdge, files
<1>4. ASSUME NEW id \in Ids, RemoveNode(id) PROVE Types'
  <2>1. nodes' \in [DOMAIN nodes \ {id} -> Values] /\ edges' \in SUBSET Links
    BY <1>4, <1>a DEF RemoveNode
  <2>2. InMemory' \in Graph
    BY <1>a, <1>d, <2>1
  <2> QED BY <1>4, <1>a, <2>1, <2>2 DEF Types, RemoveNode, files
<1>5. CASE Read
  BY <1>5 DEF Read, EmbeddingMatrix, LexicalIndex, content, changes, files, Types, InMemory
<1>6. CASE Save \/ SaveFails
  <2>1. UNCHANGED content
    BY <1>6 DEF Save, SaveFails
  <2>2. InMemory' = InMemory /\ DOMAIN nodes' = DOMAIN nodes
    BY <2>1 DEF content, InMemory
  <2>3. ConsumeChanges \/ UNCHANGED changes
    BY <1>6 DEF Save, SaveFails
  <2>4. Upserted(TheOnly(db), InMemory, removed, dirty, edgesDirty) \in Graph
    BY <1>b, UpsertedType DEF Types
  <2>5. IsFile(json') /\ IsFile(db') /\ IsFile(snapshot')
    BY <1>6, <1>b, <1>c, <2>4 DEF Types, Save, SaveFails, JsonSave, SqliteSave
  <2> QED BY <2>2, <2>3, <2>5 DEF Types, ConsumeChanges, changes
<1>7. CASE CreateSnapshot
  BY <1>7, <1>c DEF CreateSnapshot, Types, content, changes, InMemory
<1>8. CASE Load
  <2>1. \E g \in Graph, version \in {0, 1} : Holds(g, version)
    BY <1>8, <1>b DEF Load, LoadFresh, LoadJson, LoadDatabase, Import
  <2>2. MarksAll(TheOnly(json)) \in Graph
    BY <1>b, UpsertedType DEF MarksAll
  <2>3. IsFile(json') /\ IsFile(db') /\ IsFile(snapshot')
    BY <1>8, <1>c, <2>2 DEF Types, Load, LoadFresh, LoadJson, LoadDatabase, Import, files
  <2> QED BY <1>8, <2>1, <2>3, FreshTypes DEF Load, Types
<1>9. CASE Exit
  BY <1>9, <1>b, FreshTypes DEF Exit, Types, files
<1>10. CASE RestoreSnapshot
  <2>1. PICK g \in snapshot :
          /\ Holds(g, 1)
          /\ IF backend = "json" THEN json' = {g} /\ UNCHANGED db
             ELSE db' = {Upserted(TheOnly(db), g, {}, DOMAIN g.nodes, TRUE)} /\ UNCHANGED json
    BY <1>10 DEF RestoreSnapshot
  <2>2. g \in Graph
    BY DEF Types, IsFile
  <2>3. Upserted(TheOnly(db), g, {}, DOMAIN g.nodes, TRUE) \in Graph
    BY <1>b, <2>2, UpsertedType
  <2>4. IsFile(json') /\ IsFile(db') /\ IsFile(snapshot')
    BY <1>10, <1>c, <2>1, <2>2, <2>3 DEF RestoreSnapshot, Types
  <2> QED BY <1>10, <2>1, <2>2, <2>4, FreshTypes DEF RestoreSnapshot, Types
<1>11. CASE ImportDies \/ UNCHANGED vars
  BY <1>11, <1>b, <1>c DEF ImportDies, vars, content, changes, files, Types, InMemory
<1> QED BY <1>1, <1>2, <1>3, <1>4, <1>5, <1>6, <1>7, <1>8, <1>9, <1>10, <1>11
        DEF AnyNext, Calm, Mutate

-----------------------------------------------------------------------------
(* Refinement *)

CoverInv == Types /\ backend \in {"json", "sqlite"} /\ ChangesCoverDifference

(* What a store promises to survive is among what can happen to it.        *)
LEMMA NextIsAny == [Next]_vars => [AnyNext]_vars
BY DEF Next, Whole, AnyNext

(* The store in use is configured once.                                    *)
LEMMA BackendStays == [AnyNext]_vars => backend' = backend
<1> SUFFICES ASSUME [AnyNext]_vars PROVE backend' = backend
  OBVIOUS
<1>1. CASE Mutate
  BY <1>1 DEF Mutate, AddNode, ChangeNode, AddEdge, RemoveNode, files
<1>2. CASE Load \/ Save \/ SaveFails \/ RestoreSnapshot
  BY <1>2 DEF Load, LoadFresh, LoadJson, LoadDatabase, Import, Save, JsonSave, SqliteSave,
              SaveFails, RestoreSnapshot, files
<1>3. CASE Read \/ CreateSnapshot \/ Exit \/ ImportDies \/ UNCHANGED vars
  BY <1>3 DEF Read, EmbeddingMatrix, LexicalIndex, CreateSnapshot, Exit, ImportDies, files, vars
<1> QED BY <1>1, <1>2, <1>3 DEF AnyNext, Calm

(* Nothing differs at first.                                               *)
LEMMA InitCovers == Init => CoverInv
<1> SUFFICES ASSUME Init PROVE CoverInv
  OBVIOUS
<1>1. InMemory = EmptyGraph
  BY DEF Init, InMemory, EmptyGraph
<1>2. IsFile(json)
  BY LegacyGraphs DEF Init, IsFile
<1> QED BY <1>1, <1>2, EmptyIsGraph, BackendsKnown DEF Init, CoverInv, Types, IsFile, EmptyGraph,
                                        ChangesCoverDifference

(* Right after a load of the table nothing is dirty and nothing differs.   *)
LEMMA SameAsTable ==
  ASSUME NEW g, Holds(g, 0) \/ Holds(g, 1), TheOnly(db)' = g
  PROVE  ChangesCoverDifference'
BY DEF Holds, ChangesCoverDifference

(* So an incremental save writes the whole graph, ...                      *)
LEMMA SaveWritesAll ==
  ASSUME CoverInv, alive, backend = "sqlite"
  PROVE  Upserted(TheOnly(db), InMemory, removed, dirty, edgesDirty) = InMemory
<1>1. TheOnly(db) \in Graph /\ InMemory \in Graph
  BY FileHoldsGraph DEF CoverInv, Types
<1>2. InMemory.nodes = nodes /\ InMemory.edges = edges
  BY DEF InMemory
<1>3. dirty \subseteq DOMAIN nodes /\ removed \cap DOMAIN nodes = {} /\ edgesDirty \in BOOLEAN
  BY DEF CoverInv, Types
<1>4. /\ \A i \in Ids \ (dirty \cup removed) :
           /\ i \in DOMAIN nodes <=> i \in DOMAIN TheOnly(db).nodes
           /\ i \in DOMAIN nodes => nodes[i] = TheOnly(db).nodes[i]
      /\ ~edgesDirty => edges = TheOnly(db).edges
  BY DEF CoverInv, ChangesCoverDifference
<1> DEFINE table == TheOnly(db)
           g == InMemory
<1>5. /\ dirty \subseteq DOMAIN g.nodes /\ removed \cap DOMAIN g.nodes = {}
      /\ \A i \in Ids \ (dirty \cup removed) :
           /\ i \in DOMAIN g.nodes <=> i \in DOMAIN table.nodes
           /\ i \in DOMAIN g.nodes => g.nodes[i] = table.nodes[i]
      /\ ~edgesDirty => g.edges = table.edges
      /\ table \in Graph /\ g \in Graph /\ edgesDirty \in BOOLEAN
  BY <1>1, <1>2, <1>3, <1>4
<1> HIDE DEF table, g
<1>6. Upserted(table, g, removed, dirty, edgesDirty) = g
  BY ONLY <1>5, IncrementalSaveIsFull
<1> QED BY <1>6 DEF table, g

(* ... and so does an import, which marks everything.                      *)
LEMMA ImportWritesAll ==
  ASSUME NEW g \in Graph PROVE MarksAll(g) = g
<1> DEFINE none == {}
           all == DOMAIN g.nodes
           everything == TRUE
<1>1. all \in SUBSET Ids /\ DOMAIN EmptyGraph.nodes = {}
  BY GraphShape DEF EmptyGraph
<1>2. /\ all \subseteq DOMAIN g.nodes /\ none \cap DOMAIN g.nodes = {}
      /\ \A i \in Ids \ (all \cup none) :
           /\ i \in DOMAIN g.nodes <=> i \in DOMAIN EmptyGraph.nodes
           /\ i \in DOMAIN g.nodes => g.nodes[i] = EmptyGraph.nodes[i]
      /\ everything \in BOOLEAN
      /\ ~everything => g.edges = EmptyGraph.edges
  BY <1>1
<1> HIDE DEF none, all, everything
<1>3. Upserted(EmptyGraph, g, none, all, everything) = g
  BY ONLY <1>2, g \in Graph, EmptyIsGraph, IncrementalSaveIsFull
<1> QED BY <1>3 DEF MarksAll, none, all, everything

(* No step changes the graph behind the change sets' back.                 *)
LEMMA CoverStep == CoverInv /\ [Next]_vars => CoverInv'
<1>a. [Next]_vars => backend' = backend
  BY NextIsAny, BackendStays
<1> SUFFICES ASSUME CoverInv, [Next]_vars PROVE ChangesCoverDifference'
  BY <1>a, NextIsAny, TypesStep DEF CoverInv
<1> SUFFICES ASSUME backend = "sqlite" PROVE ChangesCoverDifference'
  BY <1>a DEF ChangesCoverDifference
<1> USE DEF CoverInv
<1>1. ASSUME NEW id \in Ids, NEW v \in Values, AddNode(id, v) PROVE ChangesCoverDifference'
  BY <1>1 DEF AddNode, ChangesCoverDifference, files
<1>2. ASSUME NEW id \in Ids, NEW v \in Values, ChangeNode(id, v) PROVE ChangesCoverDifference'
  BY <1>2 DEF ChangeNode, Marks, ChangesCoverDifference, files
<1>3. ASSUME NEW e \in Links, AddEdge(e) PROVE ChangesCoverDifference'
  BY <1>3 DEF AddEdge, ChangesCoverDifference, files
<1>4. ASSUME NEW id \in Ids, RemoveNode(id) PROVE ChangesCoverDifference'
  BY <1>4 DEF RemoveNode, ChangesCoverDifference, files, Types
<1>5. CASE Read \/ CreateSnapshot \/ UNCHANGED vars
  BY <1>5 DEF Read, EmbeddingMatrix, LexicalIndex, CreateSnapshot, vars, content, changes, files,
              ChangesCoverDifference
<1>6. CASE Save
  <2>1. db' = {InMemory} /\ UNCHANGED content
    BY <1>6, SaveWritesAll DEF Save, SqliteSave
  <2>2. TheOnly(db)' = InMemory
    BY <2>1, TheOnlyOne
  <2> QED BY <2>1, <2>2 DEF ChangesCoverDifference, InMemory, content
<1>7. CASE Load
  <2>1. TheOnly(json) \in Graph /\ TheOnly(db) \in Graph
    BY FileHoldsGraph DEF Types
  <2>2. CASE LoadFresh
    <3>1. db' = {}
      BY <2>2 DEF LoadFresh, files
    <3> QED BY <2>2, <3>1, TheOnlyOne, SameAsTable DEF LoadFresh
  <2>3. CASE LoadDatabase
    BY <2>3, SameAsTable DEF LoadDatabase, files
  <2>4. CASE Import
    <3>1. TheOnly(db)' = TheOnly(json)
      BY <2>1, <2>4, TheOnlyOne, ImportWritesAll DEF Import
    <3> QED BY <2>4, <3>1, SameAsTable DEF Import
  <2> QED BY <1>7, <2>2, <2>3, <2>4 DEF Load, LoadJson
<1>8. CASE Exit
  BY <1>8 DEF Exit, ChangesCoverDifference
<1> QED BY <1>1, <1>2, <1>3, <1>4, <1>5, <1>6, <1>7, <1>8 DEF Next, Whole, Calm, Mutate

(* Every step of Next is a step, or no step, of DurableGraph.              *)
LEMMA RefineStep ==
  CoverInv /\ [Next]_vars =>
    [Durable!Next]_<<IF alive THEN InMemory ELSE Stored, Stored>>
<1> SUFFICES ASSUME CoverInv, [Next]_vars
             PROVE  [Durable!Next]_<<IF alive THEN InMemory ELSE Stored, Stored>>
  OBVIOUS
<1>1. Types' /\ backend' = backend
  BY NextIsAny, TypesStep, BackendStays DEF CoverInv
<1>2. UNCHANGED files => Stored' = Stored
  BY DEF files, Stored
<1>3. CASE Mutate
  <2>1. alive /\ alive' /\ UNCHANGED files
    <3>1. ASSUME NEW id \in Ids, NEW v \in Values, AddNode(id, v)
          PROVE  alive /\ alive' /\ UNCHANGED files
      BY <3>1 DEF AddNode
    <3>2. ASSUME NEW id \in Ids, NEW v \in Values, ChangeNode(id, v)
          PROVE  alive /\ alive' /\ UNCHANGED files
      BY <3>2 DEF ChangeNode
    <3>3. ASSUME NEW id \in Ids, RemoveNode(id) PROVE alive /\ alive' /\ UNCHANGED files
      BY <3>3 DEF RemoveNode
    <3>4. ASSUME NEW e \in Links, AddEdge(e) PROVE alive /\ alive' /\ UNCHANGED files
      BY <3>4 DEF AddEdge
    <3> QED BY <1>3, <3>1, <3>2, <3>3, <3>4 DEF Mutate
  <2>2. InMemory' \in Graph /\ Stored' = Stored
    BY <1>1, <1>2, <2>1 DEF Types
  <2> QED BY <2>1, <2>2 DEF Durable!Next, Durable!Update
<1>4. CASE Read \/ CreateSnapshot \/ UNCHANGED vars
  <2>1. UNCHANGED <<alive, content, json, db>>
    BY <1>4 DEF Read, EmbeddingMatrix, LexicalIndex, CreateSnapshot, vars, files
  <2> QED BY <1>1, <2>1 DEF content, InMemory, Stored
<1>5. CASE Save
  <2>1. alive /\ alive' /\ InMemory' = InMemory
    BY <1>5 DEF Save, content, InMemory
  <2>2. Stored' = InMemory
    <3>1. CASE backend = "json"
      BY <1>1, <1>5, <3>1, TheOnlyOne DEF Save, JsonSave, Stored
    <3>2. CASE backend = "sqlite"
      BY <1>1, <1>5, <2>1, <3>2, SaveWritesAll, TheOnlyOne DEF Save, SqliteSave, Stored
    <3> QED BY <3>1, <3>2 DEF CoverInv
  <2> QED BY <2>1, <2>2 DEF Durable!Next, Durable!Save
<1>6. CASE Load
  <2>1. TheOnly(json) \in Graph /\ TheOnly(db) \in Graph
    BY FileHoldsGraph DEF CoverInv, Types
  <2>2. Stored' = Stored /\ InMemory' = Stored
    <3>1. CASE LoadFresh \/ LoadJson \/ LoadDatabase
      BY <2>1, <3>1, <1>2, EmptyIsGraph, HoldsType, TheOnlyOne
         DEF CoverInv, LoadFresh, LoadJson, LoadDatabase, Stored
    <3>2. CASE Import
      BY <2>1, <3>2, TheOnlyOne, HoldsType, ImportWritesAll DEF Import, Stored
    <3> QED BY <1>6, <3>1, <3>2 DEF Load
  <2> QED BY <1>6, <2>2 DEF Load
<1>7. CASE Exit
  BY <1>2, <1>7 DEF Exit, Durable!Next, Durable!Reload
<1>8. CASE Whole /\ SaveFails
  <2>1. UNCHANGED <<alive, content, files>>
    BY <1>8 DEF Whole, SaveFails, files
  <2> QED BY <1>2, <2>1 DEF content, InMemory
<1>9. CASE Whole /\ RestoreSnapshot
  <2>1. PICK g \in snapshot : Holds(g, 1) /\ json' = {g}
    BY <1>9 DEF Whole, RestoreSnapshot
  <2>2. g \in Graph /\ alive /\ alive'
    BY <1>9 DEF CoverInv, Types, IsFile, RestoreSnapshot
  <2>3. InMemory' = g /\ Stored' = g
    BY <1>1, <1>9, <2>1, <2>2, HoldsType, TheOnlyOne DEF Whole, Stored
  <2> QED BY <2>2, <2>3 DEF Durable!Next, Durable!Restore
<1> QED BY <1>3, <1>4, <1>5, <1>6, <1>7, <1>8, <1>9 DEF Next, Calm, Whole

(* The first state is DurableGraph's.                                      *)
LEMMA InitRefines == Init => Durable!Init
<1> SUFFICES ASSUME Init PROVE Durable!Init
  OBVIOUS
<1>1. Types
  BY InitCovers DEF CoverInv
<1>2. Stored \in Graph
  BY <1>1, FileHoldsGraph DEF Types, Stored
<1> QED BY <1>2 DEF Init, Durable!Init

(* Whatever the process changes and whenever it dies, the change sets name *)
(* every difference between the graph and the SQLite table                 *)
(* (ChangesCoverDifference).                                               *)
THEOREM NothingUnmarkedDiffers == Spec => []ChangesCoverDifference
<1>1. Spec => []CoverInv
  BY InitCovers, CoverStep, PTL DEF Spec
<1> QED BY <1>1, PTL DEF CoverInv

(* Either store, writing incrementally or not, implements DurableGraph     *)
(* (ImplementsDurableGraph).                                               *)
THEOREM StoreIsDurable == Spec => ImplementsDurableGraph
<1>1. Spec => []CoverInv
  BY InitCovers, CoverStep, PTL DEF Spec
<1> QED BY <1>1, InitRefines, RefineStep, PTL
        DEF Spec, ImplementsDurableGraph, Durable!Spec


-----------------------------------------------------------------------------
(* Caches.  A version that an index has seen does not come again, because  *)
(* it only grows while the index lives.                                    *)
CacheInv ==
  /\ CachesAreCurrent
  /\ contentVersion \in Nat
  /\ \A index \in bm25 : index.version \in Nat /\ index.version <= contentVersion

(* Every step keeps the caches current or raises the version.              *)
LEMMA CacheStep == CacheInv /\ [AnyNext]_vars => CacheInv'
<1> SUFFICES ASSUME CacheInv, [AnyNext]_vars PROVE CacheInv'
  OBVIOUS
<1> USE DEF CacheInv, CachesAreCurrent
<1>1. ASSUME NEW g, NEW version \in Nat, Holds(g, version) PROVE CacheInv'
  BY <1>1 DEF Holds
<1>2. ASSUME ContentChanged PROVE CacheInv'
  BY <1>2 DEF ContentChanged
<1>3. ASSUME DOMAIN nodes' = DOMAIN nodes, UNCHANGED caches PROVE CacheInv'
  BY <1>3 DEF caches
<1>4. CASE Mutate
  <2>1. ASSUME NEW id \in Ids, NEW v \in Values, ChangeNode(id, v) PROVE CacheInv'
    BY <1>3, <2>1 DEF ChangeNode
  <2>2. ASSUME NEW e \in Links, AddEdge(e) PROVE CacheInv'
    BY <1>3, <2>2 DEF AddEdge
  <2> QED BY <1>2, <1>4, <2>1, <2>2 DEF Mutate, AddNode, RemoveNode
<1>5. CASE EmbeddingMatrix
  BY <1>5 DEF EmbeddingMatrix, content
<1>6. CASE LexicalIndex
  BY <1>6 DEF LexicalIndex, content
<1>7. CASE Load \/ Exit \/ RestoreSnapshot
  BY <1>1, <1>7 DEF Load, LoadFresh, LoadJson, LoadDatabase, Import, Exit, RestoreSnapshot
<1>8. CASE Save \/ SaveFails \/ CreateSnapshot \/ ImportDies \/ UNCHANGED vars
  BY <1>3, <1>8 DEF Save, SaveFails, CreateSnapshot, ImportDies, vars, content
<1> QED BY <1>4, <1>5, <1>6, <1>7, <1>8 DEF AnyNext, Calm, Read

(* An index or a matrix that a query would reuse covers exactly the nodes  *)
(* of the graph (CachesAreCurrent), whatever is added, removed, loaded or  *)
(* restored, and whatever fails.                                           *)
THEOREM CachesNeverLag == AnySpec => []CachesAreCurrent
<1>1. Init => CacheInv
  BY DEF Init, CacheInv, CachesAreCurrent
<1>2. CacheInv => CachesAreCurrent
  BY DEF CacheInv
<1> QED BY <1>1, <1>2, CacheStep, PTL DEF AnySpec

-----------------------------------------------------------------------------
(* Edges.  A graph is sane if its edges join its nodes.  So is every graph *)
(* in memory and in a file: a removed node takes the edges with it that    *)
(* the adjacency index names, and a save writes the whole graph.           *)
Sane(g) == \A e \in g.edges : Ends(e) \subseteq DOMAIN g.nodes
SaneInv ==
  /\ Sane(InMemory) /\ Sane(TheOnly(json)) /\ Sane(TheOnly(db))
  /\ \A g \in snapshot : Sane(g)

(* Every step keeps all graphs sane.                                       *)
LEMMA SaneStep == CoverInv /\ IndexMatchesEdges /\ SaneInv /\ [Next]_vars => SaneInv'
<1> SUFFICES ASSUME CoverInv, IndexMatchesEdges, SaneInv, [Next]_vars PROVE SaneInv'
  OBVIOUS
<1>a. /\ InMemory \in Graph /\ TheOnly(json) \in Graph /\ TheOnly(db) \in Graph
      /\ InMemory.nodes = nodes /\ InMemory.edges = edges
      /\ InMemory'.nodes = nodes' /\ InMemory'.edges = edges'
      /\ Sane(EmptyGraph)
  BY FileHoldsGraph DEF CoverInv, Types, InMemory, Sane, EmptyGraph
<1>b. ASSUME UNCHANGED files, Sane(InMemory') PROVE SaneInv'
  BY <1>b DEF SaneInv, files
<1>1. ASSUME NEW id \in Ids, NEW v \in Values, AddNode(id, v) \/ ChangeNode(id, v) PROVE SaneInv'
  <2>1. DOMAIN nodes \subseteq DOMAIN nodes' /\ edges' = edges /\ UNCHANGED files
    BY <1>1, <1>a, GraphShape DEF AddNode, ChangeNode
  <2> QED BY <1>a, <1>b, <2>1 DEF SaneInv, Sane
<1>2. ASSUME NEW e \in Links, AddEdge(e) PROVE SaneInv'
  <2>1. nodes' = nodes /\ edges' = edges \cup {e} /\ Ends(e) \subseteq DOMAIN nodes /\ UNCHANGED files
    BY <1>2 DEF AddEdge
  <2> QED BY <1>a, <1>b, <2>1 DEF SaneInv, Sane
<1>3. ASSUME NEW id \in Ids, RemoveNode(id) PROVE SaneInv'
  <2>1. /\ DOMAIN nodes' = DOMAIN nodes \ {id} /\ UNCHANGED files
        /\ edges' = edges \ {e \in edges : id \in Ends(e)}
    BY <1>3 DEF RemoveNode, IndexMatchesEdges
  <2>2. \A e \in edges' : e \in edges /\ id \notin Ends(e)
    BY <2>1
  <2> QED BY <1>a, <1>b, <2>1, <2>2 DEF SaneInv, Sane
<1>4. CASE Read \/ UNCHANGED vars
  BY <1>4, <1>b DEF Read, EmbeddingMatrix, LexicalIndex, vars, content, InMemory, SaneInv
<1>5. CASE Exit
  <2>1. InMemory' = EmptyGraph
    BY <1>5, EmptyIsGraph, HoldsType DEF Exit
  <2> QED BY <1>5, <1>a, <1>b, <2>1 DEF Exit
<1>6. CASE Save
  <2>1. /\ InMemory' = InMemory /\ UNCHANGED snapshot
        /\ \/ json' = {InMemory} /\ db' = db
           \/ db' = {InMemory} /\ json' = json
    <3>1. InMemory' = InMemory /\ alive
      BY <1>6 DEF Save, content, InMemory
    <3>2. CASE backend = "json"
      BY <1>6, <3>1, <3>2 DEF Save, JsonSave
    <3>3. CASE backend = "sqlite"
      BY <1>6, <3>1, <3>3, SaveWritesAll DEF Save, SqliteSave
    <3> QED BY <3>2, <3>3 DEF CoverInv
  <2> QED BY <2>1, TheOnlyOne DEF SaneInv
<1>7. CASE CreateSnapshot
  <2>1. InMemory' = InMemory /\ snapshot' = {InMemory} /\ json' = json /\ db' = db
    BY <1>7 DEF CreateSnapshot, content, InMemory
  <2> QED BY <2>1 DEF SaneInv
<1>8. CASE Load
  <2>1. PICK g \in {EmptyGraph, TheOnly(json), TheOnly(db)}, version \in {0, 1} : Holds(g, version)
    BY <1>8 DEF Load, LoadFresh, LoadJson, LoadDatabase, Import
  <2>2. InMemory' = g /\ Sane(g)
    BY <1>a, <2>1, EmptyIsGraph, HoldsType DEF SaneInv
  <2>3. UNCHANGED <<json, snapshot>> /\ (db' = db \/ db' = {TheOnly(json)})
    BY <1>8, <1>a, ImportWritesAll DEF Load, LoadFresh, LoadJson, LoadDatabase, Import, files
  <2> QED BY <2>2, <2>3, TheOnlyOne DEF SaneInv
<1>9. CASE Whole
  <2>1. CASE SaveFails
    BY <1>9, <1>b, <2>1 DEF Whole, SaveFails, content, InMemory, SaneInv, files
  <2>2. CASE RestoreSnapshot
    <3>1. PICK g \in snapshot : Holds(g, 1) /\ json' = {g} /\ db' = db /\ snapshot' = snapshot
      BY <1>9, <2>2 DEF Whole, RestoreSnapshot
    <3>2. g \in Graph /\ Sane(g)
      BY DEF CoverInv, Types, IsFile, SaneInv
    <3>3. InMemory' = g
      BY <3>1, <3>2, HoldsType
    <3> QED BY <3>1, <3>2, <3>3, TheOnlyOne DEF SaneInv
  <2> QED BY <1>9, <2>1, <2>2 DEF Whole
<1> QED BY <1>1, <1>2, <1>3, <1>4, <1>5, <1>6, <1>7, <1>8, <1>9 DEF Next, Calm, Mutate

(* No edge outlives its nodes, in memory or in the stored graph            *)
(* (NoDanglingEdges), under everything a store promises to survive.        *)
THEOREM EdgesNeverDangle == Spec => []NoDanglingEdges
<1>1. Init => SaneInv
  <2> SUFFICES ASSUME Init PROVE SaneInv
    OBVIOUS
  <2>1. Sane(EmptyGraph)
    BY DEF Sane, EmptyGraph
  <2>2. InMemory = EmptyGraph /\ TheOnly(db) = EmptyGraph /\ snapshot = {}
    BY TheOnlyOne DEF Init, InMemory, EmptyGraph
  <2>3. Sane(TheOnly(json))
    <3>1. CASE json = {}
      BY <2>1, <3>1, TheOnlyOne
    <3>2. ASSUME NEW g \in Legacy, json = {g} PROVE Sane(TheOnly(json))
      BY <3>2, TheOnlyOne, LegacyGraphs DEF Sane, Ends
    <3> QED BY <3>1, <3>2 DEF Init
  <2> QED BY <2>1, <2>2, <2>3 DEF SaneInv
<1>2. SaneInv => NoDanglingEdges
  BY DEF SaneInv, Sane, NoDanglingEdges, Stored
<1>3. Spec => []CoverInv
  BY InitCovers, CoverStep, PTL DEF Spec
<1>4. Spec => []IndexMatchesEdges
  <2>1. Init => IndexMatchesEdges
    BY DEF Init, IndexMatchesEdges
  <2> QED BY <2>1, NextIsAny, IndexStep, PTL DEF Spec
<1> QED BY <1>1, <1>2, <1>3, <1>4, SaneStep, PTL DEF Spec


-----------------------------------------------------------------------------
(* The whole type invariant.  Ids are never issued twice: every node, in   *)
(* memory or in a file, has an id that was.                                *)
Issued ==
  /\ used \in SUBSET Ids /\ DOMAIN nodes \subseteq used
  /\ DOMAIN TheOnly(json).nodes \subseteq used /\ DOMAIN TheOnly(db).nodes \subseteq used
  /\ \A g \in snapshot : DOMAIN g.nodes \subseteq used
Fields ==
  /\ backend \in Backends /\ alive \in BOOLEAN /\ stale \in BOOLEAN
  /\ edgesByNode \in [Ids -> SUBSET Links] /\ contentVersion \in Nat /\ matrix \in SUBSET Ids
  /\ bm25 = {} \/ \E v \in Nat, D \in SUBSET Ids : bm25 = {[version |-> v, ids |-> D]}
ShapeInv == Types /\ Fields /\ Issued

(* A save into a table brings no other node than the graph's.              *)
LEMMA UpsertedIds ==
  ASSUME NEW old, NEW g, NEW doomed, NEW named, NEW edgesNamed
  PROVE  DOMAIN Upserted(old, g, doomed, named, edgesNamed).nodes
           \subseteq DOMAIN old.nodes \cup DOMAIN g.nodes
BY DEF Upserted

(* Every step issues fresh ids or none.                                    *)
LEMMA IssuedStep == Types /\ Issued /\ [AnyNext]_vars => Issued'
<1> SUFFICES ASSUME Types, Issued, [AnyNext]_vars PROVE Issued'
  OBVIOUS
<1>a. DOMAIN EmptyGraph.nodes = {} /\ TheOnly({}) = EmptyGraph /\ InMemory.nodes = nodes
  BY TheOnlyOne DEF EmptyGraph, InMemory
<1>b. ASSUME UNCHANGED files, used \subseteq used', used' \in SUBSET Ids, DOMAIN nodes' \subseteq used'
      PROVE  Issued'
  BY <1>b DEF Issued, files
<1>1. ASSUME NEW id \in Ids, NEW v \in Values, AddNode(id, v) PROVE Issued'
  BY <1>1, <1>b DEF AddNode, Issued
<1>2. ASSUME NEW id \in Ids, NEW v \in Values, ChangeNode(id, v) PROVE Issued'
  BY <1>2, <1>b DEF ChangeNode, Issued
<1>3. ASSUME NEW e \in Links, AddEdge(e) PROVE Issued'
  BY <1>3, <1>b DEF AddEdge, Issued
<1>4. ASSUME NEW id \in Ids, RemoveNode(id) PROVE Issued'
  BY <1>4, <1>b DEF RemoveNode, Issued
<1>5. CASE Read \/ UNCHANGED vars
  BY <1>5, <1>b DEF Read, EmbeddingMatrix, LexicalIndex, vars, content, Issued
<1>6. CASE Save \/ SaveFails
  <2>1. /\ UNCHANGED <<used, snapshot>> /\ nodes' = nodes
        /\ json' \in {json, {InMemory}}
        /\ db' \in {db, {TheOnly(db)}, {Upserted(TheOnly(db), InMemory, removed, dirty, edgesDirty)}}
    BY <1>6 DEF Save, SaveFails, JsonSave, SqliteSave, content
  <2>2. DOMAIN Upserted(TheOnly(db), InMemory, removed, dirty, edgesDirty).nodes \subseteq used
    BY <1>a, UpsertedIds DEF Issued
  <2>3. DOMAIN TheOnly(json').nodes \subseteq used
    BY <1>a, <2>1, TheOnlyOne DEF Issued
  <2>4. DOMAIN TheOnly(db').nodes \subseteq used
    BY <2>1, <2>2, TheOnlyOne DEF Issued
  <2> QED BY <2>1, <2>3, <2>4 DEF Issued
<1>7. CASE CreateSnapshot
  BY <1>7, <1>a DEF CreateSnapshot, content, Issued
<1>8. CASE Load
  <2>1. PICK g \in {EmptyGraph, TheOnly(json), TheOnly(db)}, version \in {0, 1} : Holds(g, version)
    BY <1>8 DEF Load, LoadFresh, LoadJson, LoadDatabase, Import
  <2>2. DOMAIN nodes' \subseteq used
    BY <1>a, <2>1 DEF Holds, Issued
  <2>3. UNCHANGED <<json, snapshot, used>> /\ db' \in {db, {MarksAll(TheOnly(json))}}
    BY <1>8 DEF Load, LoadFresh, LoadJson, LoadDatabase, Import, files
  <2>4. DOMAIN MarksAll(TheOnly(json)).nodes \subseteq used
    BY <1>a, UpsertedIds DEF MarksAll, Issued
  <2>5. DOMAIN TheOnly(db').nodes \subseteq used
    BY <2>3, <2>4, TheOnlyOne DEF Issued
  <2> QED BY <2>2, <2>3, <2>5 DEF Issued
<1>9. CASE Exit
  BY <1>9, <1>a, <1>b DEF Exit, Holds, Issued
<1>10. CASE RestoreSnapshot
  <2>1. PICK g \in snapshot :
          /\ Holds(g, 1) /\ UNCHANGED <<snapshot, used>>
          /\ json' \in {json, {g}}
          /\ db' \in {db, {Upserted(TheOnly(db), g, {}, DOMAIN g.nodes, TRUE)}}
    BY <1>10 DEF RestoreSnapshot
  <2>2. DOMAIN g.nodes \subseteq used
    BY DEF Issued
  <2>3. DOMAIN Upserted(TheOnly(db), g, {}, DOMAIN g.nodes, TRUE).nodes \subseteq used
    BY <2>2, UpsertedIds DEF Issued
  <2>4. DOMAIN TheOnly(json').nodes \subseteq used
    BY <2>1, <2>2, TheOnlyOne DEF Issued
  <2>5. DOMAIN TheOnly(db').nodes \subseteq used
    BY <2>1, <2>3, TheOnlyOne DEF Issued
  <2> QED BY <2>1, <2>2, <2>4, <2>5 DEF Holds, Issued
<1>11. CASE ImportDies
  <2>1. UNCHANGED <<json, snapshot, used, nodes>> /\ db' = {EmptyGraph}
    BY <1>11 DEF ImportDies, content
  <2>2. DOMAIN TheOnly(db').nodes \subseteq used
    BY <1>a, <2>1, TheOnlyOne
  <2> QED BY <2>1, <2>2 DEF Issued
<1> QED BY <1>1, <1>2, <1>3, <1>4, <1>5, <1>6, <1>7, <1>8, <1>9, <1>10, <1>11
        DEF AnyNext, Calm, Mutate

(* Every step keeps the fields of the graph object what they are.          *)
LEMMA FieldsStep == Types /\ Fields /\ [AnyNext]_vars => Fields'
<1> SUFFICES ASSUME Types, Fields, [AnyNext]_vars PROVE Fields'
  OBVIOUS
<1>a. backend' \in Backends
  BY BackendStays DEF Fields
<1>b. DOMAIN nodes \in SUBSET Ids /\ edges \in SUBSET Links
  BY GraphShape DEF Types, InMemory
<1>c. ASSUME NEW g \in Graph, NEW version \in Nat, Holds(g, version), alive' \in BOOLEAN PROVE Fields'
  <2>1. g.edges \in SUBSET Links
    BY GraphShape
  <2> QED BY <1>a, <1>c, <2>1 DEF Fields, Holds
<1>1. ASSUME NEW id \in Ids, NEW x \in Values, AddNode(id, x) \/ ChangeNode(id, x) PROVE Fields'
  <2>1. /\ UNCHANGED <<alive, edgesByNode, matrix, bm25>> /\ stale' \in {stale, TRUE}
        /\ contentVersion' \in {contentVersion, contentVersion + 1}
    BY <1>1 DEF AddNode, ChangeNode, ContentChanged, caches
  <2>2. stale' \in BOOLEAN
    <3>1. CASE stale' = stale
      BY <3>1, Zenon DEF Fields
    <3>2. CASE stale' = TRUE
      BY <3>2, Zenon
    <3> QED BY <2>1, <3>1, <3>2, Zenon
  <2>5. contentVersion' \in Nat
    <3>1. contentVersion \in Nat
      BY DEF Fields
    <3>2. contentVersion' = contentVersion \/ contentVersion' = contentVersion + 1
      BY <2>1, Zenon
    <3> QED BY <3>1, <3>2
  <2>3. /\ alive' \in BOOLEAN /\ edgesByNode' \in [Ids -> SUBSET Links] /\ matrix' \in SUBSET Ids
        /\ bm25' = {} \/ \E v \in Nat, D \in SUBSET Ids : bm25' = {[version |-> v, ids |-> D]}
    BY <2>1, Zenon DEF Fields
  <2> QED BY <1>a, <2>2, <2>3, <2>5, Zenon DEF Fields
<1>2. ASSUME NEW e \in Links, AddEdge(e) PROVE Fields'
  <2>1. edgesByNode' \in [Ids -> SUBSET Links]
    BY <1>2 DEF AddEdge, Fields
  <2> QED BY <1>a, <1>2, <2>1 DEF AddEdge, caches, Fields
<1>3. ASSUME NEW id \in Ids, RemoveNode(id) PROVE Fields'
  <2> DEFINE doomed == edgesByNode[id]
  <2>1. CleansOtherEnds(id, doomed)
    BY <1>3 DEF RemoveNode
  <2> HIDE DEF doomed
  <2>2. DOMAIN edgesByNode' = Ids /\ edgesByNode' = [i \in Ids |-> edgesByNode'[i]]
    BY <2>1 DEF CleansOtherEnds
  <2>3. ASSUME NEW i \in Ids PROVE edgesByNode'[i] \in SUBSET Links
    <3>1. CASE i = id
      BY <2>1, <3>1 DEF CleansOtherEnds
    <3>2. CASE i # id /\ i \in UNION {Ends(e) : e \in doomed}
      BY <2>1, <3>2 DEF CleansOtherEnds, Fields
    <3>3. CASE i # id /\ i \notin UNION {Ends(e) : e \in doomed}
      BY <2>1, <3>3 DEF CleansOtherEnds, Fields
    <3> QED BY <3>1, <3>2, <3>3
  <2>4. edgesByNode' \in [Ids -> SUBSET Links]
    BY <2>2, <2>3
  <2> QED BY <1>a, <1>3, <2>4 DEF RemoveNode, ContentChanged, Fields
<1>4. CASE EmbeddingMatrix
  BY <1>a, <1>b, <1>4 DEF EmbeddingMatrix, content, Fields
<1>5. CASE LexicalIndex
  <2>1. \E v \in Nat, D \in SUBSET Ids : bm25' = {[version |-> v, ids |-> D]}
    <3>1. bm25' = {[version |-> contentVersion, ids |-> DOMAIN nodes]} /\ contentVersion \in Nat
      BY <1>5 DEF LexicalIndex, Fields
    <3> QED BY <1>b, <3>1
  <2> QED BY <1>a, <1>5, <2>1 DEF LexicalIndex, content, Fields
<1>6. CASE Save \/ SaveFails \/ CreateSnapshot \/ ImportDies \/ UNCHANGED vars
  BY <1>a, <1>6 DEF Save, SaveFails, CreateSnapshot, ImportDies, vars, content, caches, Fields
<1>7. CASE Load
  <2>1. \E g \in Graph, version \in {0, 1} : Holds(g, version)
    BY <1>7, FileHoldsGraph, EmptyIsGraph DEF Types, Load, LoadFresh, LoadJson, LoadDatabase, Import
  <2> QED BY <1>c, <1>7, <2>1 DEF Load
<1>8. CASE Exit
  BY <1>c, <1>8, EmptyIsGraph DEF Exit
<1>9. CASE RestoreSnapshot
  <2>1. \E g \in Graph : Holds(g, 1)
    BY <1>9 DEF RestoreSnapshot, Types, IsFile
  <2> QED BY <1>c, <1>9, <2>1 DEF RestoreSnapshot
<1> QED BY <1>1, <1>2, <1>3, <1>4, <1>5, <1>6, <1>7, <1>8, <1>9 DEF AnyNext, Calm, Mutate, Read

(* The parts give the type invariant.                                      *)
LEMMA ShapeMeans == ShapeInv => TypeOK
<1> SUFFICES ASSUME ShapeInv PROVE TypeOK
  OBVIOUS
<1>1. ASSUME NEW file, IsFile(file) PROVE file \subseteq Graph /\ Cardinality(file) <= 1
  <2>1. CASE file = {}
    BY <2>1, FS_EmptySet
  <2>2. ASSUME NEW g \in Graph, file = {g} PROVE file \subseteq Graph /\ Cardinality(file) <= 1
    BY <2>2, FS_Singleton
  <2> QED BY <1>1, <2>1, <2>2 DEF IsFile
<1>2. bm25 \in SUBSET [version : Nat, ids : SUBSET Ids] /\ Cardinality(bm25) <= 1
  <2>1. CASE bm25 = {}
    BY <2>1, FS_EmptySet
  <2>2. ASSUME NEW v \in Nat, NEW D \in SUBSET Ids, bm25 = {[version |-> v, ids |-> D]}
        PROVE  bm25 \in SUBSET [version : Nat, ids : SUBSET Ids] /\ Cardinality(bm25) <= 1
    <3> DEFINE index == [version |-> v, ids |-> D]
    <3>1. index \in [version : Nat, ids : SUBSET Ids] /\ bm25 = {index}
      BY <2>2
    <3> HIDE DEF index
    <3> QED BY <3>1, FS_Singleton
  <2> QED BY <2>1, <2>2 DEF ShapeInv, Fields
<1>3. Change \in [dirty : SUBSET DOMAIN nodes, removed : SUBSET (Ids \ DOMAIN nodes)]
  BY DEF ShapeInv, Types, Change
<1> QED BY <1>1, <1>2, <1>3 DEF ShapeInv, Types, Fields, Issued, TypeOK

(* Every variable keeps its shape; in particular no id is issued twice, no *)
(* change set names a node that can be neither written nor deleted, and    *)
(* there is one graph per file (TypeOK).                                   *)
THEOREM StoresKeepTheirShape == AnySpec => []TypeOK
<1>1. Init => ShapeInv
  <2> SUFFICES ASSUME Init PROVE ShapeInv
    OBVIOUS
  <2>1. Types
    BY InitCovers DEF CoverInv
  <2>2. Fields
    BY DEF Init, Fields
  <2>3. Issued
    <3>1. DOMAIN nodes = {} /\ TheOnly(db) = EmptyGraph /\ DOMAIN EmptyGraph.nodes = {} /\ snapshot = {}
      BY TheOnlyOne DEF Init, EmptyGraph
    <3>2. used \in SUBSET Ids /\ DOMAIN TheOnly(json).nodes \subseteq used
      <4>1. CASE json = {}
        BY <3>1, <4>1, TheOnlyOne DEF Init
      <4>2. ASSUME NEW g \in Graph, json = {g}
            PROVE  used \in SUBSET Ids /\ DOMAIN TheOnly(json).nodes \subseteq used
        <5>1. used = DOMAIN g.nodes
          BY <4>2 DEF Init
        <5> QED BY <4>2, <5>1, TheOnlyOne, GraphShape
      <4> QED BY <2>1, <4>1, <4>2 DEF Types, IsFile
    <3> QED BY <3>1, <3>2 DEF Issued
  <2> QED BY <2>1, <2>2, <2>3 DEF ShapeInv
<1>2. ShapeInv /\ [AnyNext]_vars => ShapeInv'
  BY TypesStep, FieldsStep, IssuedStep DEF ShapeInv
<1> QED BY <1>1, <1>2, ShapeMeans, PTL DEF AnySpec

=============================================================================
