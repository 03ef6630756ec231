----------------------------- MODULE GraphStore -----------------------------
(***************************************************************************)
(* MemoryGraph (graph/memory_graph.py) and the two stores behind           *)
(* save_graph and load_graph (graph/store.py).  The JSON store writes the  *)
(* whole graph to a temporary file and renames it; the SQLite store keeps  *)
(* a row per node and writes only what the change sets of the graph name,  *)
(* in one transaction, importing a JSON graph the first time.              *)
(*                                                                         *)
(* One process at a time has the graph; it may die between two calls.  A   *)
(* save may fail as a whole (disk full, database locked), and a snapshot   *)
(* may replace the graph in memory.                                        *)
(***************************************************************************)
EXTENDS Naturals, FiniteSets

CONSTANTS
  Ids,          \* node ids (uuids)
  Values,       \* node data, embedding included
  Links,        \* bound: the pairs that may be linked, as <<source, target>>
  Backends,     \* the stores that may be configured: "json", "sqlite"
  Legacy,       \* graphs the JSON file may hold before the first start
  MaxChanges    \* bound: content changes of one process

EmptyGraph == [nodes |-> [i \in {} |-> {}], edges |-> {}]
Graph == [nodes : UNION {[D -> Values] : D \in SUBSET Ids}, edges : SUBSET Links]

ASSUME BackendsKnown == Backends \subseteq {"json", "sqlite"}
(* Edges join two different nodes (pipeline.py:299, 312).                  *)
ASSUME LinksJoinIds == Links \subseteq {p \in Ids \X Ids : p[1] # p[2]}
(* An earlier release of the program saved the legacy graphs.              *)
ASSUME LegacyGraphs ==
  Legacy \subseteq Graph /\ \A g \in Legacy : \A e \in g.edges : {e[1], e[2]} \subseteq DOMAIN g.nodes
ASSUME MaxChangesIsNat == MaxChanges \in Nat

VARIABLES
  alive,           \* a process has loaded the graph
  nodes, edges,    \* MemoryGraph.nodes (a function on ids) and .edges
  edgesByNode,     \* MemoryGraph._edges_by_node
  dirty, removed,  \* MemoryGraph._dirty_nodes, _removed_nodes
  edgesDirty,      \* MemoryGraph._edges_dirty
  contentVersion,  \* MemoryGraph.content_version
  matrix, stale,   \* ids of the embedding matrix rows; MemoryGraph._dirty
  bm25,            \* RetrievalEngine's index: {} or {[version, ids]}
  json, db,        \* the two files: {} when there is none, else {the graph}
  backend,         \* storage_backend of the configuration
  snapshot,        \* the last snapshot file, {} or {a graph}
  used             \* ids issued so far

content == <<nodes, edges, edgesByNode>>
changes == <<dirty, removed, edgesDirty>>
caches == <<contentVersion, matrix, stale, bm25>>
files == <<json, db, backend, snapshot>>
vars == <<alive, content, changes, caches, files, used>>

Init ==
  /\ alive = FALSE
  /\ nodes = EmptyGraph.nodes /\ edges = {} /\ edgesByNode = [i \in Ids |-> {}]
  /\ dirty = {} /\ removed = {} /\ edgesDirty = FALSE
  /\ contentVersion = 0 /\ matrix = {} /\ stale = TRUE /\ bm25 = {}
  /\ backend \in Backends /\ json \in {{}} \cup {{g} : g \in Legacy}
  /\ db = {} /\ snapshot = {}
  /\ used = UNION {DOMAIN g.nodes : g \in json}

InMemory == [nodes |-> nodes, edges |-> edges]
TheOnly(file) == IF file = {} THEN EmptyGraph ELSE CHOOSE g \in file : TRUE
(* What the next start would load.                                         *)
Stored == TheOnly(IF backend = "sqlite" /\ db # {} THEN db ELSE json)

-----------------------------------------------------------------------------
(* MemoryGraph *)

Ends(e) == {e[1], e[2]}

(* A new graph object that holds g: its edges are indexed one by one, no   *)
(* cache is built.                                                         *)
KeepsIndex(g, version) ==  \* fault: the old engine's index is kept
  /\ nodes' = g.nodes /\ edges' = g.edges
  /\ edgesByNode' = [i \in Ids |-> {e \in g.edges : i \in Ends(e)}]
  /\ contentVersion' = version /\ matrix' = {} /\ stale' = TRUE /\ UNCHANGED bm25
Holds(g, version) ==
  /\ nodes' = g.nodes /\ edges' = g.edges
  /\ edgesByNode' = [i \in Ids |-> {e \in g.edges : i \in Ends(e)}]
  /\ contentVersion' = version /\ matrix' = {} /\ stale' = TRUE /\ bm25' = {}

ContentChanged ==
  /\ contentVersion < MaxChanges
  /\ contentVersion' = contentVersion + 1
  /\ stale' = TRUE
  /\ UNCHANGED <<matrix, bm25>>

AddNode(id, v) ==
  /\ alive /\ id \notin used
  /\ nodes' = [i \in DOMAIN nodes \cup {id} |-> IF i = id THEN v ELSE nodes[i]]
  /\ used' = used \cup {id}
  /\ dirty' = dirty \cup {id} /\ removed' = removed \ {id}
  /\ ContentChanged
  /\ UNCHANGED <<alive, edges, edgesByNode, edgesDirty, files>>

(* A node is changed in place, then marked (mark_dirty, update_node_access)*)
ForgetsToMark(id) == UNCHANGED dirty  \* fault: a change in place is not recorded
Marks(id) == dirty' = dirty \cup {id}
ChangeNode(id, v) ==
  /\ alive /\ id \in DOMAIN nodes
  /\ nodes' = [nodes EXCEPT ![id] = v]
  /\ Marks(id)
  /\ UNCHANGED <<alive, edges, edgesByNode, removed, edgesDirty, caches, files, used>>

AddEdge(e) ==
  /\ alive /\ e \in Links \ edges /\ Ends(e) \subseteq DOMAIN nodes
  /\ edges' = edges \cup {e}
  /\ edgesByNode' = [i \in Ids |-> IF i \in Ends(e) THEN edgesByNode[i] \cup {e} ELSE edgesByNode[i]]
  /\ edgesDirty' = TRUE
  /\ UNCHANGED <<alive, nodes, dirty, removed, caches, files, used>>

(* remove_edges_for_node finds the doomed edges in the index and cleans    *)
(* the lists of the nodes at their other ends.                             *)
KeepsOtherEnds(id, doomed) == edgesByNode' = [edgesByNode EXCEPT ![id] = {}]  \* fault: neighbours keep the edge
CleansOtherEnds(id, doomed) ==
  edgesByNode' = [i \in Ids |->
    CASE i = id -> {}
      [] i # id /\ i \in UNION {Ends(e) : e \in doomed} -> edgesByNode[i] \ doomed
      [] OTHER -> edgesByNode[i]]
RemoveNode(id) ==
  /\ alive /\ id \in DOMAIN nodes
  /\ nodes' = [i \in DOMAIN nodes \ {id} |-> nodes[i]]
  /\ LET doomed == edgesByNode[id]
     IN  /\ edges' = edges \ doomed
         /\ CleansOtherEnds(id, doomed)
         /\ edgesDirty' = (edgesDirty \/ doomed # {})
  /\ dirty' = dirty \ {id} /\ removed' = removed \cup {id}
  /\ ContentChanged
  /\ UNCHANGED <<alive, files, used>>

(* get_embedding_matrix: rows are rebuilt only when nodes changed.         *)
EmbeddingMatrix ==
  /\ alive
  /\ stale \/ matrix = {}
  /\ matrix' = DOMAIN nodes /\ stale' = FALSE
  /\ UNCHANGED <<alive, content, changes, contentVersion, bm25, files, used>>

(* _bm25_index: rebuilt only when content_version moved.                   *)
LexicalIndex ==
  /\ alive /\ nodes # EmptyGraph.nodes
  /\ \A index \in bm25 : index.version # contentVersion
  /\ bm25' = {[version |-> contentVersion, ids |-> DOMAIN nodes]}
  /\ UNCHANGED <<alive, content, changes, contentVersion, matrix, stale, files, used>>

-----------------------------------------------------------------------------
(* Stores *)

KeepsRemoved == dirty' = {} /\ UNCHANGED removed /\ edgesDirty' = FALSE  \* fault: removals are not reset
ConsumeChanges == dirty' = {} /\ removed' = {} /\ edgesDirty' = FALSE

(* The rows after an incremental save into the table old.                  *)
KeepsEdges(old, g, doomed, named, edgesNamed) ==  \* fault: old edges stay
  [nodes |-> [i \in (DOMAIN old.nodes \ doomed) \cup (named \cap DOMAIN g.nodes) |->
                IF i \in named \cap DOMAIN g.nodes THEN g.nodes[i] ELSE old.nodes[i]],
   edges |-> IF edgesNamed THEN old.edges \cup g.edges ELSE old.edges]
Upserted(old, g, doomed, named, edgesNamed) ==
  [nodes |-> [i \in (DOMAIN old.nodes \ doomed) \cup (named \cap DOMAIN g.nodes) |->
                IF i \in named \cap DOMAIN g.nodes THEN g.nodes[i] ELSE old.nodes[i]],
   edges |-> IF edgesNamed THEN g.edges ELSE old.edges]

JsonSavesNodes ==  \* fault: edges are left out
  json' = {[nodes |-> nodes, edges |-> {}]} /\ UNCHANGED <<db, backend, snapshot>>
JsonSave == json' = {InMemory} /\ UNCHANGED <<db, backend, snapshot>>
SqliteSave ==
  /\ db' = {Upserted(TheOnly(db), InMemory, removed, dirty, edgesDirty)}
  /\ UNCHANGED <<json, backend, snapshot>>

(* save_graph *)
Save ==
  /\ alive
  /\ IF backend = "json" THEN JsonSave ELSE SqliteSave
  /\ ConsumeChanges
  /\ UNCHANGED <<alive, content, caches, used>>

(* The write fails: the JSON file is as it was, and so are the change sets.*)
(* SQLite rolls back, but consume_changes has already reset the sets.      *)
SaveFails ==
  /\ alive
  /\ IF backend = "json" THEN UNCHANGED <<db, changes>>
     ELSE db' = {TheOnly(db)} /\ ConsumeChanges
  /\ UNCHANGED <<alive, content, caches, json, backend, snapshot, used>>

(* load_graph: an existing database is read; else SQLite imports the JSON  *)
(* graph and saves it at once; else the JSON graph or an empty one is used.*)
LoadFresh ==
  /\ json = {} /\ (backend = "sqlite" => db = {})
  /\ Holds(EmptyGraph, 0)
  /\ UNCHANGED files
LoadJson ==
  /\ backend = "json" /\ json # {}
  /\ Holds(TheOnly(json), 1)
  /\ UNCHANGED files
LoadDatabase ==
  /\ backend = "sqlite" /\ db # {}
  /\ Holds(TheOnly(db), 1)
  /\ UNCHANGED files
MarksAll(g) == Upserted(EmptyGraph, g, {}, DOMAIN g.nodes, TRUE)
Import ==
  /\ backend = "sqlite" /\ db = {} /\ json # {}
  /\ Holds(TheOnly(json), 1)
  /\ db' = {MarksAll(TheOnly(json))}
  /\ UNCHANGED <<json, backend, snapshot>>
Load ==
  /\ ~alive
  /\ LoadFresh \/ LoadJson \/ LoadDatabase \/ Import
  /\ alive' = TRUE
  /\ ConsumeChanges
  /\ UNCHANGED used

(* The process ends or dies; what was not saved is gone.                   *)
Exit ==
  /\ alive /\ alive' = FALSE
  /\ Holds(EmptyGraph, 0) /\ ConsumeChanges
  /\ UNCHANGED <<files, used>>

(* The process dies inside the import: _connect has created the database   *)
(* file with its schema, the transaction is rolled back.                   *)
ImportDies ==
  /\ ~alive /\ backend = "sqlite" /\ db = {} /\ json # {}
  /\ db' = {EmptyGraph}
  /\ UNCHANGED <<alive, content, changes, caches, json, backend, snapshot, used>>

-----------------------------------------------------------------------------
(* Snapshots: create writes the whole graph; restore_snapshot replaces the *)
(* graph by a new object in which everything is marked dirty and nothing   *)
(* removed, builds a new retrieval engine, and saves.                      *)
CreateSnapshot ==
  /\ alive
  /\ snapshot' = {InMemory}
  /\ UNCHANGED <<alive, content, changes, caches, json, db, backend, used>>

RestoreSnapshot ==
  /\ alive
  /\ \E g \in snapshot :
       /\ Holds(g, 1)
       /\ IF backend = "json" THEN json' = {g} /\ UNCHANGED db
          ELSE db' = {Upserted(TheOnly(db), g, {}, DOMAIN g.nodes, TRUE)} /\ UNCHANGED json
  /\ ConsumeChanges
  /\ UNCHANGED <<alive, backend, snapshot, used>>

-----------------------------------------------------------------------------
Mutate ==
  \/ \E id \in Ids, v \in Values : AddNode(id, v) \/ ChangeNode(id, v)
  \/ \E id \in Ids : RemoveNode(id)
  \/ \E e \in Links : AddEdge(e)
Read == EmbeddingMatrix \/ LexicalIndex

(* What either store promises to survive.  Failing saves and restores are  *)
(* among it for the JSON store only: an SQLite save consumes the change    *)
(* sets before it commits, and cannot delete rows it does not know of.     *)
Calm == Load \/ Mutate \/ Read \/ Save \/ CreateSnapshot \/ Exit
Whole == backend = "json" /\ (SaveFails \/ RestoreSnapshot)
Next == Calm \/ Whole
Spec == Init /\ [][Next]_vars

(* Everything that can happen to either store.                             *)
AnyNext == Calm \/ SaveFails \/ RestoreSnapshot \/ ImportDies
AnySpec == Init /\ [][AnyNext]_vars
RestoringSpec == Init /\ [][Calm \/ RestoreSnapshot]_vars

-----------------------------------------------------------------------------
(* Properties *)

Change == [dirty |-> dirty, removed |-> removed]
TypeOK ==
  /\ backend \in Backends /\ alive \in BOOLEAN /\ edgesDirty \in BOOLEAN /\ stale \in BOOLEAN
  /\ InMemory \in Graph /\ edgesByNode \in [Ids -> SUBSET Links]
  /\ Change \in [dirty : SUBSET DOMAIN nodes, removed : SUBSET (Ids \ DOMAIN nodes)]
  /\ contentVersion \in Nat /\ matrix \in SUBSET Ids
  /\ bm25 \in SUBSET [version : Nat, ids : SUBSET Ids] /\ Cardinality(bm25) <= 1
  /\ \A file \in {json, db, snapshot} : file \subseteq Graph /\ Cardinality(file) <= 1
  /\ used \in SUBSET Ids /\ DOMAIN nodes \subseteq used

(* The promise of the module DurableGraph: a save that writes only the     *)
(* marked rows leaves the same file as one that writes everything.         *)
Durable == INSTANCE DurableGraph WITH
  Graphs <- Graph, memory <- IF alive THEN InMemory ELSE Stored, stored <- Stored
ImplementsDurableGraph == Durable!Spec

(* "Record that node_id changed in place and must be persisted"            *)
(* (memory_graph.py:48): where the graph and the database differ, the      *)
(* change sets say so, so that the next save writes the difference.        *)
ChangesCoverDifference ==
  (alive /\ backend = "sqlite") =>
    LET table == TheOnly(db)
    IN  /\ \A i \in Ids \ (dirty \cup removed) :
             /\ i \in DOMAIN nodes <=> i \in DOMAIN table.nodes
             /\ i \in DOMAIN nodes => nodes[i] = table.nodes[i]
        /\ ~edgesDirty => edges = table.edges

(* The adjacency index is the edge list seen from each node, also after    *)
(* the removal of a neighbour (memory_graph.py:108-122).                   *)
IndexMatchesEdges == \A i \in Ids : edgesByNode[i] = {e \in edges : i \in Ends(e)}

(* No edge survives its nodes, neither in memory nor in the stored graph   *)
(* (memory_graph.py:78; store.py:173-178 rewrites the edge table).         *)
NoDanglingEdges ==
  \A g \in {InMemory, Stored} : \A e \in g.edges : Ends(e) \subseteq DOMAIN g.nodes

(* "content_version changes when nodes are added or removed"               *)
(* (memory_graph.py:20): an index that a query would reuse covers exactly  *)
(* the nodes of the graph, across additions, removals and restores.        *)
CachesAreCurrent ==
  /\ (~stale /\ matrix # {}) => matrix = DOMAIN nodes
  /\ \A index \in bm25 : index.version = contentVersion => index.ids = DOMAIN nodes

(* "Replace the in-memory graph and buffer with a snapshot's contents"     *)
(* (__init__.py:253), then save: what a restart loads is what the restored *)
(* process has.                                                            *)
RestoreIsDurable ==
  [][RestoreSnapshot => Stored' = InMemory']_vars

=============================================================================
