----------------------------- MODULE HardDelete -----------------------------
(***************************************************************************)
(* Privacy deletion (deletion/hard_delete.py, raw_log/reader.py) and graph *)
(* snapshots (snapshots/manager.py) on top of Consolidation.  One process  *)
(* consolidates, deletes and restores, one call at a time; the hooks, which*)
(* are other processes, append to the logs at any moment.  A deletion is a *)
(* cascade over several files: an exception ends it half way with the      *)
(* process alive, a crash ends it with the process.                        *)
(*                                                                         *)
(* Nodes without source references, which only graphs written before the   *)
(* references existed can hold, and the session buffer are left out.       *)
(***************************************************************************)
EXTENDS Consolidation

CONSTANTS NoDeletion,
          ScrubSnapshots  \* delete_snapshots_on_hard_delete

ASSUME ScrubIsSet == ScrubSnapshots \in BOOLEAN

VARIABLES
  deletion,    \* hard_delete in progress, or NoDeletion
  snapshot,    \* the snapshot file: {} or {a graph record}
  tombstones,  \* node ids in tombstones.jsonl, each with a ledger entry
  deleted,     \* ids of the nodes whose hard_delete has returned
  erased       \* candidates of the nodes that hard_delete took out of the graph

consolidationVars == <<log, progress, nodes, edges, saved, job, issued>>
deletionVars == <<deletion, snapshot, tombstones, deleted, erased>>
allVars == <<consolidationVars, deletionVars>>

DeletionSteps == {"logs", "rewrite", "scrub", "record", "save"}
Deletion == [pc : DeletionSteps, node : NodeIds, content : {c.content : c \in Candidates},
             refs : SUBSET (Sessions \X Nat), session : Sessions, kept : Seq(Messages)]

InitDeletion ==
  /\ Init
  /\ deletion = NoDeletion /\ snapshot = {} /\ tombstones = {} /\ deleted = {} /\ erased = {}

NotDeleting == deletion = NoDeletion  \* fault: a consolidation may be under way
Idle == job = NoJob /\ deletion = NoDeletion
Without(graph, ids) == [n \in DOMAIN graph \ ids |-> graph[n]]
Unlinked(links, ids) == {e \in links : e[1] \notin ids /\ e[2] \notin ids}

-----------------------------------------------------------------------------
(* Step 1: the node and its edges leave the graph in memory.  What is known*)
(* of its sources is copied first.                                         *)
DeleteNode(id) ==
  /\ Idle /\ id \in DOMAIN nodes
  /\ nodes' = Without(nodes, {id}) /\ edges' = Unlinked(edges, {id})
  /\ \E s \in Sessions :
       deletion' = [pc |-> "logs", node |-> id, content |-> nodes[id].cand.content,
                    refs |-> nodes[id].refs, session |-> s, kept |-> <<>>]
  /\ erased' = erased \cup nodes[id].forms \cup {nodes[id].cand}
  /\ UNCHANGED <<log, progress, saved, job, issued, snapshot, tombstones, deleted>>

(* A log without the messages at the given positions.                      *)
Kept(messages, gone) ==
  LET keptAt == DOMAIN messages \ gone
      nth(k) == CHOOSE i \in keptAt : Cardinality({j \in keptAt : j <= i}) = k
  IN  [k \in 1 .. Cardinality(keptAt) |-> messages[nth(k)]]

(* Step 2, per session with references: read the log, drop the referenced  *)
(* messages, write the rest to a temporary file and rename it.             *)
ReadLog(s) ==
  /\ deletion # NoDeletion /\ deletion.pc = "logs"
  /\ LET gone == {r[2] : r \in {r \in deletion.refs : r[1] = s}}
         rest == {r \in deletion.refs : r[1] # s}
     IN  /\ gone # {}
         /\ deletion' =
              IF gone \cap DOMAIN log[s] = {} THEN [deletion EXCEPT !.refs = rest]
              ELSE [deletion EXCEPT !.pc = "rewrite", !.session = s, !.refs = rest,
                                    !.kept = Kept(log[s], gone)]
  /\ UNCHANGED consolidationVars /\ UNCHANGED <<snapshot, tombstones, deleted, erased>>
RewriteLog ==
  /\ deletion # NoDeletion /\ deletion.pc = "rewrite"
  /\ log' = [log EXCEPT ![deletion.session] = deletion.kept]
  /\ deletion' = [deletion EXCEPT !.pc = "logs"]
  /\ UNCHANGED <<progress, nodes, edges, saved, job, issued, snapshot, tombstones, deleted, erased>>

(* Step 4: nodes with the id or with the same content leave the snapshot.  *)
ScrubsById(g) ==  \* fault: another id with the content stays
  [nodes |-> Without(g.nodes, {deletion.node}), edges |-> Unlinked(g.edges, {deletion.node})]
Scrubbed(g) ==
  LET doomed == {n \in DOMAIN g.nodes : n = deletion.node \/ g.nodes[n].cand.content = deletion.content}
  IN  [nodes |-> Without(g.nodes, doomed), edges |-> Unlinked(g.edges, doomed)]
Scrub ==
  /\ deletion # NoDeletion /\ deletion.pc = "logs" /\ deletion.refs = {}
  /\ snapshot' = IF ScrubSnapshots THEN {Scrubbed(g) : g \in snapshot} ELSE snapshot
  /\ deletion' = [deletion EXCEPT !.pc = "record"]
  /\ UNCHANGED consolidationVars /\ UNCHANGED <<tombstones, deleted, erased>>

(* Step 5: tombstone and ledger.                                           *)
Record ==
  /\ deletion # NoDeletion /\ deletion.pc = "record"
  /\ tombstones' = tombstones \cup {deletion.node}
  /\ deletion' = [deletion EXCEPT !.pc = "save"]
  /\ UNCHANGED consolidationVars /\ UNCHANGED <<snapshot, deleted, erased>>

(* Only then is the graph saved, and the call returns.                     *)
SavesNothing == UNCHANGED saved  \* fault: the graph is not saved
SavesMemory == saved' = Memory
SaveDeletion ==
  /\ deletion # NoDeletion /\ deletion.pc = "save"
  /\ SavesMemory
  /\ deleted' = deleted \cup {deletion.node}
  /\ deletion' = NoDeletion
  /\ UNCHANGED <<log, progress, nodes, edges, job, issued, snapshot, tombstones, erased>>

(* A file cannot be read or written: the exception leaves hard_delete.     *)
DeletionFails ==
  /\ deletion # NoDeletion
  /\ deletion' = NoDeletion
  /\ UNCHANGED consolidationVars /\ UNCHANGED <<snapshot, tombstones, deleted, erased>>

DeletionStep ==
  (\E s \in Sessions : ReadLog(s)) \/ RewriteLog \/ Scrub \/ Record \/ SaveDeletion

-----------------------------------------------------------------------------
CreateSnapshot ==
  /\ Idle
  /\ snapshot' = {Memory}
  /\ UNCHANGED consolidationVars /\ UNCHANGED <<deletion, tombstones, deleted, erased>>

(* The JSON store then holds the snapshot's graph.  The logs and the       *)
(* progress file stay as they are.                                         *)
RestoreSnapshot ==
  /\ Idle
  /\ \E g \in snapshot : nodes' = g.nodes /\ edges' = g.edges /\ saved' = g
  /\ UNCHANGED <<log, progress, job, issued>> /\ UNCHANGED deletionVars

(* consolidate_session meets a log that a deletion has made shorter than   *)
(* its progress index, but not empty: progress is clamped to the tail and  *)
(* nothing is consolidated.                                                *)
ClampProgress(s) ==
  /\ Idle
  /\ Len(log[s]) > 0 /\ progress[s] > Len(log[s])
  /\ progress' = [progress EXCEPT ![s] = Len(log[s])]
  /\ UNCHANGED <<log, nodes, edges, saved, job, issued>> /\ UNCHANGED deletionVars

(* Consolidation's own steps, except that nothing of it runs during a      *)
(* deletion and that a crash ends a deletion too.                          *)
Hook == (\E s \in Sessions, m \in Messages : LogMessage(s, m)) /\ UNCHANGED deletionVars
Consolidating ==
  /\ deletion = NoDeletion
  /\ (\E s \in Sessions : Consolidate(s)) \/ Commit \/ Finish
  /\ UNCHANGED deletionVars
Failing ==
  \/ Abort /\ UNCHANGED deletionVars
  \/ DeletionFails
  \/ /\ Crash
     /\ deletion' = NoDeletion
     /\ UNCHANGED <<snapshot, tombstones, deleted, erased>>
Ending == deletion = NoDeletion /\ EndSession /\ UNCHANGED deletionVars
Deleting == (\E id \in NodeIds : DeleteNode(id)) \/ DeletionStep
Snapshots == CreateSnapshot \/ RestoreSnapshot

Clamping == \E s \in Sessions : ClampProgress(s)
DeletionNext ==
  Hook \/ Consolidating \/ Clamping \/ Ending \/ Deleting \/ Snapshots \/ Failing
DeletionSpec == InitDeletion /\ [][DeletionNext]_allVars

(* One process, no failures, no restores: what a deletion does to the logs.*)
QuietSpec ==
  InitDeletion /\ [][(deletion = NoDeletion /\ Hook) \/ Consolidating \/ Clamping \/ Deleting]_allVars
-----------------------------------------------------------------------------
(* Properties *)

DeletionTypeOK ==
  /\ TypeOK
  /\ deletion # NoDeletion => deletion \in Deletion
  /\ \A g \in snapshot : GraphOK(g)
  /\ tombstones \cup deleted \subseteq issued /\ erased \subseteq Candidates
  /\ deletion = NoDeletion \/ job = NoJob

(* A hard-deleted node does not come back: neither a crash nor a restored  *)
(* snapshot nor a later save brings a node whose deletion has returned back*)
(* into memory, the graph file or a snapshot.                              *)
DeletedStaysDeleted ==
  ScrubSnapshots =>
    \A g \in {nodes, saved.nodes} \cup {g.nodes : g \in snapshot} : deleted \cap DOMAIN g = {}

(* "Remove the node (by id or identical content) from every snapshot"      *)
(* (hard_delete.py:176): when hard_delete returns, no graph and no snapshot*)
(* holds its content, under whatever id a restore had brought it in.       *)
ErasureIsComplete ==
  [][deleted' # deleted =>
       \A g \in {nodes', saved'.nodes} \cup {g.nodes : g \in snapshot'} :
         \A n \in DOMAIN g : g[n].cand.content # deletion.content]_allVars

(* "Remove the raw log messages it was extracted from" (hard_delete.py:43):*)
(* a deletion removes only messages that yield what it erased.             *)
DeletesOnlySources ==
  [][\A s \in Sessions :
       Len(log'[s]) < Len(log[s]) =>
         \A m \in Messages :
           LET count(l) == Cardinality({i \in DOMAIN l : l[i] = m})
           IN  count(log'[s]) < count(log[s]) =>
                 \E k \in DOMAIN Extract[m] : Extract[m][k] \in erased]_log

=============================================================================
