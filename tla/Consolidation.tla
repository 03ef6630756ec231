--------------------------- MODULE Consolidation ---------------------------
(***************************************************************************)
(* Consolidation (consolidation/pipeline.py): the raw log of every session *)
(* is read past the session's progress index, candidate memories are       *)
(* extracted by rules (Stage 1) and proposed by an LLM (Stage 2),          *)
(* deduplicated against the graph and committed one by one, the graph is   *)
(* saved, and only then is the progress index moved.                       *)
(*                                                                         *)
(* One process consolidates.  Messages may be appended to any log while it *)
(* does (the hooks are other processes), any step may fail with an         *)
(* exception that leaves the process alive (Abort), and the process may    *)
(* die at any point (Crash): memory is lost, the files stay.               *)
(*                                                                         *)
(* Log positions are 1-based: position i is message_index i-1 in the code, *)
(* and progress[s] is last_msg_index + 1, the number of messages done.     *)
(***************************************************************************)
EXTENDS Naturals, FiniteSets, Sequences

CONSTANTS
  Sessions,          \* session ids
  Messages,          \* the messages that can be logged
  Candidates,        \* what extraction can find in a message, as records:
                     \*   content, prefix (type and content[:100]), statement
                     \*   (statement_key), key (canonical key or NoKey), family,
                     \*   correction, episodic; entity, and if so alias
                     \*   (normalize_entity) and label
  Extract,           \* [Messages -> Seq(Candidates)]: NER and rule extraction
  Answers,           \* what parse_memories can make of an LLM's answer: sequences
                     \*   of records cand, confidence, sources (log positions)
  ChunkSize,         \* stage2_max_messages
  MinConfidence,     \* stage2_min_confidence
  Near,              \* pairs of candidates whose embeddings reach dedup_threshold
  Contained,         \* pairs of aliases with the same first token, one's tokens among
                     \*   the other's and two fewer at most
  Linked,            \* pairs <<entity, candidate>> whose embeddings reach
                     \*   entity_link_threshold and that are spelled similarly
  Mentions,          \* pairs <<statement, entity form>>: the form occurs in the text
  ImplicitFamilies,  \* _IMPLICIT_FAMILIES: {"preference", "policy"}
  Window,            \* correction_window_messages
  NodeIds,           \* the uuids that can be issued
  MaxLog,            \* bound: messages per session log
  NoKey, NoNode, NoJob

(* NER candidates carry no slot key (pipeline.py:282).                     *)
ASSUME CandidateShape ==
  /\ Extract \in [Messages -> Seq(Candidates)]
  /\ \A c \in Candidates : c.entity \in BOOLEAN /\ (c.entity => c.key = NoKey)
(* key_family (canonical.py:110): a slot's family is the prefix of its key.*)
ASSUME FamilyOfKey == \A c, d \in Candidates : c.key = d.key => c.family = d.family
(* Identical text embeds identically and normalises identically.           *)
ASSUME SameContent ==
  \A c, d \in Candidates :
    c.content = d.content => <<c, d>> \in Near /\ c.statement = d.statement
ASSUME Sentinels == NoNode \notin NodeIds
ASSUME Bounds == Window \in Nat /\ MaxLog \in Nat
(* An LLM proposes statements.  A call that fails is as good as one that   *)
(* answers nothing, and any call can.                                      *)
ASSUME AnswerShape ==
  /\ Answers \subseteq Seq([cand : {c \in Candidates : ~c.entity},
                            confidence : Nat, sources : SUBSET Nat])
  /\ <<>> \in Answers
  /\ ChunkSize \in Nat \ {0} /\ MinConfidence \in Nat

VARIABLES
  log,       \* session -> sequence of messages in its raw log
  progress,  \* session -> messages consolidated (consolidated_sessions.json)
  nodes,     \* the process's MemoryGraph.nodes: a function on a set of ids
  edges,     \* the process's MemoryGraph.edges, as triples
  saved,     \* the graph file, a record [nodes, edges]
  job,       \* consolidate_session in progress, or NoJob
  issued     \* uuids handed out so far

vars == <<log, progress, nodes, edges, saved, job, issued>>

Keys == {c.key : c \in Candidates}
Node == [cand : Candidates, key : Keys \cup {NoKey}, status : {"active", "superseded"},
         sessions : SUBSET Sessions, access : Nat, refs : SUBSET (Sessions \X Nat),
         supersedes : SUBSET NodeIds, forms : SUBSET Candidates]
Edge == NodeIds \X NodeIds \X {"temporal", "association"}
(* A candidate where it was found: at-th in the list for message (Stage 1) *)
(* or for the chunk that starts with message (Stage 2), citing refs, of    *)
(* which index is the first.                                               *)
Occurrence == [cand : Candidates, stage : 1 .. 2, message : Nat, at : Nat,
               index : Nat, refs : SUBSET Nat]
Job == [pc : {"commit", "save", "progress"}, session : Sessions, tail : Nat,
        todo : SUBSET Occurrence, prev : NodeIds \cup {NoNode},
        pool : SUBSET NodeIds, fresh : SUBSET NodeIds]

EmptyGraph == [i \in {} |-> {}]

(* Every session has an empty log and no progress; no graph file yet.      *)
Init ==
  /\ log = [s \in Sessions |-> <<>>]
  /\ progress = [s \in Sessions |-> 0]
  /\ nodes = EmptyGraph /\ edges = {}
  /\ saved = [nodes |-> EmptyGraph, edges |-> {}]
  /\ job = NoJob
  /\ issued = {}

-----------------------------------------------------------------------------
(* Candidate gathering.  Entities come before statements, those of Stage 1 *)
(* before those of Stage 2, then message (or chunk) order, then the order  *)
(* within the message (or answer).                                         *)
Before(a, b) ==
  \/ a.cand.entity /\ ~b.cand.entity
  \/ /\ a.cand.entity = b.cand.entity
     /\ \/ a.stage < b.stage
        \/ /\ a.stage = b.stage
           /\ a.message < b.message \/ (a.message = b.message /\ a.at < b.at)

New(s) == (progress[s] + 1) .. Len(log[s])
FoundAt(s, i) ==
  {[cand |-> Extract[log[s][i]][k], stage |-> 1, message |-> i, at |-> k,
    index |-> i, refs |-> {i}] : k \in DOMAIN Extract[log[s][i]]}
Matched(s) == UNION {FoundAt(s, i) : i \in New(s)}

(* Of the rule matches of a batch that begin alike the first is kept, even *)
(* if their contents differ further on.  Entities are not cut.             *)
FirstOfPrefix(matched) ==
  {a \in matched : ~a.cand.entity =>
     \A b \in matched \ {a} :
       ~b.cand.entity /\ b.cand.prefix = a.cand.prefix => Before(a, b)}
Found(s) == FirstOfPrefix(Matched(s))

(* Stage 2 puts the new messages to the LLM in chunks.  A proposal counts  *)
(* if it is confident enough and cites messages of its chunk; citations of *)
(* others are dropped.                                                     *)
ChunkStarts(s) == {i \in New(s) : (i - progress[s] - 1) % ChunkSize = 0}
Chunk(s, start) == New(s) \cap (start .. start + ChunkSize - 1)
CitesAnything(item, s, start) == item.sources  \* fault: any message number will do
Cited(item, s, start) == item.sources \cap Chunk(s, start)
Accepted(answer, s, start) ==
  UNION {LET item == answer[k]
             refs == Cited(item, s, start)
         IN  {[cand |-> item.cand, stage |-> 2, message |-> start, at |-> k,
               index |-> i, refs |-> refs] : i \in {i \in refs : \A j \in refs : i <= j}} :
         k \in {k \in DOMAIN answer : answer[k].confidence >= MinConfidence}}
Proposed(s, answers) == UNION {Accepted(answers[start], s, start) : start \in ChunkStarts(s)}

(* Only the first occurrence of each statement in the batch is kept;       *)
(* Stage 2 drops what Stage 1 or an earlier answer has.                    *)
FirstOccurrences(found) ==
  {a \in found : \A b \in found \ {a} :
     a.cand.statement = b.cand.statement => Before(a, b)}

Gather(s, answers) == FirstOccurrences(Found(s) \cup Proposed(s, answers))

(* find_duplicates: the best match among all nodes, active or not.  Nodes  *)
(* with the very same content are the best there is.                       *)
MatchesSaved(c) ==  \* fault: what is not saved yet is not compared
  {n \in DOMAIN nodes \cap DOMAIN saved.nodes : <<c, nodes[n].cand>> \in Near}
Matches(c) ==
  LET same == {n \in DOMAIN nodes : nodes[n].cand.content = c.content}
  IN  IF same # {} THEN same
      ELSE {n \in DOMAIN nodes : <<c, nodes[n].cand>> \in Near}

RefsOf(s, found) == UNION {{<<s, i>> : i \in a.refs} : a \in found}
(* A near-duplicate reinforces its node: access_count grows only when the  *)
(* session is new to the node.                                             *)
ReinforceAlways(n, s, found) ==  \* fault: every mention counts
  [n EXCEPT !.sessions = @ \cup {s}, !.access = @ + 1,
            !.refs = @ \cup RefsOf(s, found)]
Reinforce(n, s, found) ==
  [n EXCEPT !.sessions = @ \cup {s},
            !.access = IF s \in n.sessions THEN @ ELSE @ + 1,
            !.refs = @ \cup RefsOf(s, found)]

-----------------------------------------------------------------------------
(* The message is appended to the session's log file.                      *)
LogMessage(s, m) ==
  /\ Len(log[s]) < MaxLog
  /\ log' = [log EXCEPT ![s] = Append(@, m)]
  /\ UNCHANGED <<progress, nodes, edges, saved, job, issued>>

(* New messages without candidates: progress moves, the graph is not saved.*)
NothingFound(s) ==
  /\ job = NoJob
  /\ progress[s] < Len(log[s])
  /\ \E answers \in [ChunkStarts(s) -> Answers] : Gather(s, answers) = {}
  /\ progress' = [progress EXCEPT ![s] = Len(log[s])]
  /\ UNCHANGED <<log, nodes, edges, saved, job, issued>>

(* The batch is read, gathered and deduplicated against the graph as it is *)
(* now; what is left waits to be committed.                                *)
Begin(s) ==
  /\ job = NoJob
  /\ progress[s] < Len(log[s])
  /\ \E answers \in [ChunkStarts(s) -> Answers] :
       LET batch == Gather(s, answers)
           known == {a \in batch : Matches(a.cand) # {}}
       IN  /\ batch # {}
           /\ \E match \in [known -> DOMAIN nodes] :
                /\ \A a \in known : match[a] \in Matches(a.cand)
                /\ nodes' = [n \in DOMAIN nodes |->
                               LET found == {a \in known : match[a] = n}
                               IN  IF found = {} THEN nodes[n] ELSE Reinforce(nodes[n], s, found)]
                /\ job' = [pc |-> "commit", session |-> s, tail |-> Len(log[s]),
                           todo |-> batch \ known, prev |-> NoNode, pool |-> {}, fresh |-> {}]
  /\ UNCHANGED <<log, progress, edges, saved, issued>>

-----------------------------------------------------------------------------
NextUp(a) == a \in job.todo /\ \A b \in job.todo \ {a} : Before(a, b)

(* A node for candidate a.  valid_from, confidence and the embedding are   *)
(* left out: no property here depends on them.                             *)
RelativeRefs(a, key, superseded) ==  \* fault: the index within the batch is recorded
  [cand |-> a.cand, key |-> key, status |-> "active", sessions |-> {job.session},
   access |-> 1, refs |-> {<<job.session, i - progress[job.session]>> : i \in a.refs},
   supersedes |-> superseded, forms |-> {a.cand}]
NewNode(a, key, superseded) ==
  [cand |-> a.cand, key |-> key, status |-> "active", sessions |-> {job.session},
   access |-> 1, refs |-> RefsOf(job.session, {a}), supersedes |-> superseded,
   forms |-> {a.cand}]

AddNode(graph, id, node) == [n \in DOMAIN graph \cup {id} |-> IF n = id THEN node ELSE graph[n]]

(* Entity resolution: the nodes that resolve can return.  A known alias    *)
(* decides; else the only node with an alias that contains or is contained *)
(* in this one; else the node whose embedding is closest (which of the     *)
(* linked ones is left open), and nothing if that is no entity.            *)
CompatibleBefore(c) ==  \* fault: the index is not rebuilt as the graph grows
  {n \in DOMAIN nodes \cap DOMAIN saved.nodes : nodes[n].cand.entity /\ nodes[n].cand.label = c.label}
Compatible(c) == {n \in DOMAIN nodes : nodes[n].cand.entity /\ nodes[n].cand.label = c.label}
KnownAs(c) == {n \in Compatible(c) : \E f \in nodes[n].forms : f.alias = c.alias}
Overlapping(c) ==
  {n \in Compatible(c) : \E f \in nodes[n].forms : <<c.alias, f.alias>> \in Contained}
Closest(c) ==
  {n \in DOMAIN nodes : /\ <<c, nodes[n].cand>> \in Linked
                        /\ nodes[n].cand.entity => n \in Compatible(c)}
Resolved(c) ==
  IF KnownAs(c) # {} THEN KnownAs(c)
  ELSE IF Cardinality(Overlapping(c)) = 1 THEN Overlapping(c)
  ELSE Closest(c) \cap Compatible(c)
IsNew(c) ==
  /\ KnownAs(c) = {} /\ Cardinality(Overlapping(c)) # 1
  /\ Closest(c) = {} \/ ~(Closest(c) \subseteq Compatible(c))

Recognise(n, s, a) ==
  [n EXCEPT !.sessions = @ \cup {s}, !.forms = @ \cup {a.cand}, !.refs = @ \cup RefsOf(s, {a})]

(* The entity is already known: session, refs and alias are recorded on    *)
(* its node.  The access count stays as it is.                             *)
ResolveEntity ==
  /\ job # NoJob /\ job.pc = "commit"
  /\ \E a \in job.todo : \E n \in Resolved(a.cand) :
       /\ NextUp(a) /\ a.cand.entity
       /\ nodes' = [nodes EXCEPT ![n] = Recognise(nodes[n], job.session, a)]
       /\ job' = [job EXCEPT !.todo = @ \ {a}, !.pool = @ \cup {n}]
  /\ UNCHANGED <<log, progress, edges, saved, issued>>

(* The entity is resolved to nothing: a new node is added.                 *)
AddEntity ==
  /\ job # NoJob /\ job.pc = "commit"
  /\ \E a \in job.todo : \E id \in NodeIds \ issued :
       /\ NextUp(a) /\ a.cand.entity
       /\ IsNew(a.cand)
       /\ nodes' = AddNode(nodes, id, NewNode(a, NoKey, {}))
       /\ issued' = issued \cup {id}
       /\ job' = [job EXCEPT !.todo = @ \ {a}, !.pool = @ \cup {id}]
  /\ UNCHANGED <<log, progress, edges, saved>>

(* 0 < distance from the node's latest mention in this session <= Window.  *)
Close(n, s, i) ==
  LET at == {r[2] : r \in {r \in n.refs : r[1] = s}}
  IN  (\E j \in at : i - j <= Window) /\ (\A j \in at : j < i)

(* correction_supersedes: the same slot always, another slot of the same   *)
(* implicit-subject family only for an explicit correction close by.       *)
SupersedesOnlyCorrections(a, n, s) ==  \* fault: a restatement needs a correction too
  /\ a.cand.key # NoKey /\ n.key # NoKey
  /\ a.cand.correction
  /\ n.key = a.cand.key \/ (n.cand.family = a.cand.family /\ Close(n, s, a.index))
SupersedesAnyFamily(a, n, s) ==  \* fault: facts count as an implicit subject
  /\ a.cand.key # NoKey /\ n.key # NoKey
  /\ \/ n.key = a.cand.key
     \/ a.cand.correction /\ n.cand.family = a.cand.family /\ Close(n, s, a.index)
CorrectionSupersedes(a, n, s) ==
  /\ a.cand.key # NoKey /\ n.key # NoKey
  /\ \/ n.key = a.cand.key
     \/ /\ a.cand.correction
        /\ n.cand.family = a.cand.family /\ a.cand.family \in ImplicitFamilies
        /\ Close(n, s, a.index)

(* The active nodes the candidate contradicts; a restatement never does.   *)
ContradictedEver(a) ==  \* fault: the status is not looked at
  {n \in DOMAIN nodes : CorrectionSupersedes(a, nodes[n], job.session)}
Contradicted(a) ==
  {n \in DOMAIN nodes :
     /\ nodes[n].status = "active"
     /\ nodes[n].cand.statement # a.cand.statement
     /\ CorrectionSupersedes(a, nodes[n], job.session)}

(* The batch's latest episode, after node id was added for a.              *)
FirstEpisode(a, id) ==  \* fault: prev_episodic_id is set once
  IF a.cand.episodic /\ job.prev = NoNode THEN id ELSE job.prev
LatestEpisode(a, id) == IF a.cand.episodic THEN id ELSE job.prev

(* A statement is committed: the nodes it contradicts are superseded, its  *)
(* node is added, and an episodic one is linked to the batch's previous.   *)
CommitStatement ==
  /\ job # NoJob /\ job.pc = "commit"
  /\ \E a \in job.todo : \E id \in NodeIds \ issued :
       /\ NextUp(a) /\ ~a.cand.entity
       /\ LET old == Contradicted(a)
              marked == [n \in DOMAIN nodes |->
                           IF n \in old THEN [nodes[n] EXCEPT !.status = "superseded"]
                           ELSE nodes[n]]
          IN  nodes' = AddNode(marked, id, NewNode(a, a.cand.key, old))
       /\ issued' = issued \cup {id}
       /\ edges' = IF a.cand.episodic /\ job.prev # NoNode
                   THEN edges \cup {<<job.prev, id, "temporal">>} ELSE edges
       /\ job' = [job EXCEPT !.todo = @ \ {a}, !.fresh = @ \cup {id},
                             !.prev = LatestEpisode(a, id)]
  /\ UNCHANGED <<log, progress, saved>>

(* The new statements are attached to the entities of the batch that they  *)
(* mention.  Only resolved and new entities are in the pool.               *)
Attach ==
  /\ job # NoJob /\ job.pc = "commit" /\ job.todo = {}
  /\ edges' = edges \cup
       {<<p[1], p[2], "association">> : p \in
          {p \in job.fresh \X job.pool :
             \E f \in nodes[p[2]].forms : <<nodes[p[1]].cand, f>> \in Mentions}}
  /\ job' = [job EXCEPT !.pc = "save"]
  /\ UNCHANGED <<log, progress, nodes, saved, issued>>

Memory == [nodes |-> nodes, edges |-> edges]

(* save_graph: the whole graph, atomically (temporary file, then rename).  *)
SkipsSave ==  \* fault: progress moves without a save
  /\ job # NoJob /\ job.pc = "save"
  /\ job' = [job EXCEPT !.pc = "progress"]
  /\ UNCHANGED <<log, progress, nodes, edges, saved, issued>>
SaveGraph ==
  /\ job # NoJob /\ job.pc = "save"
  /\ saved' = Memory
  /\ job' = [job EXCEPT !.pc = "progress"]
  /\ UNCHANGED <<log, progress, nodes, edges, issued>>

(* Only now does the progress index move, to the tail that was read.       *)
SetProgress ==
  /\ job # NoJob /\ job.pc = "progress"
  /\ progress' = [progress EXCEPT ![job.session] = job.tail]
  /\ job' = NoJob
  /\ UNCHANGED <<log, nodes, edges, saved, issued>>

(* An exception leaves consolidate_session between two steps (a failing    *)
(* encoder, a full disk); the graph in memory keeps what was done so far.  *)
Abort ==
  /\ job # NoJob
  /\ job' = NoJob
  /\ UNCHANGED <<log, progress, nodes, edges, saved, issued>>

(* end_session or suspend saves the graph in memory, whatever it is; the   *)
(* next start_session loads the same graph.                                *)
EndSession ==
  /\ job = NoJob
  /\ saved' = Memory
  /\ UNCHANGED <<log, progress, nodes, edges, job, issued>>

(* The process dies and a new one loads the graph file.                    *)
KeepsJob ==  \* fault: what was in progress outlives the graph
  /\ nodes' = saved.nodes /\ edges' = saved.edges
  /\ UNCHANGED <<log, progress, saved, job, issued>>
Crash ==
  /\ nodes' = saved.nodes /\ edges' = saved.edges
  /\ job' = NoJob
  /\ UNCHANGED <<log, progress, saved, issued>>

(* A log that is shorter than its progress index comes of a deletion only: *)
(* that case of consolidate_session is HardDelete!ClampProgress.           *)
Consolidate(s) == NothingFound(s) \/ Begin(s)
Commit == ResolveEntity \/ AddEntity \/ CommitStatement \/ Attach
Finish == SaveGraph \/ SetProgress

Next ==
  \/ \E s \in Sessions, m \in Messages : LogMessage(s, m)
  \/ \E s \in Sessions : Consolidate(s)
  \/ Commit \/ Finish
  \/ Abort \/ EndSession \/ Crash

Spec == Init /\ [][Next]_vars

-----------------------------------------------------------------------------
(* Properties *)

(* Every variable has its shape; nodes in use were issued, links stay      *)
(* inside the graph (pipeline.py:302, 315: edges join committed nodes).    *)
GraphOK(g) ==
  /\ DOMAIN g.nodes \subseteq issued /\ g.nodes \in [DOMAIN g.nodes -> Node]
  /\ \A e \in g.edges : e \in Edge /\ e[1] \in DOMAIN g.nodes /\ e[2] \in DOMAIN g.nodes
TypeOK ==
  /\ log \in [Sessions -> Seq(Messages)]
  /\ progress \in [Sessions -> Nat]
  /\ issued \in SUBSET NodeIds
  /\ GraphOK(Memory)
  /\ DOMAIN saved = {"nodes", "edges"} /\ GraphOK(saved)
  /\ job # NoJob => /\ job \in Job
                    /\ job.pool \cup job.fresh \subseteq DOMAIN nodes
                    /\ job.prev # NoNode => job.prev \in DOMAIN nodes

(* "Two active memories with the same key contradict each other"           *)
(* (canonical.py:4): no graph, in memory or on disk, holds two active      *)
(* nodes with one slot key and different statements, whatever the batches, *)
(* aborts and crashes that led to it.                                      *)
OneValuePerSlot(g) ==
  \A m, n \in DOMAIN g :
    /\ g[m].status = "active" /\ g[n].status = "active"
    /\ g[m].key = g[n].key /\ g[m].key # NoKey
    => g[m].cand.statement = g[n].cand.statement
OneStatementPerSlot == OneValuePerSlot(nodes) /\ OneValuePerSlot(saved.nodes)

(* Reprocessing is idempotent: messages consolidated again after a crash or*)
(* an exception between the graph save and the progress save               *)
(* (pipeline.py:137-138) never produce a second node with the same content.*)
ContentsDiffer(g) == \A m, n \in DOMAIN g : g[m].cand.content = g[n].cand.content => m = n
NoContentTwice == ContentsDiffer(nodes) /\ ContentsDiffer(saved.nodes)

(* What the progress file calls done is in the graph file: every candidate *)
(* of every message below the progress index has a node on disk that holds *)
(* its statement, a near-duplicate or an alias, and that knows the session.*)
(* A crash at any point loses no processed message.  A rule match that the *)
(* cut to 100 characters may have dropped (extraction.py:34) is stood for  *)
(* by an earlier match of the session that begins alike.                   *)
Remembers(g, c, s) ==
  \E n \in DOMAIN g : /\ s \in g[n].sessions
                      /\ \E d \in Candidates : /\ d.statement = c.statement
                                               /\ <<d, g[n].cand>> \in Near \/ d \in g[n].forms
Earlier(i, k, j, l) == i < j \/ (i = j /\ k < l)
StandIns(s, j, l) ==
  LET c == Extract[log[s][j]][l]
  IN  {c} \cup {d \in Candidates :
        /\ ~c.entity /\ ~d.entity /\ d.prefix = c.prefix
        /\ \E i \in 1 .. j : \E k \in DOMAIN Extract[log[s][i]] :
             Earlier(i, k, j, l) /\ d = Extract[log[s][i]][k]}
ProcessedIsRemembered ==
  \A s \in Sessions : \A i \in 1 .. progress[s] : \A k \in DOMAIN Extract[log[s][i]] :
    \E c \in StandIns(s, i, k) : Remembers(saved.nodes, c, s)

(* Source references are message indexes (graph/models.py) and "no         *)
(* verifiable provenance, no memory" (stage2.py:346): in both graphs each  *)
(* reference points at a logged message in which the rules find, or for    *)
(* which a confident proposal cites, the node's content, a near-duplicate  *)
(* of it or one of its aliases.  Hard deletion relies on it.               *)
Yields(n, c) == c \in n.forms \/ <<c, n.cand>> \in Near
Cites(n, s, i) ==
  /\ i \in DOMAIN log[s]
  /\ \/ \E k \in DOMAIN Extract[log[s][i]] : Yields(n, Extract[log[s][i]][k])
     \/ \E answer \in Answers : \E k \in DOMAIN answer :
          /\ i \in answer[k].sources /\ answer[k].confidence >= MinConfidence
          /\ Yields(n, answer[k].cand)
RefsPointAtSource ==
  \A g \in {nodes, saved.nodes} : \A n \in DOMAIN g : \A r \in g[n].refs : Cites(g[n], r[1], r[2])

(* History is linked (pipeline.py:373-376): a superseded node has exactly  *)
(* one successor that lists it, and only superseded nodes are listed.      *)
SupersededHasOneSuccessor ==
  \A g \in {nodes, saved.nodes} : \A n \in DOMAIN g :
    LET successors == {m \in DOMAIN g : n \in g[m].supersedes}
    IN  IF g[n].status = "superseded" THEN \E m \in DOMAIN g : successors = {m}
        ELSE successors = {}

(* "a correction about the API endpoint can never clobber your name"       *)
(* (README.md:265): what replaced a fact always fills the same slot, also  *)
(* when a batch is reprocessed or its references were merged.              *)
FactsYieldToTheirSlot ==
  \A g \in {nodes, saved.nodes} : \A m, n \in DOMAIN g :
    n \in g[m].supersedes /\ g[n].cand.family \notin ImplicitFamilies => g[m].key = g[n].key

(* "Entities first, resolved one at a time against the graph as it grows,  *)
(* so two spellings in the same session still yield one node"              *)
(* (pipeline.py:266-267): no alias leads to two entities of one label.     *)
OneNodePerEntity ==
  \A g \in {nodes, saved.nodes} :
    \A m, n \in {n \in DOMAIN g : g[n].cand.entity} :
      /\ g[m].cand.label = g[n].cand.label
      /\ \E e \in g[m].forms, f \in g[n].forms : e.alias = f.alias
      => m = n

(* Temporal edges chain the episodes of a batch in order                   *)
(* (pipeline.py:298-307): an episode has one next and one previous at most.*)
EpisodesFormChains ==
  \A g \in {edges, saved.edges} : \A d, e \in g :
    d[3] = "temporal" /\ e[3] = "temporal" /\ (d[1] = e[1] \/ d[2] = e[2]) => d = e

(* Frequency counts sessions (pipeline.py:254-256): consolidation alone    *)
(* leaves a statement's access_count at the number of its source sessions, *)
(* however often a message of one session is processed again.              *)
AccessCountsSessions ==
  \A g \in {nodes, saved.nodes} : \A n \in DOMAIN g :
    ~g[n].cand.entity => g[n].access = Cardinality(g[n].sessions)

(* A fact slot on disk that has a current value never loses it: a save     *)
(* replaces the value and its successor together.                          *)
HasValue(g, k) == \E n \in DOMAIN g : g[n].status = "active" /\ g[n].key = k
FactsKeepAValue ==
  [][\A c \in Candidates :
       c.key # NoKey /\ c.family \notin ImplicitFamilies =>
         (HasValue(saved.nodes, c.key) => HasValue(saved'.nodes, c.key))]_saved

(* "so the newer one supersedes the older one" (canonical.py:5): the value *)
(* a session stated last for a slot, no other session having stated one,   *)
(* is the active value on disk once the message is processed.              *)
Stated(s, key) ==
  {a \in UNION {FoundAt(s, i) : i \in 1 .. progress[s]} : a.cand.key = key}
NewestStatementWins ==
  \A key \in Keys \ {NoKey}, s \in Sessions :
    (\A t \in Sessions \ {s} : Stated(t, key) = {}) =>
      \A a \in Stated(s, key) :
        (\A b \in Stated(s, key) \ {a} : Before(b, a)) =>
          \E n \in DOMAIN saved.nodes :
            /\ saved.nodes[n].status = "active"
            /\ saved.nodes[n].key = key
            /\ saved.nodes[n].cand.statement = a.cand.statement

(* Without failures: nothing aborts and nothing dies.                      *)
CalmNext ==
  \/ \E s \in Sessions, m \in Messages : LogMessage(s, m)
  \/ \E s \in Sessions : Consolidate(s)
  \/ Commit \/ Finish
CalmSpec == Init /\ [][CalmNext]_vars

=============================================================================
