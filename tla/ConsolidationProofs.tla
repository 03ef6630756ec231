------------------------ MODULE ConsolidationProofs ------------------------
(***************************************************************************)
(* Theorems about Consolidation for every set of sessions, messages and    *)
(* candidates, every extraction, every answer of an LLM, every relation of *)
(* near-duplicates and entities, and logs of any length.                   *)
(***************************************************************************)
EXTENDS Consolidation, TLAPS

USE DEF Memory

(* What the rules match past the progress index are occurrences, and so is *)
(* what of it is kept.                                                     *)
LEMMA FoundType ==
  ASSUME TypeOK, NEW s \in Sessions
  PROVE  /\ Matched(s) \subseteq Occurrence
         /\ Found(s) \subseteq Matched(s) /\ Found(s) \subseteq Occurrence
<1>1. ASSUME NEW i \in New(s), NEW k \in DOMAIN Extract[log[s][i]]
      PROVE  [cand |-> Extract[log[s][i]][k], stage |-> 1, message |-> i, at |-> k,
              index |-> i, refs |-> {i}] \in Occurrence
  <2>1. log[s] \in Seq(Messages) /\ progress[s] \in Nat
    BY DEF TypeOK
  <2>2. i \in 1 .. Len(log[s])
    BY <2>1 DEF New
  <2>3. log[s][i] \in Messages
    BY <2>1, <2>2
  <2>4. Extract[log[s][i]] \in Seq(Candidates)
    BY <2>3, CandidateShape
  <2>5. Extract[log[s][i]][k] \in Candidates /\ k \in Nat
    BY <2>4
  <2> QED BY <2>2, <2>5 DEF Occurrence
<1>2. Matched(s) \subseteq Occurrence
  BY <1>1 DEF Matched, FoundAt
<1>3. Found(s) \subseteq Matched(s)
  BY DEF Found, FirstOfPrefix
<1> QED BY <1>2, <1>3

(* So are the proposals that Stage 2 accepts, whatever the LLM answers.    *)
LEMMA ProposedType ==
  ASSUME TypeOK, NEW s \in Sessions, NEW answers \in [ChunkStarts(s) -> Answers]
  PROVE  Proposed(s, answers) \subseteq Occurrence
<1>1. New(s) \subseteq Nat
  BY DEF New, TypeOK
<1>2. ASSUME NEW start \in ChunkStarts(s)
      PROVE  Accepted(answers[start], s, start) \subseteq Occurrence
  <2> DEFINE answer == answers[start]
             Item == [cand : {c \in Candidates : ~c.entity},
                      confidence : Nat, sources : SUBSET Nat]
  <2>1. answer \in Seq(Item) /\ (\A item \in Item : item.cand \in Candidates)
    BY AnswerShape
  <2> HIDE DEF answer, Item
  <2>2. ASSUME NEW k \in DOMAIN answer, NEW i \in Cited(answer[k], s, start)
        PROVE  [cand |-> answer[k].cand, stage |-> 2, message |-> start, at |-> k,
                index |-> i, refs |-> Cited(answer[k], s, start)] \in Occurrence
    <3>1. Cited(answer[k], s, start) \subseteq Nat
      BY <1>1 DEF Cited, Chunk
    <3>2. answer[k].cand \in Candidates /\ k \in Nat
      BY <2>1
    <3>3. start \in Nat
      BY <1>1 DEF ChunkStarts
    <3> DEFINE refs == Cited(answer[k], s, start)
    <3>4. refs \in SUBSET Nat /\ i \in Nat
      BY <3>1
    <3> HIDE DEF refs
    <3>5. [cand |-> answer[k].cand, stage |-> 2, message |-> start, at |-> k,
           index |-> i, refs |-> refs] \in Occurrence
      BY <3>2, <3>3, <3>4 DEF Occurrence
    <3> QED BY <3>5 DEF refs
  <2>3. Accepted(answer, s, start) \subseteq Occurrence
    BY <2>2 DEF Accepted
  <2> QED BY <2>3 DEF answer
<1> QED BY <1>2 DEF Proposed

(* So is all that is gathered.                                             *)
LEMMA GatherType ==
  ASSUME TypeOK, NEW s \in Sessions, NEW answers \in [ChunkStarts(s) -> Answers]
  PROVE  Gather(s, answers) \subseteq Occurrence
BY FoundType, ProposedType DEF Gather, FirstOccurrences

(* What a set of occurrences cites are references.                         *)
LEMMA RefsType ==
  ASSUME NEW s \in Sessions, NEW found \in SUBSET Occurrence
  PROVE  RefsOf(s, found) \in SUBSET (Sessions \X Nat)
<1>1. \A a \in found : a.refs \subseteq Nat
  BY DEF Occurrence
<1> QED BY <1>1 DEF RefsOf

(* A reinforced node is a node, with the same content, slot and status.    *)
LEMMA ReinforceType ==
  ASSUME NEW n \in Node, NEW s \in Sessions, NEW found \in SUBSET Occurrence
  PROVE  /\ Reinforce(n, s, found) \in Node
         /\ Reinforce(n, s, found).cand = n.cand
         /\ Reinforce(n, s, found).key = n.key
         /\ Reinforce(n, s, found).status = n.status
         /\ Reinforce(n, s, found).supersedes = n.supersedes
<1> DEFINE cited == RefsOf(s, found)
           access == IF s \in n.sessions THEN n.access ELSE n.access + 1
           sessions == n.sessions \cup {s}
           refs == n.refs \cup cited
<1>2. cited \subseteq Sessions \X Nat
  BY RefsType
<1>3. access \in Nat /\ sessions \in SUBSET Sessions /\ refs \in SUBSET (Sessions \X Nat)
  BY <1>2 DEF Node
<1>4. Reinforce(n, s, found) = [n EXCEPT !.sessions = sessions, !.access = access, !.refs = refs]
  BY DEF Reinforce
<1> HIDE DEF cited, access, sessions, refs
<1> QED BY <1>3, <1>4 DEF Node

(* So does recording one more mention of an entity.                        *)
LEMMA RecogniseType ==
  ASSUME NEW n \in Node, NEW s \in Sessions, NEW a \in Occurrence
  PROVE  /\ Recognise(n, s, a) \in Node
         /\ Recognise(n, s, a).cand = n.cand
         /\ Recognise(n, s, a).key = n.key
         /\ Recognise(n, s, a).status = n.status
         /\ Recognise(n, s, a).supersedes = n.supersedes
<1> DEFINE sessions == n.sessions \cup {s}
           forms == n.forms \cup {a.cand}
           refs == n.refs \cup RefsOf(s, {a})
<1>1. /\ sessions \in SUBSET Sessions /\ forms \in SUBSET Candidates
      /\ refs \in SUBSET (Sessions \X Nat)
  BY RefsType DEF Node, Occurrence
<1>2. Recognise(n, s, a) = [n EXCEPT !.sessions = sessions, !.forms = forms, !.refs = refs]
  BY DEF Recognise
<1> HIDE DEF sessions, forms, refs
<1> QED BY <1>1, <1>2 DEF Node

(* Begin leaves every node in place and reinforces some.                   *)
LEMMA BeginNodes ==
  ASSUME TypeOK, NEW s \in Sessions, Begin(s)
  PROVE  /\ DOMAIN nodes' = DOMAIN nodes
         /\ nodes' \in [DOMAIN nodes -> Node]
         /\ \A n \in DOMAIN nodes : /\ nodes'[n].cand = nodes[n].cand
                                    /\ nodes'[n].key = nodes[n].key
                                    /\ nodes'[n].status = nodes[n].status
         /\ job' \in Job
         /\ job'.pool = {} /\ job'.fresh = {} /\ job'.prev = NoNode
<1>1. PICK answers \in [ChunkStarts(s) -> Answers] :
        LET batch == Gather(s, answers)
            known == {a \in batch : Matches(a.cand) # {}}
        IN  \E match \in [known -> DOMAIN nodes] :
              /\ nodes' = [n \in DOMAIN nodes |->
                             LET found == {a \in known : match[a] = n}
                             IN  IF found = {} THEN nodes[n] ELSE Reinforce(nodes[n], s, found)]
              /\ job' = [pc |-> "commit", session |-> s, tail |-> Len(log[s]),
                         todo |-> batch \ known, prev |-> NoNode, pool |-> {}, fresh |-> {}]
  BY Zenon DEF Begin
<1> DEFINE batch == Gather(s, answers)
           known == {a \in batch : Matches(a.cand) # {}}
<1>2. batch \subseteq Occurrence
  BY GatherType
<1>10. PICK match \in [known -> DOMAIN nodes] :
        /\ nodes' = [n \in DOMAIN nodes |->
                       LET found == {a \in known : match[a] = n}
                       IN  IF found = {} THEN nodes[n] ELSE Reinforce(nodes[n], s, found)]
        /\ job' = [pc |-> "commit", session |-> s, tail |-> Len(log[s]),
                   todo |-> batch \ known, prev |-> NoNode, pool |-> {}, fresh |-> {}]
  BY <1>1, Zenon
<1> HIDE DEF batch
<1>3. nodes \in [DOMAIN nodes -> Node]
  BY DEF TypeOK, GraphOK
<1>4. ASSUME NEW n \in DOMAIN nodes
      PROVE  /\ nodes'[n] \in Node
             /\ nodes'[n].cand = nodes[n].cand
             /\ nodes'[n].key = nodes[n].key
             /\ nodes'[n].status = nodes[n].status
  <2> DEFINE found == {a \in known : match[a] = n}
  <2>1. nodes'[n] = IF found = {} THEN nodes[n] ELSE Reinforce(nodes[n], s, found)
    BY <1>10
  <2>2. found \in SUBSET Occurrence /\ nodes[n] \in Node
    BY <1>2, <1>3
  <2> QED BY <2>1, <2>2, ReinforceType
<1>5. DOMAIN nodes' = DOMAIN nodes /\ nodes' = [n \in DOMAIN nodes |-> nodes'[n]]
  BY <1>10
<1>6. nodes' \in [DOMAIN nodes -> Node]
  BY <1>4, <1>5
<1>7. Len(log[s]) \in Nat
  BY DEF TypeOK
<1>8. job' \in Job
  BY <1>10, <1>2, <1>7 DEF Job
<1> QED BY <1>10, <1>4, <1>5, <1>6, <1>8

(* The node made for an occurrence is a node.                              *)
LEMMA NewNodeType ==
  ASSUME TypeOK, job # NoJob, NEW a \in job.todo,
         NEW key \in Keys \cup {NoKey}, NEW old \in SUBSET NodeIds
  PROVE  NewNode(a, key, old) \in Node
<1>1. job \in Job
  BY DEF TypeOK
<1>2. a \in Occurrence /\ job.session \in Sessions
  BY <1>1 DEF Job
<1>3. a.cand \in Candidates /\ RefsOf(job.session, {a}) \in SUBSET (Sessions \X Nat)
  BY <1>2, RefsType DEF Occurrence
<1> QED BY <1>2, <1>3 DEF NewNode, Node

(* Steps that leave the graphs and the job alone keep TypeOK.              *)
LEMMA TypeStep ==
  ASSUME TypeOK, [Next]_vars
  PROVE  TypeOK'
<1> USE DEF TypeOK, GraphOK
<1>1. ASSUME NEW s \in Sessions, NEW m \in Messages, LogMessage(s, m)
      PROVE  TypeOK'
  <2>1. Append(log[s], m) \in Seq(Messages)
    OBVIOUS
  <2> QED BY <1>1, <2>1 DEF LogMessage
<1>2. ASSUME NEW s \in Sessions, Consolidate(s)
      PROVE  TypeOK'
  <2>1. CASE NothingFound(s)
    BY <2>1 DEF NothingFound
  <2>2. CASE Begin(s)
    <3>1. /\ DOMAIN nodes' = DOMAIN nodes /\ nodes' \in [DOMAIN nodes' -> Node]
          /\ job' \in Job /\ job'.pool = {} /\ job'.fresh = {} /\ job'.prev = NoNode
      BY <2>2, BeginNodes
    <3>2. UNCHANGED <<log, progress, edges, saved, issued>>
      BY <2>2 DEF Begin
    <3> QED BY <3>1, <3>2
  <2> QED BY <1>2, <2>1, <2>2 DEF Consolidate
<1>3. ASSUME ResolveEntity
      PROVE  TypeOK'
  <2>1. PICK a \in job.todo : \E n \in Resolved(a.cand) :
          /\ nodes' = [nodes EXCEPT ![n] = Recognise(nodes[n], job.session, a)]
          /\ job' = [job EXCEPT !.todo = @ \ {a}, !.pool = @ \cup {n}]
    BY <1>3, Zenon DEF ResolveEntity
  <2>2. PICK n \in Resolved(a.cand) :
          /\ nodes' = [nodes EXCEPT ![n] = Recognise(nodes[n], job.session, a)]
          /\ job' = [job EXCEPT !.todo = @ \ {a}, !.pool = @ \cup {n}]
    BY <2>1, Zenon
  <2>3. job # NoJob /\ UNCHANGED <<log, progress, edges, saved, issued>>
    BY <1>3 DEF ResolveEntity
  <2>4. n \in DOMAIN nodes /\ n \in NodeIds /\ nodes[n] \in Node /\ job \in Job
    BY <2>3 DEF Resolved, KnownAs, Overlapping, Compatible
  <2>5. a \in Occurrence /\ job.session \in Sessions
    BY <2>4 DEF Job
  <2>6. Recognise(nodes[n], job.session, a) \in Node
    BY <2>4, <2>5, RecogniseType
  <2>7. DOMAIN nodes' = DOMAIN nodes /\ nodes' \in [DOMAIN nodes' -> Node]
    BY <2>2, <2>6
  <2>8. /\ job' \in Job /\ job'.pool = job.pool \cup {n}
        /\ job'.fresh = job.fresh /\ job'.prev = job.prev
    BY <2>2, <2>4 DEF Job
  <2> QED BY <2>3, <2>4, <2>7, <2>8
<1>4. ASSUME NEW graph \in [DOMAIN nodes -> Node], NEW id \in NodeIds \ issued, NEW node \in Node
      PROVE  /\ DOMAIN AddNode(graph, id, node) = DOMAIN nodes \cup {id}
             /\ AddNode(graph, id, node) \in [DOMAIN nodes \cup {id} -> Node]
  BY DEF AddNode
<1>5. ASSUME AddEntity
      PROVE  TypeOK'
  <2>1. PICK a \in job.todo, id \in NodeIds \ issued :
          /\ nodes' = AddNode(nodes, id, NewNode(a, NoKey, {}))
          /\ issued' = issued \cup {id}
          /\ job' = [job EXCEPT !.todo = @ \ {a}, !.pool = @ \cup {id}]
    BY <1>5, Zenon DEF AddEntity
  <2>2. job # NoJob /\ UNCHANGED <<log, progress, edges, saved>>
    BY <1>5 DEF AddEntity
  <2>3. NewNode(a, NoKey, {}) \in Node /\ job \in Job
    BY <2>2, NewNodeType
  <2>4. DOMAIN nodes' = DOMAIN nodes \cup {id} /\ nodes' \in [DOMAIN nodes' -> Node]
    BY <1>4, <2>1, <2>3
  <2>5. /\ job' \in Job /\ job'.pool = job.pool \cup {id}
        /\ job'.fresh = job.fresh /\ job'.prev = job.prev
    BY <2>1, <2>3 DEF Job
  <2> QED BY <2>1, <2>2, <2>4, <2>5
<1>6. ASSUME CommitStatement
      PROVE  TypeOK'
  <2>1. PICK a \in job.todo, id \in NodeIds \ issued :
          /\ LET old == Contradicted(a)
                 marked == [n \in DOMAIN nodes |->
                              IF n \in old THEN [nodes[n] EXCEPT !.status = "superseded"]
                              ELSE nodes[n]]
             IN  nodes' = AddNode(marked, id, NewNode(a, a.cand.key, old))
          /\ issued' = issued \cup {id}
          /\ edges' = IF a.cand.episodic /\ job.prev # NoNode
                      THEN edges \cup {<<job.prev, id, "temporal">>} ELSE edges
          /\ job' = [job EXCEPT !.todo = @ \ {a}, !.fresh = @ \cup {id},
                                !.prev = IF a.cand.episodic THEN id ELSE @]
    BY <1>6, Zenon DEF CommitStatement, LatestEpisode
  <2>2. job # NoJob /\ UNCHANGED <<log, progress, saved>>
    BY <1>6 DEF CommitStatement
  <2> DEFINE old == Contradicted(a)
             marked == [n \in DOMAIN nodes |->
                          IF n \in old THEN [nodes[n] EXCEPT !.status = "superseded"]
                          ELSE nodes[n]]
  <2>3. job \in Job /\ a.cand \in Candidates
    BY <2>2 DEF Job, Occurrence
  <2>4. old \subseteq DOMAIN nodes /\ old \in SUBSET NodeIds
    BY DEF Contradicted
  <2>5. marked \in [DOMAIN nodes -> Node]
    <3>1. \A n \in DOMAIN nodes : nodes[n] \in Node
      OBVIOUS
    <3>2. ASSUME NEW node \in Node
          PROVE  [node EXCEPT !.status = "superseded"] \in Node
      BY DEF Node
    <3> QED BY <3>1, <3>2
  <2>6. NewNode(a, a.cand.key, old) \in Node
    BY <2>2, <2>3, <2>4, NewNodeType DEF Keys
  <2>7. nodes' = AddNode(marked, id, NewNode(a, a.cand.key, old))
    BY <2>1
  <2>8. DOMAIN nodes' = DOMAIN nodes \cup {id} /\ nodes' \in [DOMAIN nodes' -> Node]
    <3> HIDE DEF old, marked
    <3> QED BY <1>4, <2>5, <2>6, <2>7
  <2>9. /\ job' \in Job /\ job'.pool = job.pool /\ job'.fresh = job.fresh \cup {id}
        /\ job'.prev \in {job.prev, id}
    BY <2>1, <2>3 DEF Job
  <2>10. \A e \in edges' : e \in Edge /\ e[1] \in DOMAIN nodes' /\ e[2] \in DOMAIN nodes'
    BY <2>1, <2>2, <2>3, <2>8 DEF Edge, Job
  <2> QED BY <2>1, <2>2, <2>8, <2>9, <2>10
<1>7. ASSUME Attach
      PROVE  TypeOK'
  <2>1. job' \in Job /\ job'.pool = job.pool /\ job'.fresh = job.fresh /\ job'.prev = job.prev
    BY <1>7 DEF Attach, Job
  <2>2. \A e \in edges' : e \in Edge /\ e[1] \in DOMAIN nodes /\ e[2] \in DOMAIN nodes
    BY <1>7 DEF Attach, Edge
  <2> QED BY <1>7, <2>1, <2>2 DEF Attach
<1>8. ASSUME SaveGraph
      PROVE  TypeOK'
  <2>1. job' \in Job /\ job'.pool = job.pool /\ job'.fresh = job.fresh /\ job'.prev = job.prev
    BY <1>8 DEF SaveGraph, Job
  <2> QED BY <1>8, <2>1 DEF SaveGraph
<1>9. ASSUME SetProgress
      PROVE  TypeOK'
  BY <1>9 DEF SetProgress, Job
<1>10. ASSUME Abort \/ EndSession \/ Crash
       PROVE  TypeOK'
  BY <1>10 DEF Abort, EndSession, Crash
<1>11. ASSUME UNCHANGED vars
       PROVE  TypeOK'
  BY <1>11 DEF vars
<1> QED BY <1>1, <1>2, <1>3, <1>5, <1>6, <1>7, <1>8, <1>9, <1>10, <1>11
        DEF Next, Commit, Finish

(* Every reachable state is well-formed: the graphs in memory and on disk  *)
(* are functions from issued ids to nodes and no edge dangles, for any     *)
(* number of sessions, messages and nodes.                                 *)
THEOREM TypeCorrect == Spec => []TypeOK
<1>1. Init => TypeOK
  BY DEF Init, TypeOK, GraphOK, EmptyGraph, Edge
<1>2. TypeOK /\ [Next]_vars => TypeOK'
  BY TypeStep
<1> QED BY <1>1, <1>2, PTL DEF Spec

-----------------------------------------------------------------------------
(* Nodes that keep key, status and statement keep one value per slot.      *)
LEMMA SameSlots ==
  ASSUME NEW g, NEW h, OneValuePerSlot(g), DOMAIN h = DOMAIN g,
         \A n \in DOMAIN g : /\ h[n].key = g[n].key /\ h[n].status = g[n].status
                             /\ h[n].cand = g[n].cand
  PROVE  OneValuePerSlot(h)
BY DEF OneValuePerSlot

(* Committing a statement leaves one value per slot: an active node of the *)
(* same slot with another statement is always among the contradicted.      *)
LEMMA CommitKeepsOneValue ==
  ASSUME TypeOK, OneValuePerSlot(nodes), CommitStatement
  PROVE  OneValuePerSlot(nodes')
<1>1. PICK a \in job.todo, id \in NodeIds \ issued :
         LET old == Contradicted(a)
             marked == [n \in DOMAIN nodes |->
                          IF n \in old THEN [nodes[n] EXCEPT !.status = "superseded"]
                          ELSE nodes[n]]
         IN  nodes' = AddNode(marked, id, NewNode(a, a.cand.key, old))
  BY Zenon DEF CommitStatement, LatestEpisode
<1> DEFINE old == Contradicted(a)
           marked == [n \in DOMAIN nodes |->
                        IF n \in old THEN [nodes[n] EXCEPT !.status = "superseded"]
                        ELSE nodes[n]]
           node == NewNode(a, a.cand.key, old)
<1>2. nodes' = AddNode(marked, id, node)
  BY <1>1
<1>3. id \notin DOMAIN nodes /\ nodes \in [DOMAIN nodes -> Node]
  BY DEF TypeOK, GraphOK
<1>4. DOMAIN nodes' = DOMAIN nodes \cup {id} /\ nodes'[id] = node
  BY <1>2 DEF AddNode
<1>5. \A n \in DOMAIN nodes : nodes'[n] = marked[n]
  BY <1>2, <1>3 DEF AddNode
<1>6. ASSUME NEW n \in DOMAIN nodes
      PROVE  /\ nodes'[n].key = nodes[n].key /\ nodes'[n].cand = nodes[n].cand
             /\ nodes'[n].status = "active" => nodes[n].status = "active" /\ n \notin old
  <2>1. nodes[n] \in Node
    BY <1>3
  <2>2. CASE n \in old
    <3>1. nodes'[n] = [nodes[n] EXCEPT !.status = "superseded"]
      BY <1>5, <2>2
    <3> QED BY <2>1, <3>1 DEF Node
  <2>3. CASE n \notin old
    BY <1>5, <2>3
  <2> QED BY <2>2, <2>3
<1>7. node.key = a.cand.key /\ node.cand = a.cand
  BY DEF NewNode
<1>8. ASSUME NEW n \in DOMAIN nodes, nodes'[n].status = "active",
             nodes'[n].key = a.cand.key, a.cand.key # NoKey
      PROVE  nodes'[n].cand.statement = a.cand.statement
  <2>1. nodes[n].key = a.cand.key /\ nodes[n].status = "active" /\ n \notin old
    BY <1>6, <1>8
  <2>2. CorrectionSupersedes(a, nodes[n], job.session)
    BY <2>1, <1>8 DEF CorrectionSupersedes
  <2> QED BY <1>6, <2>1, <2>2 DEF Contradicted
<1> HIDE DEF old, marked, node
<1>9. ASSUME NEW m \in DOMAIN nodes', NEW n \in DOMAIN nodes',
             nodes'[m].status = "active", nodes'[n].status = "active",
             nodes'[m].key = nodes'[n].key, nodes'[m].key # NoKey
      PROVE  nodes'[m].cand.statement = nodes'[n].cand.statement
  <2>1. CASE m = id /\ n = id
    BY <2>1
  <2>2. CASE m = id /\ n \in DOMAIN nodes
    BY <1>4, <1>7, <1>8, <1>9, <2>2
  <2>3. CASE n = id /\ m \in DOMAIN nodes
    BY <1>4, <1>7, <1>8, <1>9, <2>3
  <2>4. CASE m \in DOMAIN nodes /\ n \in DOMAIN nodes
    BY <1>6, <1>9, <2>4 DEF OneValuePerSlot
  <2> QED BY <1>4, <2>1, <2>2, <2>3, <2>4
<1> QED BY <1>9 DEF OneValuePerSlot

(* Every step keeps one value per slot in memory and on disk.              *)
LEMMA SlotStep ==
  ASSUME TypeOK, OneStatementPerSlot, [Next]_vars
  PROVE  OneStatementPerSlot'
<1> USE DEF OneStatementPerSlot
<1>1. ASSUME UNCHANGED <<nodes, saved>>
      PROVE  OneStatementPerSlot'
  BY <1>1 DEF OneValuePerSlot
<1>2. ASSUME NEW s \in Sessions, Begin(s)
      PROVE  OneStatementPerSlot'
  <2>1. OneValuePerSlot(nodes')
    BY <1>2, BeginNodes, SameSlots
  <2> QED BY <1>2, <2>1 DEF Begin
<1>3. ASSUME ResolveEntity
      PROVE  OneStatementPerSlot'
  <2>1. PICK a \in job.todo : \E n \in Resolved(a.cand) :
          nodes' = [nodes EXCEPT ![n] = Recognise(nodes[n], job.session, a)]
    BY <1>3, Zenon DEF ResolveEntity
  <2>2. PICK n \in Resolved(a.cand) :
          nodes' = [nodes EXCEPT ![n] = Recognise(nodes[n], job.session, a)]
    BY <2>1, Zenon
  <2>3. n \in DOMAIN nodes /\ nodes[n] \in Node /\ a \in Occurrence /\ job.session \in Sessions
    BY <1>3 DEF Resolved, KnownAs, Overlapping, Compatible, ResolveEntity, TypeOK, GraphOK, Job
  <2>4. \A m \in DOMAIN nodes : /\ nodes'[m].key = nodes[m].key
                                /\ nodes'[m].status = nodes[m].status
                                /\ nodes'[m].cand = nodes[m].cand
    BY <2>2, <2>3, RecogniseType
  <2>5. OneValuePerSlot(nodes')
    BY <2>2, <2>4, SameSlots
  <2> QED BY <1>3, <2>5 DEF ResolveEntity
<1>4. ASSUME AddEntity
      PROVE  OneStatementPerSlot'
  <2>1. PICK a \in job.todo, id \in NodeIds \ issued :
          nodes' = AddNode(nodes, id, NewNode(a, NoKey, {}))
    BY <1>4, Zenon DEF AddEntity
  <2>2. DOMAIN nodes' = DOMAIN nodes \cup {id} /\ nodes'[id].key = NoKey
    BY <2>1 DEF AddNode, NewNode
  <2>3. \A n \in DOMAIN nodes : nodes'[n] = nodes[n]
    BY <2>1 DEF AddNode, TypeOK, GraphOK
  <2>4. OneValuePerSlot(nodes')
    BY <2>2, <2>3 DEF OneValuePerSlot
  <2> QED BY <1>4, <2>4 DEF AddEntity
<1>5. ASSUME CommitStatement
      PROVE  OneStatementPerSlot'
  BY <1>5, CommitKeepsOneValue DEF CommitStatement
<1>6. ASSUME SaveGraph \/ EndSession \/ Crash
      PROVE  OneStatementPerSlot'
  BY <1>6 DEF SaveGraph, EndSession, Crash
<1> QED BY <1>1, <1>2, <1>3, <1>4, <1>5, <1>6
        DEF Next, Consolidate, Commit, Finish, LogMessage, NothingFound,
            Attach, SetProgress, Abort, vars

(* Two active memories never disagree about a slot, in memory or on disk,  *)
(* after any sequence of batches, exceptions and crashes.                  *)
THEOREM OneActiveStatementPerSlot == Spec => []OneStatementPerSlot
<1>1. Init => OneStatementPerSlot
  BY DEF Init, OneStatementPerSlot, OneValuePerSlot, EmptyGraph
<1>2. TypeOK /\ OneStatementPerSlot /\ [Next]_vars => OneStatementPerSlot'
  BY SlotStep
<1> QED BY <1>1, <1>2, TypeCorrect, PTL DEF Spec

-----------------------------------------------------------------------------
(* NoContentTwice is not inductive by itself: a commit adds a node for any *)
(* candidate still waiting.  What makes it so is that the waiting          *)
(* candidates differ in content from every node and from one another.      *)
TodoIsNew ==
  job # NoJob =>
    /\ \A a \in job.todo, n \in DOMAIN nodes : a.cand.content # nodes[n].cand.content
    /\ \A a, b \in job.todo : a.cand.content = b.cand.content => a = b

(* Of two occurrences of one statement only one is the first.              *)
LEMMA FirstOccurrencesDiffer ==
  ASSUME NEW found \in SUBSET Occurrence,
         NEW a \in FirstOccurrences(found), NEW b \in FirstOccurrences(found),
         a.cand.content = b.cand.content
  PROVE  a = b
<1>1. a.cand.statement = b.cand.statement
  BY SameContent DEF FirstOccurrences, Occurrence
<1>2. CASE a # b
  <2>1. Before(a, b) /\ Before(b, a)
    BY <1>1, <1>2 DEF FirstOccurrences
  <2>2. /\ a.stage \in Nat /\ a.message \in Nat /\ a.at \in Nat
        /\ b.stage \in Nat /\ b.message \in Nat /\ b.at \in Nat
    BY DEF FirstOccurrences, Occurrence
  <2> QED BY <2>1, <2>2 DEF Before
<1> QED BY <1>2

(* A node added for a waiting candidate keeps both parts of the invariant. *)
LEMMA AddKeepsContents ==
  ASSUME TypeOK, ContentsDiffer(nodes), TodoIsNew, job # NoJob,
         NEW a \in job.todo, NEW id \in NodeIds \ issued, NEW node, node.cand = a.cand,
         NEW graph, DOMAIN graph = DOMAIN nodes,
         \A n \in DOMAIN nodes : graph[n].cand = nodes[n].cand,
         nodes' = AddNode(graph, id, node), job'.todo = job.todo \ {a}
  PROVE  ContentsDiffer(nodes') /\ TodoIsNew'
<1>1. id \notin DOMAIN nodes
  BY DEF TypeOK, GraphOK
<1>2. /\ DOMAIN nodes' = DOMAIN nodes \cup {id}
      /\ nodes'[id].cand = a.cand
      /\ \A n \in DOMAIN nodes : nodes'[n].cand = nodes[n].cand
  BY <1>1 DEF AddNode
<1>3. ContentsDiffer(nodes')
  BY <1>2 DEF ContentsDiffer, TodoIsNew
<1>4. \A b \in job'.todo : b \in job.todo /\ b # a
  OBVIOUS
<1>5. TodoIsNew'
  BY <1>2, <1>4 DEF TodoIsNew
<1> QED BY <1>3, <1>5

(* Every step keeps contents apart, in memory and on disk.                 *)
LEMMA ContentStep ==
  ASSUME TypeOK, NoContentTwice, TodoIsNew, [Next]_vars
  PROVE  NoContentTwice' /\ TodoIsNew'
<1> USE DEF NoContentTwice
<1>1. ASSUME UNCHANGED <<nodes, saved, job>>
      PROVE  NoContentTwice' /\ TodoIsNew'
  BY <1>1 DEF ContentsDiffer, TodoIsNew
<1>2. ASSUME NEW s \in Sessions, Begin(s)
      PROVE  NoContentTwice' /\ TodoIsNew'
  <2>1. /\ DOMAIN nodes' = DOMAIN nodes
        /\ \A n \in DOMAIN nodes : nodes'[n].cand = nodes[n].cand
    BY <1>2, BeginNodes
  <2>2. PICK answers \in [ChunkStarts(s) -> Answers] :
          job'.todo = Gather(s, answers) \ {a \in Gather(s, answers) : Matches(a.cand) # {}}
    <3>1. PICK answers \in [ChunkStarts(s) -> Answers] :
            LET batch == Gather(s, answers)
                known == {a \in batch : Matches(a.cand) # {}}
            IN  \E match \in [known -> DOMAIN nodes] :
                  job' = [pc |-> "commit", session |-> s, tail |-> Len(log[s]),
                          todo |-> batch \ known, prev |-> NoNode, pool |-> {}, fresh |-> {}]
      BY <1>2, Zenon DEF Begin
    <3> DEFINE batch == Gather(s, answers)
               known == {a \in batch : Matches(a.cand) # {}}
    <3>2. PICK match \in [known -> DOMAIN nodes] :
            job' = [pc |-> "commit", session |-> s, tail |-> Len(log[s]),
                    todo |-> batch \ known, prev |-> NoNode, pool |-> {}, fresh |-> {}]
      BY <3>1, Zenon
    <3> HIDE DEF batch, known
    <3>3. job'.todo = batch \ known
      BY <3>2
    <3> QED BY <3>3 DEF batch, known
  <2>3. \A a \in job'.todo, n \in DOMAIN nodes : a.cand.content # nodes[n].cand.content
    BY <2>2 DEF Matches
  <2>4. Found(s) \cup Proposed(s, answers) \subseteq Occurrence
    BY FoundType, ProposedType
  <2>5. \A a, b \in Gather(s, answers) : a.cand.content = b.cand.content => a = b
    BY <2>4, FirstOccurrencesDiffer DEF Gather
  <2>6. ContentsDiffer(nodes')
    BY <2>1 DEF ContentsDiffer
  <2>7. job'.todo \subseteq Gather(s, answers)
    BY <2>2
  <2>8. TodoIsNew'
    BY <2>1, <2>3, <2>5, <2>7 DEF TodoIsNew
  <2>9. saved' = saved
    BY <1>2 DEF Begin
  <2> QED BY <2>6, <2>8, <2>9
<1>3. ASSUME ResolveEntity
      PROVE  NoContentTwice' /\ TodoIsNew'
  <2>1. PICK a \in job.todo : \E n \in Resolved(a.cand) :
          /\ nodes' = [nodes EXCEPT ![n] = Recognise(nodes[n], job.session, a)]
          /\ job' = [job EXCEPT !.todo = @ \ {a}, !.pool = @ \cup {n}]
    BY <1>3, Zenon DEF ResolveEntity
  <2>2. PICK n \in Resolved(a.cand) :
          /\ nodes' = [nodes EXCEPT ![n] = Recognise(nodes[n], job.session, a)]
          /\ job' = [job EXCEPT !.todo = @ \ {a}, !.pool = @ \cup {n}]
    BY <2>1, Zenon
  <2>3. /\ n \in DOMAIN nodes /\ nodes[n] \in Node
        /\ a \in Occurrence /\ job \in Job /\ job # NoJob
    BY <1>3 DEF Resolved, KnownAs, Overlapping, Compatible, ResolveEntity, TypeOK, GraphOK, Job
  <2>4. /\ DOMAIN nodes' = DOMAIN nodes
        /\ \A m \in DOMAIN nodes : nodes'[m].cand = nodes[m].cand
    BY <2>2, <2>3, RecogniseType DEF Job
  <2>5. job'.todo = job.todo \ {a}
    BY <2>2, <2>3 DEF Job
  <2> QED BY <1>3, <2>3, <2>4, <2>5 DEF ContentsDiffer, TodoIsNew, ResolveEntity
<1>4. ASSUME AddEntity
      PROVE  NoContentTwice' /\ TodoIsNew'
  <2>1. PICK a \in job.todo, id \in NodeIds \ issued :
          /\ nodes' = AddNode(nodes, id, NewNode(a, NoKey, {}))
          /\ job' = [job EXCEPT !.todo = @ \ {a}, !.pool = @ \cup {id}]
    BY <1>4, Zenon DEF AddEntity
  <2>2. job # NoJob /\ job \in Job /\ saved' = saved
    BY <1>4 DEF AddEntity, TypeOK
  <2>3. job'.todo = job.todo \ {a} /\ NewNode(a, NoKey, {}).cand = a.cand
    BY <2>1, <2>2 DEF Job, NewNode
  <2>4. ContentsDiffer(nodes') /\ TodoIsNew'
    BY <2>1, <2>2, <2>3, AddKeepsContents
  <2> QED BY <2>2, <2>4
<1>5. ASSUME CommitStatement
      PROVE  NoContentTwice' /\ TodoIsNew'
  <2>1. PICK a \in job.todo, id \in NodeIds \ issued :
          /\ LET old == Contradicted(a)
                 marked == [n \in DOMAIN nodes |->
                              IF n \in old THEN [nodes[n] EXCEPT !.status = "superseded"]
                              ELSE nodes[n]]
             IN  nodes' = AddNode(marked, id, NewNode(a, a.cand.key, old))
          /\ job' = [job EXCEPT !.todo = @ \ {a}, !.fresh = @ \cup {id},
                                !.prev = IF a.cand.episodic THEN id ELSE @]
    BY <1>5, Zenon DEF CommitStatement, LatestEpisode
  <2> DEFINE old == Contradicted(a)
             marked == [n \in DOMAIN nodes |->
                          IF n \in old THEN [nodes[n] EXCEPT !.status = "superseded"]
                          ELSE nodes[n]]
             node == NewNode(a, a.cand.key, old)
  <2>2. job # NoJob /\ job \in Job /\ saved' = saved
    BY <1>5 DEF CommitStatement, TypeOK
  <2>3. job'.todo = job.todo \ {a} /\ node.cand = a.cand
    BY <2>1, <2>2 DEF Job, NewNode
  <2>4. ASSUME NEW n \in Node
        PROVE  [n EXCEPT !.status = "superseded"].cand = n.cand
    BY DEF Node
  <2>5. DOMAIN marked = DOMAIN nodes /\ \A n \in DOMAIN nodes : marked[n].cand = nodes[n].cand
    BY <2>4 DEF TypeOK, GraphOK
  <2>6. nodes' = AddNode(marked, id, node)
    BY <2>1
  <2> HIDE DEF old, marked, node
  <2>7. ContentsDiffer(nodes') /\ TodoIsNew'
    BY <2>2, <2>3, <2>5, <2>6, AddKeepsContents
  <2> QED BY <2>2, <2>7
<1>6. ASSUME Attach \/ SaveGraph
      PROVE  NoContentTwice' /\ TodoIsNew'
  <2>1. job'.todo = job.todo /\ job # NoJob /\ nodes' = nodes
    BY <1>6 DEF Attach, SaveGraph, TypeOK, Job
  <2> QED BY <1>6, <2>1 DEF Attach, SaveGraph, TodoIsNew, ContentsDiffer
<1>7. ASSUME SetProgress \/ Abort \/ EndSession \/ Crash
      PROVE  NoContentTwice' /\ TodoIsNew'
  BY <1>7 DEF SetProgress, Abort, EndSession, Crash, TodoIsNew, ContentsDiffer
<1> QED BY <1>1, <1>2, <1>3, <1>4, <1>5, <1>6, <1>7
        DEF Next, Consolidate, Commit, Finish, LogMessage, NothingFound, vars

(* Reprocessing never duplicates: no content has two nodes, however often  *)
(* a batch fails or the process dies before its progress is recorded.      *)
THEOREM ReprocessingIsIdempotent == Spec => []NoContentTwice
<1>1. Init => NoContentTwice /\ TodoIsNew
  BY DEF Init, NoContentTwice, ContentsDiffer, EmptyGraph, TodoIsNew
<1>2. TypeOK /\ NoContentTwice /\ TodoIsNew /\ [Next]_vars => NoContentTwice' /\ TodoIsNew'
  BY ContentStep
<1> QED BY <1>1, <1>2, TypeCorrect, PTL DEF Spec

=============================================================================
