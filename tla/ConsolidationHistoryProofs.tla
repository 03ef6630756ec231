--------------------- MODULE ConsolidationHistoryProofs ---------------------
(***************************************************************************)
(* Theorems about what Consolidation makes of a graph over time: who       *)
(* succeeds whom, which episodes follow each other, which spellings name   *)
(* one entity, and that no fact loses its value on disk.  They hold for    *)
(* every value of the constants that Consolidation allows.                 *)
(*                                                                         *)
(* The lemmas on top say once, field by field, what each action does to    *)
(* the nodes; the invariants are then about a graph and need no more.      *)
(***************************************************************************)
EXTENDS ConsolidationProofs

USE DEF Memory

(* Reinforcing touches sessions, access count and references only.         *)
LEMMA ReinforceEffect ==
  ASSUME NEW n \in Node, NEW s \in Sessions, NEW found, NEW m, m = Reinforce(n, s, found)
  PROVE  /\ m.cand = n.cand /\ m.key = n.key /\ m.status = n.status
         /\ m.supersedes = n.supersedes /\ m.forms = n.forms
         /\ m.sessions = n.sessions \cup {s}
         /\ m.access = IF s \in n.sessions THEN n.access ELSE n.access + 1
         /\ m.refs = n.refs \cup RefsOf(s, found)
BY DEF Reinforce, Node

(* Recognising an entity touches sessions, aliases and references only.    *)
LEMMA RecogniseEffect ==
  ASSUME NEW n \in Node, NEW s \in Sessions, NEW a \in Occurrence,
         NEW m, m = Recognise(n, s, a)
  PROVE  /\ m.cand = n.cand /\ m.key = n.key /\ m.status = n.status
         /\ m.supersedes = n.supersedes /\ m.access = n.access
         /\ m.forms = n.forms \cup {a.cand}
         /\ m.sessions = n.sessions \cup {s}
         /\ m.refs = n.refs \cup {<<s, i>> : i \in a.refs}
BY DEF Recognise, Node, RefsOf

(* Begin, for some answers of the LLM and some choice of matches: what is  *)
(* known reinforces the node it matches, the rest of the batch waits.      *)
LEMMA BeginEffect ==
  ASSUME TypeOK, NEW s \in Sessions, Begin(s)
  PROVE  \E answers \in [ChunkStarts(s) -> Answers] :
           LET batch == Gather(s, answers)
               known == {a \in batch : Matches(a.cand) # {}}
           IN  \E match \in [known -> DOMAIN nodes] :
                 /\ \A a \in known : match[a] \in Matches(a.cand)
                 /\ DOMAIN nodes' = DOMAIN nodes
                 /\ \A n \in DOMAIN nodes :
                      nodes'[n] = IF {a \in known : match[a] = n} = {} THEN nodes[n]
                                  ELSE Reinforce(nodes[n], s, {a \in known : match[a] = n})
                 /\ job'.todo = batch \ known /\ job'.session = s
                 /\ job'.tail = Len(log[s]) /\ job'.pc = "commit"
<1>1. PICK answers \in [ChunkStarts(s) -> Answers] :
        LET batch == Gather(s, answers)
            known == {a \in batch : Matches(a.cand) # {}}
        IN  \E match \in [known -> DOMAIN nodes] :
              /\ \A a \in known : match[a] \in Matches(a.cand)
              /\ nodes' = [n \in DOMAIN nodes |->
                             LET found == {a \in known : match[a] = n}
                             IN  IF found = {} THEN nodes[n] ELSE Reinforce(nodes[n], s, found)]
              /\ job' = [pc |-> "commit", session |-> s, tail |-> Len(log[s]),
                         todo |-> batch \ known, prev |-> NoNode, pool |-> {}, fresh |-> {}]
  BY Zenon DEF Begin
<1> DEFINE batch == Gather(s, answers)
           known == {a \in batch : Matches(a.cand) # {}}
<1>2. PICK match \in [known -> DOMAIN nodes] :
        /\ \A a \in known : match[a] \in Matches(a.cand)
        /\ nodes' = [n \in DOMAIN nodes |->
                       LET found == {a \in known : match[a] = n}
                       IN  IF found = {} THEN nodes[n] ELSE Reinforce(nodes[n], s, found)]
        /\ job' = [pc |-> "commit", session |-> s, tail |-> Len(log[s]),
                   todo |-> batch \ known, prev |-> NoNode, pool |-> {}, fresh |-> {}]
  BY <1>1, Zenon
<1> HIDE DEF batch, known
<1>3. /\ DOMAIN nodes' = DOMAIN nodes
      /\ \A n \in DOMAIN nodes :
           nodes'[n] = IF {a \in known : match[a] = n} = {} THEN nodes[n]
                       ELSE Reinforce(nodes[n], s, {a \in known : match[a] = n})
      /\ job'.todo = batch \ known /\ job'.session = s
      /\ job'.tail = Len(log[s]) /\ job'.pc = "commit"
  BY <1>2
<1> USE DEF batch, known
<1> QED BY <1>2, <1>3, Zenon

(* So Begin adds to sessions, access counts and references, nothing else.  *)
LEMMA BeginReinforces ==
  ASSUME TypeOK, NEW s \in Sessions, Begin(s)
  PROVE  /\ DOMAIN nodes' = DOMAIN nodes
         /\ \A n \in DOMAIN nodes :
              nodes'[n] = nodes[n] \/ \E found : nodes'[n] = Reinforce(nodes[n], s, found)
<1>1. PICK answers \in [ChunkStarts(s) -> Answers] :
        LET batch == Gather(s, answers)
            known == {a \in batch : Matches(a.cand) # {}}
        IN  \E match \in [known -> DOMAIN nodes] :
              /\ \A a \in known : match[a] \in Matches(a.cand)
              /\ DOMAIN nodes' = DOMAIN nodes
              /\ \A n \in DOMAIN nodes :
                   nodes'[n] = IF {a \in known : match[a] = n} = {} THEN nodes[n]
                               ELSE Reinforce(nodes[n], s, {a \in known : match[a] = n})
              /\ job'.todo = batch \ known /\ job'.session = s
              /\ job'.tail = Len(log[s]) /\ job'.pc = "commit"
  BY BeginEffect, Zenon
<1> DEFINE known == {a \in Gather(s, answers) : Matches(a.cand) # {}}
<1>2. PICK match \in [known -> DOMAIN nodes] :
        /\ DOMAIN nodes' = DOMAIN nodes
        /\ \A n \in DOMAIN nodes :
             nodes'[n] = IF {a \in known : match[a] = n} = {} THEN nodes[n]
                         ELSE Reinforce(nodes[n], s, {a \in known : match[a] = n})
  BY <1>1
<1> HIDE DEF known
<1>3. ASSUME NEW n \in DOMAIN nodes
      PROVE  nodes'[n] = nodes[n] \/ \E found : nodes'[n] = Reinforce(nodes[n], s, found)
  <2> DEFINE found == {a \in known : match[a] = n}
  <2>1. nodes'[n] = IF found = {} THEN nodes[n] ELSE Reinforce(nodes[n], s, found)
    BY <1>2
  <2> HIDE DEF found
  <2> QED BY <2>1
<1> QED BY <1>2, <1>3

(* A step on one candidate goes on with the same batch.                    *)
SameBatch == job'.session = job.session /\ job'.tail = job.tail /\ job'.pc = job.pc

(* ResolveEntity records one mention on one entity.                        *)
LEMMA ResolveEffect ==
  ASSUME TypeOK, ResolveEntity
  PROVE  \E a \in job.todo : \E n \in DOMAIN nodes :
           /\ a \in Occurrence /\ a.cand.entity /\ n \in Resolved(a.cand)
           /\ DOMAIN nodes' = DOMAIN nodes
           /\ nodes'[n] = Recognise(nodes[n], job.session, a)
           /\ \A m \in DOMAIN nodes \ {n} : nodes'[m] = nodes[m]
           /\ job'.todo = job.todo \ {a} /\ job'.prev = job.prev /\ SameBatch
<1>1. PICK a \in job.todo : \E n \in Resolved(a.cand) :
        /\ a.cand.entity
        /\ nodes' = [nodes EXCEPT ![n] = Recognise(nodes[n], job.session, a)]
        /\ job' = [job EXCEPT !.todo = @ \ {a}, !.pool = @ \cup {n}]
  BY Zenon DEF ResolveEntity
<1>2. PICK n \in Resolved(a.cand) :
        /\ a.cand.entity
        /\ nodes' = [nodes EXCEPT ![n] = Recognise(nodes[n], job.session, a)]
        /\ job' = [job EXCEPT !.todo = @ \ {a}, !.pool = @ \cup {n}]
  BY <1>1, Zenon
<1>3. job \in Job
  BY DEF ResolveEntity, TypeOK
<1>4. n \in DOMAIN nodes /\ a \in Occurrence
  BY <1>3 DEF Resolved, KnownAs, Overlapping, Compatible, Job
<1>5. job'.todo = job.todo \ {a} /\ job'.prev = job.prev /\ SameBatch
  BY <1>2, <1>3 DEF Job, SameBatch
<1>6. nodes = [m \in DOMAIN nodes |-> nodes[m]]
  BY DEF TypeOK, GraphOK
<1>7. /\ DOMAIN nodes' = DOMAIN nodes
      /\ nodes'[n] = Recognise(nodes[n], job.session, a)
      /\ \A m \in DOMAIN nodes \ {n} : nodes'[m] = nodes[m]
  BY <1>2, <1>4, <1>6
<1> QED BY <1>2, <1>4, <1>5, <1>7, Zenon

(* AddEntity adds one node and changes no other.                           *)
LEMMA AddEntityEffect ==
  ASSUME TypeOK, AddEntity
  PROVE  \E a \in job.todo : \E id \in NodeIds \ issued :
           /\ a \in Occurrence /\ a.cand.entity /\ IsNew(a.cand)
           /\ id \notin DOMAIN nodes
           /\ DOMAIN nodes' = DOMAIN nodes \cup {id}
           /\ nodes'[id] = NewNode(a, NoKey, {})
           /\ \A n \in DOMAIN nodes : nodes'[n] = nodes[n]
           /\ job'.todo = job.todo \ {a} /\ job'.prev = job.prev /\ SameBatch
<1>1. PICK a \in job.todo, id \in NodeIds \ issued :
        /\ a.cand.entity /\ IsNew(a.cand)
        /\ nodes' = AddNode(nodes, id, NewNode(a, NoKey, {}))
        /\ job' = [job EXCEPT !.todo = @ \ {a}, !.pool = @ \cup {id}]
  BY Zenon DEF AddEntity
<1>2. job \in Job
  BY DEF AddEntity, TypeOK
<1>3. id \notin DOMAIN nodes /\ a \in Occurrence
  BY <1>2 DEF Job, TypeOK, GraphOK
<1>4. /\ DOMAIN nodes' = DOMAIN nodes \cup {id}
      /\ nodes'[id] = NewNode(a, NoKey, {})
      /\ \A n \in DOMAIN nodes : nodes'[n] = nodes[n]
  BY <1>1, <1>3 DEF AddNode
<1>5. job'.todo = job.todo \ {a} /\ job'.prev = job.prev /\ SameBatch
  BY <1>1, <1>2 DEF Job, SameBatch
<1> QED BY <1>1, <1>3, <1>4, <1>5, Zenon

(* CommitStatement adds one node and marks those that it contradicts; the  *)
(* rest of every node stays.                                               *)
LEMMA CommitEffect ==
  ASSUME TypeOK, CommitStatement
  PROVE  \E a \in job.todo : \E id \in NodeIds \ issued :
           /\ a \in Occurrence /\ ~a.cand.entity
           /\ id \notin DOMAIN nodes
           /\ DOMAIN nodes' = DOMAIN nodes \cup {id}
           /\ nodes'[id] = NewNode(a, a.cand.key, Contradicted(a))
           /\ \A n \in DOMAIN nodes :
                /\ nodes'[n].cand = nodes[n].cand /\ nodes'[n].key = nodes[n].key
                /\ nodes'[n].sessions = nodes[n].sessions
                /\ nodes'[n].access = nodes[n].access /\ nodes'[n].refs = nodes[n].refs
                /\ nodes'[n].supersedes = nodes[n].supersedes
                /\ nodes'[n].forms = nodes[n].forms
                /\ nodes'[n].status = IF n \in Contradicted(a) THEN "superseded"
                                      ELSE nodes[n].status
           /\ edges' = IF a.cand.episodic /\ job.prev # NoNode
                       THEN edges \cup {<<job.prev, id, "temporal">>} ELSE edges
           /\ job'.todo = job.todo \ {a} /\ job'.prev = LatestEpisode(a, id) /\ SameBatch
<1>1. PICK a \in job.todo, id \in NodeIds \ issued :
        /\ ~a.cand.entity
        /\ LET old == Contradicted(a)
               marked == [n \in DOMAIN nodes |->
                            IF n \in old THEN [nodes[n] EXCEPT !.status = "superseded"]
                            ELSE nodes[n]]
           IN  nodes' = AddNode(marked, id, NewNode(a, a.cand.key, old))
        /\ edges' = IF a.cand.episodic /\ job.prev # NoNode
                    THEN edges \cup {<<job.prev, id, "temporal">>} ELSE edges
        /\ job' = [job EXCEPT !.todo = @ \ {a}, !.fresh = @ \cup {id},
                              !.prev = LatestEpisode(a, id)]
  BY Zenon DEF CommitStatement
<1> DEFINE old == Contradicted(a)
           marked == [n \in DOMAIN nodes |->
                        IF n \in old THEN [nodes[n] EXCEPT !.status = "superseded"]
                        ELSE nodes[n]]
           node == NewNode(a, a.cand.key, old)
<1>2. job \in Job
  BY DEF CommitStatement, TypeOK
<1>3. a \in Occurrence /\ id \notin DOMAIN nodes /\ \A n \in DOMAIN nodes : nodes[n] \in Node
  BY <1>2 DEF Job, TypeOK, GraphOK
<1>4. nodes' = AddNode(marked, id, node)
  BY <1>1
<1>5. /\ DOMAIN nodes' = DOMAIN nodes \cup {id} /\ nodes'[id] = node
      /\ \A n \in DOMAIN nodes : nodes'[n] = marked[n]
  BY <1>3, <1>4 DEF AddNode
<1>6. ASSUME NEW n \in DOMAIN nodes
      PROVE  /\ nodes'[n].cand = nodes[n].cand /\ nodes'[n].key = nodes[n].key
             /\ nodes'[n].sessions = nodes[n].sessions
             /\ nodes'[n].access = nodes[n].access /\ nodes'[n].refs = nodes[n].refs
             /\ nodes'[n].supersedes = nodes[n].supersedes
             /\ nodes'[n].forms = nodes[n].forms
             /\ nodes'[n].status = IF n \in old THEN "superseded" ELSE nodes[n].status
  <2>1. CASE n \in old
    <3>1. nodes'[n] = [nodes[n] EXCEPT !.status = "superseded"]
      BY <1>5, <2>1
    <3> QED BY <1>3, <2>1, <3>1 DEF Node
  <2>2. CASE n \notin old
    BY <1>5, <2>2
  <2> QED BY <2>1, <2>2
<1>7. job'.todo = job.todo \ {a} /\ job'.prev = LatestEpisode(a, id) /\ SameBatch
  BY <1>1, <1>2 DEF Job, SameBatch
<1> HIDE DEF marked
<1> QED BY <1>1, <1>3, <1>5, <1>6, <1>7, Zenon

(* Every other step leaves the nodes alone, saves them or loads them.      *)
LEMMA OtherSteps ==
  ASSUME [Next]_vars
  PROVE  \/ \E s \in Sessions : Begin(s)
         \/ ResolveEntity \/ AddEntity \/ CommitStatement
         \/ /\ nodes' \in {nodes, saved.nodes}
            /\ saved'.nodes \in {nodes, saved.nodes}
BY DEF Next, Consolidate, Commit, Finish, LogMessage, NothingFound, Attach, SaveGraph,
       SetProgress, Abort, EndSession, Crash, Memory, vars

-----------------------------------------------------------------------------
(* Succession.  That a superseded node has one successor is not inductive: *)
(* a node could be listed before it exists.  So lists stay inside the      *)
(* graph, where the id of the next node is not.                            *)
ListsInside(g) == \A m \in DOMAIN g : g[m].supersedes \subseteq DOMAIN g
OneSuccessor(g) ==
  \A n \in DOMAIN g :
    /\ g[n].status = "superseded" => \E m \in DOMAIN g : n \in g[m].supersedes
    /\ g[n].status # "superseded" => \A m \in DOMAIN g : n \notin g[m].supersedes
    /\ \A l, m \in DOMAIN g : n \in g[l].supersedes /\ n \in g[m].supersedes => l = m
SlotsAgree(g) ==
  \A m, n \in DOMAIN g :
    n \in g[m].supersedes /\ g[n].cand.family \notin ImplicitFamilies => g[m].key = g[n].key
Succession(g) == ListsInside(g) /\ OneSuccessor(g) /\ SlotsAgree(g)
SuccessionInv == Succession(nodes) /\ Succession(saved.nodes)

(* Nodes that keep content, slot, status and list keep the succession.     *)
LEMMA SameSuccession ==
  ASSUME NEW g, NEW h, Succession(g), DOMAIN h = DOMAIN g,
         \A n \in DOMAIN g : /\ h[n].cand = g[n].cand /\ h[n].key = g[n].key
                             /\ h[n].status = g[n].status /\ h[n].supersedes = g[n].supersedes
  PROVE  Succession(h)
BY DEF Succession, ListsInside, OneSuccessor, SlotsAgree

(* A commit gives every node it marks its first successor: it was active,  *)
(* so nobody listed it.  A fact is marked by its own slot only.            *)
LEMMA CommitKeepsSuccession ==
  ASSUME TypeOK, Succession(nodes), CommitStatement
  PROVE  Succession(nodes')
<1>1. PICK a \in job.todo, id \in NodeIds \ issued :
        /\ id \notin DOMAIN nodes
        /\ DOMAIN nodes' = DOMAIN nodes \cup {id}
        /\ nodes'[id] = NewNode(a, a.cand.key, Contradicted(a))
        /\ \A n \in DOMAIN nodes :
             /\ nodes'[n].cand = nodes[n].cand /\ nodes'[n].key = nodes[n].key
             /\ nodes'[n].supersedes = nodes[n].supersedes
             /\ nodes'[n].status = IF n \in Contradicted(a) THEN "superseded"
                                   ELSE nodes[n].status
  BY CommitEffect, Zenon
<1> DEFINE old == Contradicted(a)
<1>2. /\ nodes'[id].key = a.cand.key /\ nodes'[id].supersedes = old
      /\ nodes'[id].status = "active"
  BY <1>1 DEF NewNode
<1>3. \A n \in old : n \in DOMAIN nodes /\ nodes[n].status = "active"
  BY DEF Contradicted
<1>4. \A n \in old : nodes[n].cand.family \notin ImplicitFamilies => nodes[n].key = a.cand.key
  BY DEF Contradicted, CorrectionSupersedes
<1> HIDE DEF old
<1>5. \A n \in DOMAIN nodes :
        /\ nodes'[n].cand = nodes[n].cand /\ nodes'[n].key = nodes[n].key
        /\ nodes'[n].supersedes = nodes[n].supersedes
        /\ nodes'[n].status = IF n \in old THEN "superseded" ELSE nodes[n].status
  BY <1>1 DEF old
<1>6. ListsInside(nodes')
  BY <1>1, <1>2, <1>3, <1>5 DEF Succession, ListsInside
<1>7. OneSuccessor(nodes')
  <2>1. ASSUME NEW n \in DOMAIN nodes, n \in old
        PROVE  /\ nodes'[n].status = "superseded" /\ n \in nodes'[id].supersedes
               /\ \A m \in DOMAIN nodes : n \notin nodes'[m].supersedes
    BY <1>2, <1>3, <1>5, <2>1 DEF Succession, OneSuccessor
  <2>2. ASSUME NEW n \in DOMAIN nodes, n \notin old
        PROVE  /\ nodes'[n].status = nodes[n].status /\ n \notin nodes'[id].supersedes
               /\ \A m \in DOMAIN nodes :
                    n \in nodes'[m].supersedes <=> n \in nodes[m].supersedes
    BY <1>2, <1>5, <2>2
  <2>3. /\ nodes'[id].status # "superseded"
        /\ \A m \in DOMAIN nodes' : id \notin nodes'[m].supersedes
    BY <1>1, <1>2, <1>3, <1>5 DEF Succession, ListsInside
  <2>4. ASSUME NEW n \in DOMAIN nodes
        PROVE  /\ nodes'[n].status = "superseded" =>
                    \E m \in DOMAIN nodes' : n \in nodes'[m].supersedes
               /\ nodes'[n].status # "superseded" =>
                    \A m \in DOMAIN nodes' : n \notin nodes'[m].supersedes
               /\ \A l, m \in DOMAIN nodes' :
                    n \in nodes'[l].supersedes /\ n \in nodes'[m].supersedes => l = m
    <3>1. CASE n \in old
      BY <1>1, <2>1, <3>1
    <3>2. CASE n \notin old
      BY <1>1, <2>2, <3>2 DEF Succession, OneSuccessor
    <3> QED BY <3>1, <3>2
  <2> QED BY <1>1, <2>3, <2>4 DEF OneSuccessor
<1>8. SlotsAgree(nodes')
  <2>1. ASSUME NEW m \in DOMAIN nodes', NEW n \in DOMAIN nodes', n \in nodes'[m].supersedes,
               nodes'[n].cand.family \notin ImplicitFamilies
        PROVE  nodes'[m].key = nodes'[n].key
    <3>1. CASE m = id
      BY <1>2, <1>3, <1>4, <1>5, <2>1, <3>1
    <3>2. CASE m \in DOMAIN nodes
      BY <1>5, <2>1, <3>2 DEF Succession, ListsInside, SlotsAgree
    <3> QED BY <1>1, <3>1, <3>2
  <2> QED BY <2>1 DEF SlotsAgree
<1> QED BY <1>6, <1>7, <1>8 DEF Succession

(* Every step keeps the succession, in memory and on disk.                 *)
LEMMA SuccessionStep ==
  ASSUME TypeOK, SuccessionInv, [Next]_vars
  PROVE  SuccessionInv'
<1> USE DEF SuccessionInv
<1>1. ASSUME NEW s \in Sessions, Begin(s)
      PROVE  Succession(nodes') /\ saved' = saved
  <2>1. \A n \in DOMAIN nodes : nodes[n] \in Node
    BY DEF TypeOK, GraphOK
  <2>2. /\ DOMAIN nodes' = DOMAIN nodes
        /\ \A n \in DOMAIN nodes :
             nodes'[n] = nodes[n] \/ \E found : nodes'[n] = Reinforce(nodes[n], s, found)
    BY <1>1, BeginReinforces
  <2>3. Succession(nodes')
    BY <2>1, <2>2, ReinforceEffect, SameSuccession
  <2> QED BY <1>1, <2>3 DEF Begin
<1>2. ASSUME ResolveEntity
      PROVE  Succession(nodes') /\ saved' = saved
  <2>1. \A n \in DOMAIN nodes : nodes[n] \in Node
    BY DEF TypeOK, GraphOK
  <2>2. job.session \in Sessions
    BY <1>2 DEF ResolveEntity, TypeOK, Job
  <2>3. PICK a \in job.todo, n \in DOMAIN nodes :
          /\ a \in Occurrence
          /\ DOMAIN nodes' = DOMAIN nodes
          /\ nodes'[n] = Recognise(nodes[n], job.session, a)
          /\ \A m \in DOMAIN nodes \ {n} : nodes'[m] = nodes[m]
    BY <1>2, ResolveEffect
  <2>4. \A m \in DOMAIN nodes :
          /\ nodes'[m].cand = nodes[m].cand /\ nodes'[m].key = nodes[m].key
          /\ nodes'[m].status = nodes[m].status /\ nodes'[m].supersedes = nodes[m].supersedes
    <3>1. a \in Occurrence /\ nodes[n] \in Node /\ nodes'[n] = Recognise(nodes[n], job.session, a)
      BY <2>1, <2>3
    <3>2. /\ nodes'[n].cand = nodes[n].cand /\ nodes'[n].key = nodes[n].key
          /\ nodes'[n].status = nodes[n].status /\ nodes'[n].supersedes = nodes[n].supersedes
      BY <2>2, <3>1, RecogniseEffect
    <3> QED BY <2>3, <3>2
  <2>5. Succession(nodes')
    BY <2>3, <2>4, SameSuccession
  <2> QED BY <1>2, <2>5 DEF ResolveEntity
<1>3. ASSUME AddEntity
      PROVE  Succession(nodes') /\ saved' = saved
  <2>1. PICK a \in job.todo, id \in NodeIds \ issued :
          /\ id \notin DOMAIN nodes
          /\ DOMAIN nodes' = DOMAIN nodes \cup {id}
          /\ nodes'[id] = NewNode(a, NoKey, {})
          /\ \A n \in DOMAIN nodes : nodes'[n] = nodes[n]
    BY <1>3, AddEntityEffect
  <2>2. nodes'[id].status = "active" /\ nodes'[id].supersedes = {}
    BY <2>1 DEF NewNode
  <2>3. Succession(nodes')
    BY <2>1, <2>2 DEF Succession, ListsInside, OneSuccessor, SlotsAgree
  <2> QED BY <1>3, <2>3 DEF AddEntity
<1>4. ASSUME CommitStatement
      PROVE  Succession(nodes') /\ saved' = saved
  BY <1>4, CommitKeepsSuccession DEF CommitStatement
<1> QED BY <1>1, <1>2, <1>3, <1>4, OtherSteps

(* So the succession is right in every reachable state.                   *)
LEMMA SuccessionHolds == Spec => []SuccessionInv
<1>1. Init => SuccessionInv
  BY DEF Init, EmptyGraph, SuccessionInv, Succession, ListsInside, OneSuccessor, SlotsAgree
<1>2. TypeOK /\ SuccessionInv /\ [Next]_vars => SuccessionInv'
  BY SuccessionStep
<1> QED BY <1>1, <1>2, TypeCorrect, PTL DEF Spec

(* After any history a superseded node has exactly one successor, and an   *)
(* active node none, in memory and in the graph file: commits, exceptions, *)
(* saves and crashes never leave a mark without the node that made it, and *)
(* no replay marks a node twice.                                           *)
THEOREM EverySupersededHasOneSuccessor == Spec => []SupersededHasOneSuccessor
<1>1. SuccessionInv => SupersededHasOneSuccessor
  <2>1. ASSUME NEW g, OneSuccessor(g), NEW n \in DOMAIN g
        PROVE  LET successors == {m \in DOMAIN g : n \in g[m].supersedes}
               IN  IF g[n].status = "superseded" THEN \E m \in DOMAIN g : successors = {m}
                   ELSE successors = {}
    BY <2>1 DEF OneSuccessor
  <2> QED BY <2>1 DEF SuccessionInv, Succession, SupersededHasOneSuccessor
<1> QED BY <1>1, SuccessionHolds, PTL

(* A fact is only ever replaced by a statement about its own slot, however *)
(* its references were merged and whatever was reprocessed.                *)
THEOREM FactsAreReplacedInTheirSlot == Spec => []FactsYieldToTheirSlot
<1>1. SuccessionInv => FactsYieldToTheirSlot
  BY DEF SuccessionInv, Succession, SlotsAgree, FactsYieldToTheirSlot
<1> QED BY <1>1, SuccessionHolds, PTL

-----------------------------------------------------------------------------
(* Values.  What is on disk has its value in memory too, until a save: a   *)
(* commit that takes a fact's value away brings the next one.  It needs    *)
(* that a node's slot is that of its content: then no slot is at once a    *)
(* fact and of an implicit subject.                                        *)
SlotOfContent(g) == \A n \in DOMAIN g : g[n].key = g[n].cand.key
FactSlot(k) == \E c \in Candidates : c.key = k /\ k # NoKey /\ c.family \notin ImplicitFamilies
ValuesHeld(g, h) == \A k : FactSlot(k) /\ HasValue(g, k) => HasValue(h, k)
ValueInv == SlotOfContent(nodes) /\ SlotOfContent(saved.nodes) /\ ValuesHeld(saved.nodes, nodes)

(* Steps on the graph in memory leave every fact slot a value.             *)
LEMMA GrowthHoldsValues ==
  ASSUME TypeOK, SlotOfContent(nodes),
         (\E s \in Sessions : Begin(s)) \/ ResolveEntity \/ AddEntity \/ CommitStatement
  PROVE  SlotOfContent(nodes') /\ ValuesHeld(nodes, nodes')
<1>1. \A n \in DOMAIN nodes : nodes[n] \in Node
  BY DEF TypeOK, GraphOK
<1>2. ASSUME DOMAIN nodes \subseteq DOMAIN nodes',
             \A n \in DOMAIN nodes : /\ nodes'[n].key = nodes[n].key
                                     /\ nodes'[n].status = nodes[n].status
      PROVE  ValuesHeld(nodes, nodes')
  BY <1>2 DEF ValuesHeld, HasValue
<1>3. ASSUME NEW s \in Sessions, Begin(s)
      PROVE  SlotOfContent(nodes') /\ ValuesHeld(nodes, nodes')
  <2>1. /\ DOMAIN nodes' = DOMAIN nodes
        /\ \A n \in DOMAIN nodes : /\ nodes'[n].cand = nodes[n].cand
                                   /\ nodes'[n].key = nodes[n].key
                                   /\ nodes'[n].status = nodes[n].status
    BY <1>3, BeginNodes
  <2> QED BY <1>2, <2>1 DEF SlotOfContent
<1>4. ASSUME ResolveEntity
      PROVE  SlotOfContent(nodes') /\ ValuesHeld(nodes, nodes')
  <2>1. PICK a \in job.todo, n \in DOMAIN nodes :
          /\ a \in Occurrence
          /\ DOMAIN nodes' = DOMAIN nodes
          /\ nodes'[n] = Recognise(nodes[n], job.session, a)
          /\ \A m \in DOMAIN nodes \ {n} : nodes'[m] = nodes[m]
    BY <1>4, ResolveEffect
  <2>2. job.session \in Sessions
    BY <1>4 DEF ResolveEntity, TypeOK, Job
  <2>3. /\ nodes'[n].cand = nodes[n].cand /\ nodes'[n].key = nodes[n].key
        /\ nodes'[n].status = nodes[n].status
    BY <1>1, <2>1, <2>2, RecogniseEffect
  <2> QED BY <1>2, <2>1, <2>3 DEF SlotOfContent
<1>5. ASSUME AddEntity
      PROVE  SlotOfContent(nodes') /\ ValuesHeld(nodes, nodes')
  <2>1. PICK a \in job.todo, id \in NodeIds \ issued :
          /\ a \in Occurrence /\ a.cand.entity
          /\ DOMAIN nodes' = DOMAIN nodes \cup {id}
          /\ nodes'[id] = NewNode(a, NoKey, {})
          /\ \A n \in DOMAIN nodes : nodes'[n] = nodes[n]
    BY <1>5, AddEntityEffect
  <2>2. nodes'[id].key = nodes'[id].cand.key
    BY <2>1, CandidateShape DEF NewNode, Occurrence
  <2> QED BY <1>2, <2>1, <2>2 DEF SlotOfContent
<1>6. ASSUME CommitStatement
      PROVE  SlotOfContent(nodes') /\ ValuesHeld(nodes, nodes')
  <2>1. PICK a \in job.todo, id \in NodeIds \ issued :
          /\ a \in Occurrence /\ id \notin DOMAIN nodes
          /\ DOMAIN nodes' = DOMAIN nodes \cup {id}
          /\ nodes'[id] = NewNode(a, a.cand.key, Contradicted(a))
          /\ \A n \in DOMAIN nodes :
               /\ nodes'[n].cand = nodes[n].cand /\ nodes'[n].key = nodes[n].key
               /\ nodes'[n].status = IF n \in Contradicted(a) THEN "superseded"
                                     ELSE nodes[n].status
    BY <1>6, CommitEffect, Zenon
  <2>2. /\ nodes'[id].cand = a.cand /\ nodes'[id].key = a.cand.key
        /\ nodes'[id].status = "active"
    BY <2>1 DEF NewNode
  <2>3. SlotOfContent(nodes')
    BY <2>1, <2>2 DEF SlotOfContent
  <2>4. ASSUME NEW n \in DOMAIN nodes, FactSlot(nodes[n].key), nodes[n].status = "active"
        PROVE  HasValue(nodes', nodes[n].key)
    <3>1. CASE n \notin Contradicted(a)
      BY <2>1, <2>4, <3>1 DEF HasValue
    <3>2. CASE n \in Contradicted(a)
      <4>1. nodes[n].cand.family \notin ImplicitFamilies
        BY <1>1, <2>4, FamilyOfKey DEF FactSlot, SlotOfContent, Node
      <4>2. nodes[n].key = a.cand.key
        BY <3>2, <4>1 DEF Contradicted, CorrectionSupersedes
      <4> QED BY <2>1, <2>2, <4>2 DEF HasValue
    <3> QED BY <3>1, <3>2
  <2>5. ValuesHeld(nodes, nodes')
    BY <2>4 DEF ValuesHeld, HasValue
  <2> QED BY <2>3, <2>5
<1> QED BY <1>3, <1>4, <1>5, <1>6

(* Every step keeps a value in memory for every fact slot that has one on  *)
(* disk; hence no save drops it.                                           *)
LEMMA ValueStep ==
  ASSUME TypeOK, ValueInv, [Next]_vars
  PROVE  ValueInv' /\ ValuesHeld(saved.nodes, saved'.nodes)
<1> USE DEF ValueInv
<1>1. \A g : ValuesHeld(g, g)
  BY DEF ValuesHeld
<1>2. CASE (\E s \in Sessions : Begin(s)) \/ ResolveEntity \/ AddEntity \/ CommitStatement
  <2>1. SlotOfContent(nodes') /\ ValuesHeld(nodes, nodes')
    BY <1>2, GrowthHoldsValues
  <2>2. saved' = saved
    BY <1>2 DEF Begin, ResolveEntity, AddEntity, CommitStatement
  <2>3. ValuesHeld(saved.nodes, nodes')
    BY <2>1 DEF ValuesHeld
  <2> QED BY <1>1, <2>1, <2>2, <2>3
<1>3. CASE UNCHANGED <<nodes, saved>>
  BY <1>1, <1>3
<1>4. CASE SaveGraph \/ EndSession
  BY <1>1, <1>4 DEF SaveGraph, EndSession
<1>5. CASE Crash
  BY <1>1, <1>5 DEF Crash
<1> QED BY <1>2, <1>3, <1>4, <1>5
        DEF Next, Consolidate, Commit, Finish, LogMessage, NothingFound, Attach,
            SetProgress, Abort, vars

(* A save never takes a fact its current value on disk: the mark on the    *)
(* old value and the node of the new one reach the file together.          *)
THEOREM FactsNeverLoseTheirValue == Spec => FactsKeepAValue
<1>1. Init => ValueInv
  BY DEF Init, EmptyGraph, ValueInv, SlotOfContent, ValuesHeld, HasValue
<1>2. TypeOK /\ ValueInv /\ [Next]_vars => ValueInv'
  BY ValueStep
<1>3. TypeOK /\ ValueInv /\ [Next]_vars =>
        [\A c \in Candidates :
           c.key # NoKey /\ c.family \notin ImplicitFamilies =>
             (HasValue(saved.nodes, c.key) => HasValue(saved'.nodes, c.key))]_saved
  BY ValueStep DEF ValuesHeld, FactSlot
<1> QED BY <1>1, <1>2, <1>3, TypeCorrect, PTL DEF Spec, FactsKeepAValue

-----------------------------------------------------------------------------
(* Episodes.  A commit links the batch's previous episode to the new one:  *)
(* the new node has no edges yet, and the previous one leads nowhere.      *)
Chained(g) ==
  \A d, e \in g :
    d[3] = "temporal" /\ e[3] = "temporal" /\ (d[1] = e[1] \/ d[2] = e[2]) => d = e
LastLeadsNowhere ==
  job # NoJob /\ job.prev # NoNode => \A e \in edges : e[3] = "temporal" => e[1] # job.prev
ChainInv == Chained(edges) /\ Chained(saved.edges) /\ LastLeadsNowhere

(* Every step keeps the chains, in memory and on disk.                     *)
LEMMA ChainStep ==
  ASSUME TypeOK, ChainInv, [Next]_vars
  PROVE  ChainInv'
<1> USE DEF ChainInv, LastLeadsNowhere
<1>1. ASSUME NEW s \in Sessions, Begin(s)
      PROVE  ChainInv'
  <2>1. job'.prev = NoNode
    BY <1>1, BeginNodes
  <2> QED BY <1>1, <2>1 DEF Begin
<1>2. ASSUME CommitStatement
      PROVE  ChainInv'
  <2>1. PICK a \in job.todo, id \in NodeIds \ issued :
          /\ id \notin DOMAIN nodes
          /\ edges' = IF a.cand.episodic /\ job.prev # NoNode
                      THEN edges \cup {<<job.prev, id, "temporal">>} ELSE edges
          /\ job'.prev = LatestEpisode(a, id)
    BY <1>2, CommitEffect, Zenon
  <2>2. \A e \in edges : e \in Edge /\ e[1] # id /\ e[2] # id
    BY <2>1 DEF TypeOK, GraphOK
  <2>3. job # NoJob /\ (job.prev # NoNode => job.prev \in DOMAIN nodes) /\ saved' = saved
    BY <1>2 DEF CommitStatement, TypeOK
  <2>4. CASE a.cand.episodic /\ job.prev # NoNode
    <3> DEFINE link == <<job.prev, id, "temporal">>
    <3>1. edges' = edges \cup {link} /\ job'.prev = id
      BY <2>1, <2>4 DEF LatestEpisode
    <3>2. link[1] = job.prev /\ link[2] = id /\ link[1] # id
      BY <2>1, <2>3, <2>4
    <3>3. ASSUME NEW e \in edges, e[3] = "temporal"
          PROVE  e[1] # link[1] /\ e[2] # link[2]
      BY <2>2, <2>3, <2>4, <3>2, <3>3
    <3> HIDE DEF link
    <3>4. Chained(edges')
      BY <3>1, <3>3 DEF Chained
    <3>5. \A e \in edges' : e[1] # id
      BY <2>2, <3>1, <3>2
    <3> QED BY <2>3, <3>1, <3>4, <3>5
  <2>5. CASE a.cand.episodic /\ job.prev = NoNode
    BY <2>1, <2>2, <2>3, <2>5 DEF LatestEpisode
  <2>6. CASE ~a.cand.episodic
    BY <2>1, <2>3, <2>6 DEF LatestEpisode
  <2> QED BY <2>4, <2>5, <2>6
<1>3. ASSUME Attach
      PROVE  ChainInv'
  <2>1. \A e \in edges' : e[3] = "temporal" => e \in edges
    BY <1>3 DEF Attach
  <2>2. saved' = saved /\ job # NoJob /\ job'.prev = job.prev
    BY <1>3 DEF Attach, TypeOK, Job
  <2> QED BY <2>1, <2>2 DEF Chained
<1>4. ASSUME ResolveEntity \/ AddEntity
      PROVE  ChainInv'
  <2>1. job # NoJob /\ edges' = edges /\ saved' = saved
    BY <1>4 DEF ResolveEntity, AddEntity
  <2>2. job'.prev = job.prev
    BY <1>4, ResolveEffect, AddEntityEffect
  <2> QED BY <2>1, <2>2
<1>5. ASSUME SaveGraph
      PROVE  ChainInv'
  <2>1. job'.prev = job.prev
    BY <1>5 DEF SaveGraph, TypeOK, Job
  <2> QED BY <1>5, <2>1 DEF SaveGraph
<1>6. ASSUME SetProgress \/ Abort \/ EndSession \/ Crash
      PROVE  ChainInv'
  BY <1>6 DEF SetProgress, Abort, EndSession, Crash
<1>7. ASSUME UNCHANGED <<edges, saved, job>>
      PROVE  ChainInv'
  BY <1>7
<1> QED BY <1>1, <1>2, <1>3, <1>4, <1>5, <1>6, <1>7
        DEF Next, Consolidate, Commit, Finish, LogMessage, NothingFound, vars

(* However batches are cut short and replayed, the temporal edges of a     *)
(* graph are chains: no episode has two next or two previous ones.         *)
THEOREM TemporalEdgesAreChains == Spec => []EpisodesFormChains
<1>1. Init => ChainInv
  BY DEF Init, ChainInv, Chained, LastLeadsNowhere
<1>2. TypeOK /\ ChainInv /\ [Next]_vars => ChainInv'
  BY ChainStep
<1>3. ChainInv => EpisodesFormChains
  BY DEF ChainInv, Chained, EpisodesFormChains
<1> QED BY <1>1, <1>2, <1>3, TypeCorrect, PTL DEF Spec

-----------------------------------------------------------------------------
(* Entities.  A known alias decides, so a form is only ever recorded where *)
(* its alias is known already or where no entity of the label has it.      *)
NamesDiffer(g) ==
  \A m, n \in DOMAIN g :
    /\ g[m].cand.entity /\ g[n].cand.entity /\ g[m].cand.label = g[n].cand.label
    /\ \E e \in g[m].forms, f \in g[n].forms : e.alias = f.alias
    => m = n

(* A mention that is recorded adds no alias that another entity has.       *)
LEMMA ResolvingKeepsNames ==
  ASSUME TypeOK, NamesDiffer(nodes), ResolveEntity
  PROVE  NamesDiffer(nodes')
<1>1. PICK a \in job.todo, n \in DOMAIN nodes :
        /\ a \in Occurrence /\ n \in Resolved(a.cand)
        /\ DOMAIN nodes' = DOMAIN nodes
        /\ nodes'[n] = Recognise(nodes[n], job.session, a)
        /\ \A m \in DOMAIN nodes \ {n} : nodes'[m] = nodes[m]
  BY ResolveEffect
<1>2. nodes[n] \in Node /\ job.session \in Sessions
  BY DEF ResolveEntity, TypeOK, GraphOK, Job
<1>3. nodes'[n].cand = nodes[n].cand /\ nodes'[n].forms = nodes[n].forms \cup {a.cand}
  BY <1>1, <1>2, RecogniseEffect
<1>4. nodes[n].cand.entity /\ nodes[n].cand.label = a.cand.label
  BY <1>1 DEF Resolved, KnownAs, Overlapping, Compatible
<1>5. ASSUME NEW m \in DOMAIN nodes, nodes[m].cand.entity,
             nodes[m].cand.label = nodes[n].cand.label,
             NEW f \in nodes[m].forms, f.alias = a.cand.alias
      PROVE  m = n
  <2>1. m \in KnownAs(a.cand)
    BY <1>4, <1>5 DEF KnownAs, Compatible
  <2>2. n \in KnownAs(a.cand)
    BY <1>1, <2>1 DEF Resolved
  <2> QED BY <1>4, <1>5, <2>2 DEF KnownAs, Compatible, NamesDiffer
<1>6. ASSUME NEW m \in DOMAIN nodes, nodes[m].cand.entity, nodes[n].cand.entity,
             nodes[m].cand.label = nodes[n].cand.label,
             NEW f \in nodes[m].forms, NEW e \in nodes'[n].forms, e.alias = f.alias
      PROVE  m = n
  BY <1>1, <1>3, <1>5, <1>6 DEF NamesDiffer
<1>7. ASSUME NEW l \in DOMAIN nodes', NEW m \in DOMAIN nodes',
             nodes'[l].cand.entity, nodes'[m].cand.entity,
             nodes'[l].cand.label = nodes'[m].cand.label,
             NEW e \in nodes'[l].forms, NEW f \in nodes'[m].forms, e.alias = f.alias
      PROVE  l = m
  <2>1. CASE l = n /\ m # n
    BY <1>1, <1>3, <1>6, <1>7, <2>1
  <2>2. CASE m = n /\ l # n
    BY <1>1, <1>3, <1>6, <1>7, <2>2
  <2>3. CASE l # n /\ m # n
    BY <1>1, <1>7, <2>3 DEF NamesDiffer
  <2> QED BY <2>1, <2>2, <2>3
<1> QED BY <1>7 DEF NamesDiffer

(* A node that is added as new shares no alias with an entity of its label.*)
LEMMA AddingKeepsNames ==
  ASSUME TypeOK, NamesDiffer(nodes), AddEntity
  PROVE  NamesDiffer(nodes')
<1>1. PICK a \in job.todo, id \in NodeIds \ issued :
        /\ a \in Occurrence /\ a.cand.entity /\ IsNew(a.cand) /\ id \notin DOMAIN nodes
        /\ DOMAIN nodes' = DOMAIN nodes \cup {id}
        /\ nodes'[id] = NewNode(a, NoKey, {})
        /\ \A n \in DOMAIN nodes : nodes'[n] = nodes[n]
  BY AddEntityEffect, Zenon
<1>2. nodes'[id].cand = a.cand /\ nodes'[id].forms = {a.cand}
  BY <1>1 DEF NewNode
<1>3. ASSUME NEW m \in DOMAIN nodes, nodes[m].cand.entity, nodes[m].cand.label = a.cand.label,
             NEW f \in nodes[m].forms, f.alias = a.cand.alias
      PROVE  FALSE
  <2>1. m \in KnownAs(a.cand)
    BY <1>3 DEF KnownAs, Compatible
  <2> QED BY <1>1, <2>1 DEF IsNew
<1>4. ASSUME NEW l \in DOMAIN nodes', NEW m \in DOMAIN nodes',
             nodes'[l].cand.entity, nodes'[m].cand.entity,
             nodes'[l].cand.label = nodes'[m].cand.label,
             NEW e \in nodes'[l].forms, NEW f \in nodes'[m].forms, e.alias = f.alias
      PROVE  l = m
  <2>1. CASE l = id /\ m # id
    BY <1>1, <1>2, <1>3, <1>4, <2>1
  <2>2. CASE m = id /\ l # id
    BY <1>1, <1>2, <1>3, <1>4, <2>2
  <2>3. CASE l # id /\ m # id
    BY <1>1, <1>4, <2>3 DEF NamesDiffer
  <2> QED BY <2>1, <2>2, <2>3
<1> QED BY <1>4 DEF NamesDiffer

NameInv == NamesDiffer(nodes) /\ NamesDiffer(saved.nodes)

(* Every step keeps names apart, in memory and on disk.                    *)
LEMMA NameStep ==
  ASSUME TypeOK, NameInv, [Next]_vars
  PROVE  NameInv'
<1> USE DEF NameInv
<1>1. ASSUME NEW s \in Sessions, Begin(s)
      PROVE  NameInv'
  <2>1. \A n \in DOMAIN nodes : nodes[n] \in Node
    BY DEF TypeOK, GraphOK
  <2>2. /\ DOMAIN nodes' = DOMAIN nodes
        /\ \A n \in DOMAIN nodes :
             nodes'[n] = nodes[n] \/ \E found : nodes'[n] = Reinforce(nodes[n], s, found)
    BY <1>1, BeginReinforces
  <2>3. \A n \in DOMAIN nodes : /\ nodes'[n].cand = nodes[n].cand
                                /\ nodes'[n].forms = nodes[n].forms
    BY <2>1, <2>2, ReinforceEffect
  <2>4. NamesDiffer(nodes')
    BY <2>2, <2>3 DEF NamesDiffer
  <2> QED BY <1>1, <2>4 DEF Begin
<1>2. ASSUME ResolveEntity
      PROVE  NameInv'
  BY <1>2, ResolvingKeepsNames DEF ResolveEntity
<1>3. ASSUME AddEntity
      PROVE  NameInv'
  BY <1>3, AddingKeepsNames DEF AddEntity
<1>4. ASSUME CommitStatement
      PROVE  NameInv'
  <2>1. PICK a \in job.todo, id \in NodeIds \ issued :
          /\ ~a.cand.entity
          /\ DOMAIN nodes' = DOMAIN nodes \cup {id}
          /\ nodes'[id] = NewNode(a, a.cand.key, Contradicted(a))
          /\ \A n \in DOMAIN nodes : /\ nodes'[n].cand = nodes[n].cand
                                     /\ nodes'[n].forms = nodes[n].forms
    BY <1>4, CommitEffect, Zenon
  <2>2. ~nodes'[id].cand.entity
    BY <2>1 DEF NewNode
  <2>3. NamesDiffer(nodes')
    BY <2>1, <2>2 DEF NamesDiffer
  <2> QED BY <1>4, <2>3 DEF CommitStatement
<1> QED BY <1>1, <1>2, <1>3, <1>4, OtherSteps

(* Two entities of one label never share an alias: whatever spellings come *)
(* in which order, over batches, sessions and restarts, an alias leads to  *)
(* one node.                                                               *)
THEOREM AnAliasNamesOneEntity == Spec => []OneNodePerEntity
<1>1. Init => NameInv
  BY DEF Init, EmptyGraph, NameInv, NamesDiffer
<1>2. TypeOK /\ NameInv /\ [Next]_vars => NameInv'
  BY NameStep
<1>3. NameInv => OneNodePerEntity
  BY DEF NameInv, NamesDiffer, OneNodePerEntity
<1> QED BY <1>1, <1>2, <1>3, TypeCorrect, PTL DEF Spec

=============================================================================
