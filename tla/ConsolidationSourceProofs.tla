---------------------- MODULE ConsolidationSourceProofs ----------------------
(***************************************************************************)
(* Theorems about where Consolidation's nodes come from and what becomes   *)
(* of the messages: sessions are counted once, every reference points at a *)
(* message that says what the node says, and every message below the       *)
(* progress index is remembered on disk.  They hold for every value of the *)
(* constants that Consolidation allows.                                    *)
(***************************************************************************)
EXTENDS ConsolidationHistoryProofs, FiniteSetTheorems

USE DEF Memory

(* Counting sessions.  Cardinalities are only known of finite sets, so the *)
(* invariant says also that a statement has finitely many sessions.        *)
Counted(g) ==
  \A n \in DOMAIN g :
    ~g[n].cand.entity =>
      IsFiniteSet(g[n].sessions) /\ g[n].access = Cardinality(g[n].sessions)
CountInv == Counted(nodes) /\ Counted(saved.nodes)

(* A node that is reinforced counts the session if it is new to it.        *)
LEMMA ReinforcingCounts ==
  ASSUME NEW n \in Node, NEW s \in Sessions, NEW found, NEW m, m = Reinforce(n, s, found),
         IsFiniteSet(n.sessions), n.access = Cardinality(n.sessions)
  PROVE  IsFiniteSet(m.sessions) /\ m.access = Cardinality(m.sessions)
<1> DEFINE sessions == n.sessions
<1>1. /\ m.sessions = sessions \cup {s}
      /\ m.access = IF s \in sessions THEN n.access ELSE n.access + 1
  BY ReinforceEffect
<1>2. /\ IsFiniteSet(sessions \cup {s})
      /\ Cardinality(sessions \cup {s}) =
           IF s \in sessions THEN Cardinality(sessions) ELSE Cardinality(sessions) + 1
  BY FS_AddElement
<1> QED BY <1>1, <1>2

(* A node made by consolidation counts the session it is made in.          *)
LEMMA NewNodeCounts ==
  ASSUME NEW a, NEW key, NEW old, NEW m, m = NewNode(a, key, old)
  PROVE  IsFiniteSet(m.sessions) /\ m.access = Cardinality(m.sessions)
<1>1. m.sessions = {job.session} /\ m.access = 1
  BY DEF NewNode
<1>2. IsFiniteSet({job.session}) /\ Cardinality({job.session}) = 1
  BY FS_Singleton
<1> QED BY <1>1, <1>2

(* Every step counts right, in memory and on disk.                         *)
LEMMA CountStep ==
  ASSUME TypeOK, CountInv, [Next]_vars
  PROVE  CountInv'
<1> USE DEF CountInv
<1>1. \A n \in DOMAIN nodes : nodes[n] \in Node
  BY DEF TypeOK, GraphOK
<1>2. ASSUME NEW s \in Sessions, Begin(s)
      PROVE  CountInv'
  <2>1. /\ DOMAIN nodes' = DOMAIN nodes
        /\ \A n \in DOMAIN nodes :
             nodes'[n] = nodes[n] \/ \E found : nodes'[n] = Reinforce(nodes[n], s, found)
    BY <1>2, BeginReinforces
  <2>2. ASSUME NEW n \in DOMAIN nodes, ~nodes'[n].cand.entity
        PROVE  IsFiniteSet(nodes'[n].sessions) /\ nodes'[n].access = Cardinality(nodes'[n].sessions)
    <3>1. CASE nodes'[n] = nodes[n]
      BY <2>2, <3>1 DEF Counted
    <3>2. ASSUME NEW found, nodes'[n] = Reinforce(nodes[n], s, found)
          PROVE  /\ IsFiniteSet(nodes'[n].sessions)
                 /\ nodes'[n].access = Cardinality(nodes'[n].sessions)
      <4>1. nodes[n] \in Node /\ nodes'[n].cand = nodes[n].cand
        BY <1>1, <3>2, ReinforceEffect
      <4>2. IsFiniteSet(nodes[n].sessions) /\ nodes[n].access = Cardinality(nodes[n].sessions)
        BY <2>2, <4>1 DEF Counted
      <4> QED BY <3>2, <4>1, <4>2, ReinforcingCounts
    <3> QED BY <2>1, <3>1, <3>2
  <2>3. Counted(nodes')
    BY <2>1, <2>2 DEF Counted
  <2> QED BY <1>2, <2>3 DEF Begin
<1>3. ASSUME ResolveEntity
      PROVE  CountInv'
  <2>1. PICK a \in job.todo, n \in DOMAIN nodes :
          /\ a \in Occurrence /\ n \in Resolved(a.cand)
          /\ DOMAIN nodes' = DOMAIN nodes
          /\ nodes'[n] = Recognise(nodes[n], job.session, a)
          /\ \A m \in DOMAIN nodes \ {n} : nodes'[m] = nodes[m]
    BY <1>3, ResolveEffect
  <2>2. job.session \in Sessions /\ nodes[n].cand.entity
    BY <1>3, <2>1 DEF ResolveEntity, TypeOK, Job, Resolved, KnownAs, Overlapping, Compatible
  <2>3. nodes'[n].cand.entity
    BY <1>1, <2>1, <2>2, RecogniseEffect
  <2>4. Counted(nodes')
    BY <2>1, <2>3 DEF Counted
  <2> QED BY <1>3, <2>4 DEF ResolveEntity
<1>4. ASSUME AddEntity
      PROVE  CountInv'
  <2>1. PICK a \in job.todo, id \in NodeIds \ issued :
          /\ a.cand.entity
          /\ DOMAIN nodes' = DOMAIN nodes \cup {id}
          /\ nodes'[id] = NewNode(a, NoKey, {})
          /\ \A n \in DOMAIN nodes : nodes'[n] = nodes[n]
    BY <1>4, AddEntityEffect, Zenon
  <2>2. nodes'[id].cand.entity
    BY <2>1 DEF NewNode
  <2>3. Counted(nodes')
    BY <2>1, <2>2 DEF Counted
  <2> QED BY <1>4, <2>3 DEF AddEntity
<1>5. ASSUME CommitStatement
      PROVE  CountInv'
  <2>1. PICK a \in job.todo, id \in NodeIds \ issued :
          /\ DOMAIN nodes' = DOMAIN nodes \cup {id}
          /\ nodes'[id] = NewNode(a, a.cand.key, Contradicted(a))
          /\ \A n \in DOMAIN nodes :
               /\ nodes'[n].cand = nodes[n].cand /\ nodes'[n].sessions = nodes[n].sessions
               /\ nodes'[n].access = nodes[n].access
    BY <1>5, CommitEffect, Zenon
  <2>2. IsFiniteSet(nodes'[id].sessions) /\ nodes'[id].access = Cardinality(nodes'[id].sessions)
    BY <2>1, NewNodeCounts
  <2>3. Counted(nodes')
    BY <2>1, <2>2 DEF Counted
  <2> QED BY <1>5, <2>3 DEF CommitStatement
<1> QED BY <1>2, <1>3, <1>4, <1>5, OtherSteps

(* The access count of a statement is the number of its sessions, however  *)
(* often failures make a session's messages be processed again.            *)
THEOREM EverySessionIsCountedOnce == Spec => []AccessCountsSessions
<1>1. Init => CountInv
  BY DEF Init, EmptyGraph, CountInv, Counted
<1>2. TypeOK /\ CountInv /\ [Next]_vars => CountInv'
  BY CountStep
<1>3. CountInv => AccessCountsSessions
  BY DEF CountInv, Counted, AccessCountsSessions
<1> QED BY <1>1, <1>2, <1>3, TypeCorrect, PTL DEF Spec

-----------------------------------------------------------------------------
(* References.  Logs only grow, so what a reference points at stays; what  *)
(* is still waiting to be committed cites messages that contain it.        *)
Contains(s, i, c) ==
  /\ i \in DOMAIN log[s]
  /\ \/ \E k \in DOMAIN Extract[log[s][i]] : Extract[log[s][i]][k] = c
     \/ \E answer \in Answers : \E k \in DOMAIN answer :
          /\ i \in answer[k].sources /\ answer[k].confidence >= MinConfidence
          /\ answer[k].cand = c
WaitingIsContained ==
  job # NoJob => \A a \in job.todo : \A i \in a.refs : Contains(job.session, i, a.cand)
AllCited(g) == \A n \in DOMAIN g : \A r \in g[n].refs : Cites(g[n], r[1], r[2])
RefInv == AllCited(nodes) /\ AllCited(saved.nodes) /\ WaitingIsContained

(* What a message contains, a node that yields it cites there.             *)
LEMMA ContainedIsCited ==
  ASSUME NEW n, NEW s, NEW i, NEW c, Contains(s, i, c), Yields(n, c)
  PROVE  Cites(n, s, i)
BY DEF Contains, Cites

(* A node that gains aliases and keeps its content cites what it did.      *)
LEMMA CitesMore ==
  ASSUME NEW n, NEW m, m.cand = n.cand, n.forms \subseteq m.forms,
         NEW s, NEW i, Cites(n, s, i)
  PROVE  Cites(m, s, i)
<1>1. \A c : Yields(n, c) => Yields(m, c)
  BY DEF Yields
<1> QED BY <1>1 DEF Cites

(* What is gathered is contained in each of the messages that it cites.    *)
LEMMA GatheredIsContained ==
  ASSUME TypeOK, NEW s \in Sessions, NEW answers \in [ChunkStarts(s) -> Answers],
         NEW a \in Gather(s, answers), NEW i \in a.refs
  PROVE  Contains(s, i, a.cand)
<1>1. log[s] \in Seq(Messages) /\ progress[s] \in Nat
  BY DEF TypeOK
<1>2. New(s) \subseteq DOMAIN log[s]
  BY <1>1 DEF New
<1>3. a \in Found(s) \/ a \in Proposed(s, answers)
  BY DEF Gather, FirstOccurrences
<1>4. CASE a \in Found(s)
  <2>1. PICK j \in New(s) : a \in FoundAt(s, j)
    BY <1>4, FoundType DEF Matched
  <2>2. PICK k \in DOMAIN Extract[log[s][j]] :
          a = [cand |-> Extract[log[s][j]][k], stage |-> 1, message |-> j, at |-> k,
               index |-> j, refs |-> {j}]
    BY <2>1 DEF FoundAt
  <2>3. a.cand = Extract[log[s][j]][k] /\ i = j
    BY <2>2
  <2> QED BY <1>2, <2>3 DEF Contains
<1>5. CASE a \in Proposed(s, answers)
  <2>1. PICK start \in ChunkStarts(s) : a \in Accepted(answers[start], s, start)
    BY <1>5 DEF Proposed
  <2> DEFINE answer == answers[start]
  <2>2. PICK k \in {k \in DOMAIN answer : answer[k].confidence >= MinConfidence} :
          \E j \in Cited(answer[k], s, start) :
            a = [cand |-> answer[k].cand, stage |-> 2, message |-> start, at |-> k,
                 index |-> j, refs |-> Cited(answer[k], s, start)]
    BY <2>1 DEF Accepted
  <2>3. a.cand = answer[k].cand /\ i \in Cited(answer[k], s, start)
    BY <2>2
  <2>4. i \in answer[k].sources /\ i \in New(s)
    BY <2>3 DEF Cited, Chunk
  <2>5. answer \in Answers
    OBVIOUS
  <2> HIDE DEF answer
  <2> QED BY <1>2, <2>2, <2>3, <2>4, <2>5 DEF Contains
<1> QED BY <1>3, <1>4, <1>5

(* A node that matches a candidate yields it.                              *)
LEMMA MatchYields ==
  ASSUME TypeOK, NEW c \in Candidates, NEW n \in Matches(c)
  PROVE  n \in DOMAIN nodes /\ Yields(nodes[n], c)
<1>1. n \in DOMAIN nodes /\ (nodes[n].cand.content = c.content \/ <<c, nodes[n].cand>> \in Near)
  BY DEF Matches
<1>2. nodes[n].cand \in Candidates
  BY <1>1 DEF TypeOK, GraphOK, Node
<1>3. <<c, nodes[n].cand>> \in Near
  BY <1>1, <1>2, SameContent
<1> QED BY <1>1, <1>3 DEF Yields

(* Logs only grow: the messages in them stay in their places.              *)
LEMMA LogsGrow ==
  ASSUME TypeOK, [Next]_vars, NEW s \in Sessions
  PROVE  /\ Len(log[s]) <= Len(log'[s]) /\ DOMAIN log[s] \subseteq DOMAIN log'[s]
         /\ \A i \in DOMAIN log[s] : log'[s][i] = log[s][i]
<1>1. log[s] \in Seq(Messages) /\ DOMAIN log = Sessions
  BY DEF TypeOK
<1>2. ASSUME NEW t \in Sessions, NEW m \in Messages, LogMessage(t, m)
      PROVE  /\ Len(log[s]) <= Len(log'[s]) /\ DOMAIN log[s] \subseteq DOMAIN log'[s]
             /\ \A i \in DOMAIN log[s] : log'[s][i] = log[s][i]
  <2>1. log'[s] = IF s = t THEN Append(log[s], m) ELSE log[s]
    BY <1>1, <1>2 DEF LogMessage
  <2> QED BY <1>1, <2>1
<1>3. CASE log' = log
  BY <1>1, <1>3
<1> QED BY <1>2, <1>3
        DEF Next, Consolidate, Commit, Finish, NothingFound, Begin, ResolveEntity,
            AddEntity, CommitStatement, Attach, SaveGraph, SetProgress, Abort,
            EndSession, Crash, vars

(* Hence what is contained, or cited, stays so.                            *)
LEMMA CitationsLast ==
  ASSUME TypeOK, [Next]_vars, NEW s \in Sessions, NEW i
  PROVE  /\ \A c : Contains(s, i, c) => Contains(s, i, c)'
         /\ \A n : Cites(n, s, i) => Cites(n, s, i)'
<1>1. i \in DOMAIN log[s] => i \in DOMAIN log'[s] /\ log'[s][i] = log[s][i]
  BY LogsGrow
<1> QED BY <1>1 DEF Contains, Cites, Yields

(* Begin merges into a node references of candidates that it yields.       *)
LEMMA BeginCites ==
  ASSUME TypeOK, RefInv, NEW s \in Sessions, Begin(s)
  PROVE  RefInv'
<1>1. PICK answers \in [ChunkStarts(s) -> Answers] :
        LET batch == Gather(s, answers)
            known == {a \in batch : Matches(a.cand) # {}}
        IN  \E match \in [known -> DOMAIN nodes] :
              /\ \A a \in known : match[a] \in Matches(a.cand)
              /\ DOMAIN nodes' = DOMAIN nodes
              /\ \A n \in DOMAIN nodes :
                   nodes'[n] = IF {a \in known : match[a] = n} = {} THEN nodes[n]
                               ELSE Reinforce(nodes[n], s, {a \in known : match[a] = n})
              /\ job'.todo = batch \ known /\ job'.session = s
              /\ job'.tail = Len(log[s]) /\ job'.pc = "commit"
  BY BeginEffect, Zenon
<1> DEFINE batch == Gather(s, answers)
           known == {a \in batch : Matches(a.cand) # {}}
<1>2. PICK match \in [known -> DOMAIN nodes] :
        /\ \A a \in known : match[a] \in Matches(a.cand)
        /\ DOMAIN nodes' = DOMAIN nodes
        /\ \A n \in DOMAIN nodes :
             nodes'[n] = IF {a \in known : match[a] = n} = {} THEN nodes[n]
                         ELSE Reinforce(nodes[n], s, {a \in known : match[a] = n})
        /\ job'.todo = batch \ known /\ job'.session = s
  BY <1>1, Zenon
<1>3. \A a \in batch : a \in Occurrence /\ a.cand \in Candidates
  BY GatherType DEF Occurrence
<1>4. \A a \in batch : \A i \in a.refs : Contains(s, i, a.cand)
  BY GatheredIsContained
<1>5. known \subseteq batch
  OBVIOUS
<1> HIDE DEF batch, known
<1>6. \A n \in DOMAIN nodes : nodes[n] \in Node
  BY DEF TypeOK, GraphOK
<1>7. log' = log /\ saved' = saved
  BY DEF Begin
<1>8. ASSUME NEW n \in DOMAIN nodes, NEW r \in nodes'[n].refs
      PROVE  Cites(nodes'[n], r[1], r[2])
  <2> DEFINE found == {a \in known : match[a] = n}
  <2>1. CASE found = {}
    <3>1. nodes'[n] = nodes[n]
      BY <1>2, <2>1
    <3> QED BY <1>8, <3>1 DEF RefInv, AllCited
  <2>2. CASE found # {}
    <3>1. nodes'[n] = Reinforce(nodes[n], s, found)
      BY <1>2, <2>2
    <3>2. \A a \in found : a \in batch /\ n \in Matches(a.cand)
      BY <1>2, <1>5
    <3> HIDE DEF found
    <3>3. /\ nodes'[n].cand = nodes[n].cand /\ nodes'[n].forms = nodes[n].forms
          /\ nodes'[n].refs = nodes[n].refs \cup RefsOf(s, found)
      BY <1>6, <3>1, ReinforceEffect
    <3>4. CASE r \in nodes[n].refs
      BY <3>3, <3>4, CitesMore DEF RefInv, AllCited
    <3>5. CASE r \in RefsOf(s, found)
      <4>1. PICK a \in found : \E i \in a.refs : r = <<s, i>>
        BY <3>5 DEF RefsOf
      <4>2. PICK i \in a.refs : r = <<s, i>>
        BY <4>1
      <4>3. Contains(s, i, a.cand)
        BY <1>4, <3>2
      <4>4. Yields(nodes[n], a.cand)
        BY <1>3, <3>2, MatchYields
      <4>5. Yields(nodes'[n], a.cand)
        BY <3>3, <4>4 DEF Yields
      <4> QED BY <4>2, <4>3, <4>5, ContainedIsCited
    <3> QED BY <1>8, <3>3, <3>4, <3>5
  <2> QED BY <2>1, <2>2
<1>9. AllCited(nodes)'
  BY <1>2, <1>7, <1>8 DEF AllCited, Cites, Yields
<1>10. AllCited(saved.nodes)'
  BY <1>7 DEF RefInv, AllCited, Cites, Yields
<1>11. WaitingIsContained'
  BY <1>2, <1>4, <1>7 DEF WaitingIsContained, Contains
<1> QED BY <1>9, <1>10, <1>11 DEF RefInv

(* A candidate of a batch cites, once committed, what contained it.        *)
LEMMA CommittedCites ==
  ASSUME TypeOK, RefInv, job # NoJob, NEW a \in job.todo, a \in Occurrence,
         NEW n, a.cand \in n.forms, NEW r, r \in {<<job.session, i>> : i \in a.refs}
  PROVE  Cites(n, r[1], r[2])
<1>1. PICK i \in a.refs : r = <<job.session, i>>
  OBVIOUS
<1>2. Contains(job.session, i, a.cand)
  BY DEF RefInv, WaitingIsContained
<1>3. Yields(n, a.cand)
  BY DEF Yields
<1> QED BY <1>1, <1>2, <1>3, ContainedIsCited

(* Every step keeps references right, in memory and on disk.               *)
LEMMA RefStep ==
  ASSUME TypeOK, RefInv, [Next]_vars
  PROVE  RefInv'
<1>1. \A n \in DOMAIN nodes : nodes[n] \in Node
  BY DEF TypeOK, GraphOK
<1>2. \A s \in Sessions : \A i : \A n : Cites(n, s, i) => Cites(n, s, i)'
  BY CitationsLast
<1>3. ASSUME log' = log
      PROVE  /\ \A n, s, i : Cites(n, s, i) <=> Cites(n, s, i)'
             /\ \A s, i, c : Contains(s, i, c) <=> Contains(s, i, c)'
  BY <1>3 DEF Cites, Contains, Yields
<1>4. ASSUME NEW s \in Sessions, Begin(s)
      PROVE  RefInv'
  BY <1>4, BeginCites
<1>5. ASSUME ResolveEntity
      PROVE  RefInv'
  <2>1. PICK a \in job.todo, n \in DOMAIN nodes :
          /\ a \in Occurrence
          /\ DOMAIN nodes' = DOMAIN nodes
          /\ nodes'[n] = Recognise(nodes[n], job.session, a)
          /\ \A m \in DOMAIN nodes \ {n} : nodes'[m] = nodes[m]
          /\ job'.todo = job.todo \ {a} /\ SameBatch
    BY <1>5, ResolveEffect
  <2>2. /\ job # NoJob /\ job.session \in Sessions /\ log' = log /\ saved' = saved
    BY <1>5 DEF ResolveEntity, TypeOK, Job
  <2>3. /\ nodes'[n].cand = nodes[n].cand /\ nodes'[n].forms = nodes[n].forms \cup {a.cand}
        /\ nodes'[n].refs = nodes[n].refs \cup {<<job.session, i>> : i \in a.refs}
    BY <1>1, <2>1, <2>2, RecogniseEffect
  <2>4. ASSUME NEW r \in nodes'[n].refs
        PROVE  Cites(nodes'[n], r[1], r[2])
    <3>1. CASE r \in nodes[n].refs
      BY <2>3, <3>1, CitesMore DEF RefInv, AllCited
    <3>2. CASE r \in {<<job.session, i>> : i \in a.refs}
      BY <2>1, <2>2, <2>3, <3>2, CommittedCites
    <3> QED BY <2>3, <2>4, <3>1, <3>2
  <2>5. AllCited(nodes)'
    BY <1>3, <2>1, <2>2, <2>4 DEF RefInv, AllCited
  <2>6. AllCited(saved.nodes)'
    BY <1>3, <2>2 DEF RefInv, AllCited
  <2>7. WaitingIsContained'
    BY <1>3, <2>1, <2>2 DEF RefInv, WaitingIsContained, SameBatch
  <2> QED BY <2>5, <2>6, <2>7 DEF RefInv
<1>6. ASSUME AddEntity \/ CommitStatement
      PROVE  RefInv'
  <2>1. PICK a \in job.todo, id \in NodeIds \ issued :
          /\ a \in Occurrence
          /\ DOMAIN nodes' = DOMAIN nodes \cup {id}
          /\ \E key, old : nodes'[id] = NewNode(a, key, old)
          /\ \A n \in DOMAIN nodes : /\ nodes'[n].cand = nodes[n].cand
                                     /\ nodes'[n].forms = nodes[n].forms
                                     /\ nodes'[n].refs = nodes[n].refs
          /\ job'.todo = job.todo \ {a} /\ SameBatch
    <3>1. CASE AddEntity
      <4>1. PICK a \in job.todo, id \in NodeIds \ issued :
              /\ a \in Occurrence
              /\ DOMAIN nodes' = DOMAIN nodes \cup {id}
              /\ nodes'[id] = NewNode(a, NoKey, {})
              /\ \A n \in DOMAIN nodes : nodes'[n] = nodes[n]
              /\ job'.todo = job.todo \ {a} /\ SameBatch
        BY <3>1, AddEntityEffect
      <4> QED BY <4>1
    <3>2. CASE CommitStatement
      <4>1. PICK a \in job.todo, id \in NodeIds \ issued :
              /\ a \in Occurrence
              /\ DOMAIN nodes' = DOMAIN nodes \cup {id}
              /\ nodes'[id] = NewNode(a, a.cand.key, Contradicted(a))
              /\ \A n \in DOMAIN nodes : /\ nodes'[n].cand = nodes[n].cand
                                         /\ nodes'[n].forms = nodes[n].forms
                                         /\ nodes'[n].refs = nodes[n].refs
              /\ job'.todo = job.todo \ {a} /\ SameBatch
        BY <3>2, CommitEffect, Zenon
      <4> QED BY <4>1
    <3> QED BY <1>6, <3>1, <3>2
  <2>2. /\ job # NoJob /\ log' = log /\ saved' = saved
    BY <1>6 DEF AddEntity, CommitStatement
  <2>3. a.cand \in nodes'[id].forms /\ nodes'[id].refs = {<<job.session, i>> : i \in a.refs}
    BY <2>1 DEF NewNode, RefsOf
  <2>4. \A r \in nodes'[id].refs : Cites(nodes'[id], r[1], r[2])
    BY <2>1, <2>2, <2>3, CommittedCites
  <2>5. \A n \in DOMAIN nodes : \A r \in nodes'[n].refs : Cites(nodes'[n], r[1], r[2])
    BY <2>1, CitesMore DEF RefInv, AllCited
  <2>6. AllCited(nodes)'
    BY <1>3, <2>1, <2>2, <2>4, <2>5 DEF RefInv, AllCited
  <2>7. AllCited(saved.nodes)'
    BY <1>3, <2>2 DEF RefInv, AllCited
  <2>8. WaitingIsContained'
    BY <1>3, <2>1, <2>2 DEF RefInv, WaitingIsContained, SameBatch
  <2> QED BY <2>6, <2>7, <2>8 DEF RefInv
<1>7. ASSUME NEW s \in Sessions, NEW m \in Messages, LogMessage(s, m)
      PROVE  RefInv'
  <2>1. nodes' = nodes /\ saved' = saved /\ job' = job
    BY <1>7 DEF LogMessage
  <2>2. /\ \A n \in DOMAIN nodes : nodes[n].refs \subseteq Sessions \X Nat
        /\ \A n \in DOMAIN saved.nodes : saved.nodes[n].refs \subseteq Sessions \X Nat
        /\ job # NoJob => job.session \in Sessions
    BY DEF TypeOK, GraphOK, Node, Job
  <2>3. AllCited(nodes)' /\ AllCited(saved.nodes)'
    BY <1>2, <2>1, <2>2 DEF RefInv, AllCited
  <2>4. WaitingIsContained'
    BY <2>1, <2>2, CitationsLast DEF RefInv, WaitingIsContained
  <2> QED BY <2>3, <2>4 DEF RefInv
<1>8. ASSUME Attach \/ SaveGraph
      PROVE  RefInv'
  <2>1. /\ job # NoJob /\ job'.todo = job.todo /\ job'.session = job.session
        /\ log' = log /\ nodes' = nodes /\ saved'.nodes \in {nodes, saved.nodes}
    BY <1>8 DEF Attach, SaveGraph, TypeOK, Job
  <2> QED BY <1>3, <2>1 DEF RefInv, AllCited, WaitingIsContained
<1>9. ASSUME SetProgress \/ Abort \/ EndSession \/ Crash
      PROVE  RefInv'
  <2>1. /\ job' = NoJob /\ log' = log /\ nodes' \in {nodes, saved.nodes}
        /\ saved'.nodes \in {nodes, saved.nodes}
    BY <1>9 DEF SetProgress, Abort, EndSession, Crash
  <2> QED BY <1>3, <2>1 DEF RefInv, AllCited, WaitingIsContained
<1>10. ASSUME UNCHANGED <<log, nodes, saved, job>>
       PROVE  RefInv'
  BY <1>3, <1>10 DEF RefInv, AllCited, WaitingIsContained
<1> QED BY <1>4, <1>5, <1>6, <1>7, <1>8, <1>9, <1>10
        DEF Next, Consolidate, Commit, Finish, NothingFound, vars

(* Every source reference of every node points at a logged message in      *)
(* which the node's content, a near-duplicate or one of its aliases is     *)
(* found, or for which a confident proposal cites it: provenance is never  *)
(* off by one, never of another session, and lasts as the logs grow.       *)
THEOREM ReferencesPointAtTheirSource == Spec => []RefsPointAtSource
<1>1. Init => RefInv
  BY DEF Init, EmptyGraph, RefInv, AllCited, WaitingIsContained
<1>2. TypeOK /\ RefInv /\ [Next]_vars => RefInv'
  BY RefStep
<1>3. RefInv => RefsPointAtSource
  BY DEF RefInv, AllCited, RefsPointAtSource
<1> QED BY <1>1, <1>2, <1>3, TypeCorrect, PTL DEF Spec

-----------------------------------------------------------------------------
(* First occurrences.  Dropping repetitions loses no statement: occurrences*)
(* are put in order by numbers, and numbers have a least one.              *)
LEMMA Least ==
  ASSUME NEW S \in SUBSET Nat, S # {}
  PROVE  \E m \in S : \A n \in S : m <= n
<1> DEFINE T == {0 .. m : m \in S}
<1>1. \A m \in S : 0 .. m \in SUBSET Nat /\ IsFiniteSet(0 .. m)
  BY FS_Interval
<1>2. T \subseteq FiniteSubsetsOf(Nat) /\ T # {}
  BY <1>1 DEF FiniteSubsetsOf
<1>3. \E x \in T : \A y \in T : <<y, x>> \notin StrictSubsetOrdering(Nat)
  <2> HIDE DEF T
  <2> QED BY <1>2, FS_StrictSubsetOrderingWellFounded, WFMin
<1>4. PICK m \in S : \A n \in S : <<0 .. n, 0 .. m>> \notin StrictSubsetOrdering(Nat)
  BY <1>3
<1>5. ASSUME NEW n \in S, n < m
      PROVE  FALSE
  <2>1. 0 .. n \subseteq 0 .. m /\ m \in 0 .. m /\ m \notin 0 .. n
    BY <1>5
  <2> QED BY <1>1, <1>4, <2>1 DEF StrictSubsetOrdering
<1> QED BY <1>5

(* Where an occurrence was found tells which it is.                        *)
LEMMA PlaceDecides ==
  ASSUME TypeOK, NEW s \in Sessions, NEW answers \in [ChunkStarts(s) -> Answers],
         NEW a \in Matched(s) \cup Proposed(s, answers),
         NEW b \in Matched(s) \cup Proposed(s, answers),
         a.stage = b.stage, a.message = b.message, a.at = b.at
  PROVE  a = b
<1>1. ASSUME NEW x \in Matched(s)
      PROVE  /\ x.stage = 1
             /\ x = [cand |-> Extract[log[s][x.message]][x.at], stage |-> 1,
                     message |-> x.message, at |-> x.at,
                     index |-> x.message, refs |-> {x.message}]
  BY DEF Matched, FoundAt
<1>2. ASSUME NEW x \in Proposed(s, answers)
      PROVE  LET refs == Cited(answers[x.message][x.at], s, x.message)
             IN  /\ x.stage = 2 /\ x.index \in refs /\ \A j \in refs : x.index <= j
                 /\ x = [cand |-> answers[x.message][x.at].cand, stage |-> 2,
                         message |-> x.message, at |-> x.at,
                         index |-> x.index, refs |-> refs]
  <2>1. PICK start \in ChunkStarts(s) : x \in Accepted(answers[start], s, start)
    BY <1>2 DEF Proposed
  <2> DEFINE answer == answers[start]
  <2>2. PICK k \in {k \in DOMAIN answer : answer[k].confidence >= MinConfidence} :
          \E i \in Cited(answer[k], s, start) :
            /\ \A j \in Cited(answer[k], s, start) : i <= j
            /\ x = [cand |-> answer[k].cand, stage |-> 2, message |-> start, at |-> k,
                    index |-> i, refs |-> Cited(answer[k], s, start)]
    BY <2>1 DEF Accepted
  <2>3. x.stage = 2 /\ x.message = start /\ x.at = k
    BY <2>2
  <2> HIDE DEF answer
  <2>4. /\ x.index \in Cited(answer[k], s, start)
        /\ \A j \in Cited(answer[k], s, start) : x.index <= j
        /\ x = [cand |-> answer[k].cand, stage |-> 2, message |-> start, at |-> k,
                index |-> x.index, refs |-> Cited(answer[k], s, start)]
    BY <2>2
  <2> QED BY <2>3, <2>4 DEF answer
<1>3. CASE a \in Matched(s) /\ b \in Matched(s)
  BY <1>1, <1>3
<1>4. CASE a \in Proposed(s, answers) /\ b \in Proposed(s, answers)
  <2> DEFINE refs == Cited(answers[a.message][a.at], s, a.message)
             cand == answers[a.message][a.at].cand
  <2>1. /\ a.index \in refs /\ \A j \in refs : a.index <= j
        /\ a = [cand |-> cand, stage |-> 2, message |-> a.message, at |-> a.at,
                index |-> a.index, refs |-> refs]
    BY <1>2, <1>4
  <2>2. /\ b.index \in refs /\ \A j \in refs : b.index <= j
        /\ b = [cand |-> cand, stage |-> 2, message |-> a.message, at |-> a.at,
                index |-> b.index, refs |-> refs]
    BY <1>2, <1>4
  <2>3. a.index \in Nat /\ b.index \in Nat
    BY <1>4, ProposedType DEF Occurrence
  <2> HIDE DEF refs, cand
  <2>4. a.index = b.index
    BY <2>1, <2>2, <2>3
  <2> QED BY <2>1, <2>2, <2>4
<1>5. CASE (a \in Matched(s) /\ b \in Proposed(s, answers))
        \/ (b \in Matched(s) /\ a \in Proposed(s, answers))
  BY <1>1, <1>2, <1>5
<1> QED BY <1>3, <1>4, <1>5

(* Of some occurrences there is one that no other precedes.                *)
LEMMA EarliestPlace ==
  ASSUME NEW S \in SUBSET Occurrence, S # {}
  PROVE  \E a \in S : \A b \in S :
           \/ a.stage < b.stage
           \/ /\ a.stage = b.stage
              /\ a.message < b.message \/ (a.message = b.message /\ a.at <= b.at)
<1>1. \A a \in S : a.stage \in Nat /\ a.message \in Nat /\ a.at \in Nat
  BY DEF Occurrence
<1>2. PICK stage \in {a.stage : a \in S} : \A n \in {a.stage : a \in S} : stage <= n
  BY <1>1, Least
<1> DEFINE T == {a \in S : a.stage = stage}
<1>3. PICK message \in {a.message : a \in T} : \A n \in {a.message : a \in T} : message <= n
  <2>1. {a.message : a \in T} \in SUBSET Nat /\ {a.message : a \in T} # {}
    BY <1>1, <1>2
  <2> QED BY <2>1, Least
<1> DEFINE U == {a \in T : a.message = message}
<1>4. PICK at \in {a.at : a \in U} : \A n \in {a.at : a \in U} : at <= n
  <2>1. {a.at : a \in U} \in SUBSET Nat /\ {a.at : a \in U} # {}
    BY <1>1, <1>3
  <2> QED BY <2>1, Least
<1>5. PICK a \in U : a.at = at
  BY <1>4
<1>6. ASSUME NEW b \in S
      PROVE  \/ a.stage < b.stage
             \/ /\ a.stage = b.stage
                /\ a.message < b.message \/ (a.message = b.message /\ a.at <= b.at)
  <2>1. CASE b \notin T
    <3>1. stage <= b.stage /\ b.stage # stage /\ a.stage = stage
      BY <1>2, <1>5, <2>1
    <3> QED BY <1>1, <1>2, <3>1
  <2>2. CASE b \in T /\ b \notin U
    <3>1. message <= b.message /\ b.message # message /\ a.message = message /\ a.stage = b.stage
      BY <1>3, <1>5, <2>2
    <3> QED BY <1>1, <1>3, <3>1
  <2>3. CASE b \in U
    <3>1. at <= b.at /\ a.message = b.message /\ a.stage = b.stage
      BY <1>4, <1>5, <2>3
    <3> QED BY <1>5, <3>1
  <2> QED BY <2>1, <2>2, <2>3
<1> QED BY <1>5, <1>6

(* Whatever is found or proposed, its statement is gathered.               *)
LEMMA StatementsAreGathered ==
  ASSUME TypeOK, NEW s \in Sessions, NEW answers \in [ChunkStarts(s) -> Answers],
         NEW a \in Found(s) \cup Proposed(s, answers)
  PROVE  \E b \in Gather(s, answers) : b.cand.statement = a.cand.statement
<1> DEFINE all == Found(s) \cup Proposed(s, answers)
           same == {b \in all : b.cand.statement = a.cand.statement}
           entities == {b \in same : b.cand.entity}
           front == IF entities # {} THEN entities ELSE same
<1>1. all \subseteq Occurrence
  BY FoundType, ProposedType
<1>2. front \in SUBSET Occurrence /\ front # {}
  BY <1>1
<1>3. PICK b \in front : \A c \in front :
        \/ b.stage < c.stage
        \/ /\ b.stage = c.stage
           /\ b.message < c.message \/ (b.message = c.message /\ b.at <= c.at)
  <2> HIDE DEF front
  <2> QED BY <1>2, EarliestPlace
<1>4. ASSUME NEW c \in same, c # b
      PROVE  Before(b, c)
  <2>1. CASE c \notin front
    BY <1>3, <1>4, <2>1 DEF Before
  <2>2. CASE c \in front
    <3>1. b.cand.entity = c.cand.entity
      <4>1. b.cand.entity \in BOOLEAN /\ c.cand.entity \in BOOLEAN
        BY <1>1, <1>3, CandidateShape DEF Occurrence
      <4> QED BY <1>3, <2>2, <4>1
    <3>2. ~(b.stage = c.stage /\ b.message = c.message /\ b.at = c.at)
      BY <1>3, <1>4, FoundType, PlaceDecides
    <3>3. b.at \in Nat /\ c.at \in Nat
      BY <1>1, <1>3 DEF Occurrence
    <3>4. \/ b.stage < c.stage
          \/ /\ b.stage = c.stage
             /\ b.message < c.message \/ (b.message = c.message /\ b.at < c.at)
      BY <1>3, <2>2, <3>2, <3>3
    <3> QED BY <3>1, <3>4 DEF Before
  <2> QED BY <2>1, <2>2
<1>5. b \in all /\ b.cand.statement = a.cand.statement
  BY <1>3
<1>6. \A c \in all \ {b} : b.cand.statement = c.cand.statement => Before(b, c)
  BY <1>4, <1>5
<1> HIDE DEF all
<1>7. b \in FirstOccurrences(all)
  BY <1>5, <1>6 DEF FirstOccurrences
<1> QED BY <1>5, <1>7 DEF Gather, all

-----------------------------------------------------------------------------
(* Remembering.  What the progress index has passed is remembered in both  *)
(* graphs, since a crash makes the one of the other.  What the batch in    *)
(* hand has read is remembered in memory or waits to be committed; nothing *)
(* waits once the batch is attached, and the graph is on disk when its     *)
(* progress is recorded.                                                   *)
FoundIn(s, i) == {StandIns(s, i, k) : k \in DOMAIN Extract[log[s][i]]}
RemembersOne(g, cands, s) == \E c \in cands : Remembers(g, c, s)
WaitsOne(todo, cands) == \E c \in cands : \E a \in todo : a.cand.statement = c.statement
AllRemembered(g) ==
  \A s \in Sessions : \A i \in 1 .. progress[s] : \A cands \in FoundIn(s, i) :
    RemembersOne(g, cands, s)
InHand ==
  job # NoJob =>
    /\ job.tail <= Len(log[job.session])
    /\ \A i \in progress[job.session] + 1 .. job.tail : \A cands \in FoundIn(job.session, i) :
         RemembersOne(nodes, cands, job.session) \/ WaitsOne(job.todo, cands)
    /\ job.pc # "commit" => job.todo = {}
    /\ job.pc = "progress" => saved.nodes = nodes
KeptInv ==
  /\ \A s \in Sessions : progress[s] <= Len(log[s])
  /\ AllRemembered(nodes) /\ AllRemembered(saved.nodes) /\ InHand

(* A graph that grows forgets nothing.                                     *)
Grown(g, h) ==
  /\ DOMAIN g \subseteq DOMAIN h
  /\ \A n \in DOMAIN g : /\ h[n].cand = g[n].cand
                         /\ g[n].sessions \subseteq h[n].sessions
                         /\ g[n].forms \subseteq h[n].forms
(* What a graph remembers of a statement's source, a graph grown from it    *)
(* remembers too.                                                          *)
LEMMA GrownRemembers ==
  ASSUME NEW g, NEW h, Grown(g, h), NEW c, NEW s, Remembers(g, c, s)
  PROVE  Remembers(h, c, s)
BY DEF Grown, Remembers

(* So it is with what stands in for it.                                    *)
LEMMA GrownRemembersOne ==
  ASSUME NEW g, NEW h, Grown(g, h), NEW cands, NEW s, RemembersOne(g, cands, s)
  PROVE  RemembersOne(h, cands, s)
BY GrownRemembers DEF RemembersOne

(* What stands in for a message's matches stays while the log grows.       *)
LEMMA StandInsStay ==
  ASSUME NEW s, NEW i \in Nat \ {0}, \A j \in 1 .. i : log'[s][j] = log[s][j]
  PROVE  FoundIn(s, i)' = FoundIn(s, i)
<1>1. log'[s][i] = log[s][i]
  OBVIOUS
<1>2. ASSUME NEW k \in DOMAIN Extract[log[s][i]]
      PROVE  StandIns(s, i, k)' = StandIns(s, i, k)
  BY <1>1 DEF StandIns
<1> QED BY <1>1, <1>2 DEF FoundIn

(* A match that is cut has a stand-in that is kept.                        *)
LEMMA MatchesAreStoodFor ==
  ASSUME TypeOK, NEW s \in Sessions, NEW answers \in [ChunkStarts(s) -> Answers],
         NEW a \in Matched(s)
  PROVE  \E b \in Found(s) : b.cand \in StandIns(s, a.message, a.at)
<1> DEFINE alike == {b \in Matched(s) : ~b.cand.entity /\ b.cand.prefix = a.cand.prefix}
<1>1. /\ Matched(s) \subseteq Occurrence
      /\ \A x \in Matched(s) : /\ x.stage = 1 /\ x.message \in New(s)
                               /\ x.at \in DOMAIN Extract[log[s][x.message]]
                               /\ x.cand = Extract[log[s][x.message]][x.at]
  BY FoundType DEF Matched, FoundAt
<1>2. CASE a.cand.entity
  <2>1. a \in Found(s)
    BY <1>2 DEF Found, FirstOfPrefix
  <2>2. a.cand \in StandIns(s, a.message, a.at)
    BY <1>1 DEF StandIns
  <2> QED BY <2>1, <2>2
<1>3. CASE ~a.cand.entity
  <2>1. alike \in SUBSET Occurrence /\ a \in alike
    BY <1>1, <1>3
  <2>2. PICK b \in alike : \A c \in alike :
          \/ b.stage < c.stage
          \/ /\ b.stage = c.stage
             /\ b.message < c.message \/ (b.message = c.message /\ b.at <= c.at)
    <3> HIDE DEF alike
    <3> QED BY <2>1, EarliestPlace
  <2>3. ASSUME NEW c \in Matched(s) \ {b}, ~c.cand.entity, c.cand.prefix = b.cand.prefix
        PROVE  Before(b, c)
    <3>1. c \in alike /\ ~b.cand.entity
      BY <2>2, <2>3
    <3>2. ~(b.message = c.message /\ b.at = c.at)
      BY <1>1, <2>2, <2>3, PlaceDecides
    <3>3. /\ b.stage = 1 /\ c.stage = 1 /\ b.message \in Nat /\ c.message \in Nat
          /\ b.at \in Nat /\ c.at \in Nat
      BY <1>1, <2>2 DEF Occurrence
    <3>4. b.message < c.message \/ (b.message = c.message /\ b.at < c.at)
      BY <2>2, <3>1, <3>2, <3>3
    <3>5. b.cand.entity = FALSE /\ c.cand.entity = FALSE
      <4>1. b.cand \in Candidates /\ c.cand \in Candidates
        BY <1>1, <2>2, <2>3 DEF Occurrence
      <4> QED BY <2>3, <3>1, <4>1, CandidateShape
    <3> QED BY <3>3, <3>4, <3>5 DEF Before
  <2>4. b \in Found(s)
    BY <2>2, <2>3 DEF Found, FirstOfPrefix
  <2>5. CASE b = a
    BY <1>1, <2>4, <2>5 DEF StandIns
  <2>6. CASE b # a
    <3>1. ~(b.message = a.message /\ b.at = a.at)
      BY <1>1, <2>2, <2>6, PlaceDecides
    <3>2. /\ b.stage = 1 /\ a.stage = 1 /\ b.message \in Nat /\ a.message \in Nat
          /\ b.at \in Nat /\ a.at \in Nat /\ b.cand \in Candidates
      BY <1>1, <2>2 DEF Occurrence
    <3>3. Earlier(b.message, b.at, a.message, a.at)
      BY <2>1, <2>2, <3>1, <3>2 DEF Earlier
    <3>4. b.message \in 1 .. a.message
      BY <1>1, <2>2, <3>2, <3>3 DEF Earlier, New, TypeOK
    <3>5. b.cand \in StandIns(s, a.message, a.at)
      <4>1. /\ a.cand = Extract[log[s][a.message]][a.at]
            /\ b.cand = Extract[log[s][b.message]][b.at] /\ b.at \in DOMAIN Extract[log[s][b.message]]
        BY <1>1, <2>2
      <4>2. ~a.cand.entity /\ ~b.cand.entity /\ b.cand.prefix = a.cand.prefix
        BY <1>3, <2>2
      <4> HIDE DEF alike
      <4> QED BY <3>2, <3>3, <3>4, <4>1, <4>2 DEF StandIns
    <3> QED BY <2>4, <3>5
  <2> QED BY <2>5, <2>6
<1> QED BY <1>2, <1>3

(* Begin grows the graph, and every statement that it reads is remembered  *)
(* there or waits.                                                         *)
LEMMA BeginTakesAll ==
  ASSUME TypeOK, NEW s \in Sessions, Begin(s)
  PROVE  /\ Grown(nodes, nodes')
         /\ job'.session = s /\ job'.tail = Len(log[s]) /\ job'.pc = "commit"
         /\ \A i \in New(s) : \A cands \in FoundIn(s, i) :
              RemembersOne(nodes', cands, s) \/ WaitsOne(job'.todo, cands)
<1>1. PICK answers \in [ChunkStarts(s) -> Answers] :
        LET batch == Gather(s, answers)
            known == {a \in batch : Matches(a.cand) # {}}
        IN  \E match \in [known -> DOMAIN nodes] :
              /\ \A a \in known : match[a] \in Matches(a.cand)
              /\ DOMAIN nodes' = DOMAIN nodes
              /\ \A n \in DOMAIN nodes :
                   nodes'[n] = IF {a \in known : match[a] = n} = {} THEN nodes[n]
                               ELSE Reinforce(nodes[n], s, {a \in known : match[a] = n})
              /\ job'.todo = batch \ known /\ job'.session = s
              /\ job'.tail = Len(log[s]) /\ job'.pc = "commit"
  BY BeginEffect, Zenon
<1> DEFINE batch == Gather(s, answers)
           known == {a \in batch : Matches(a.cand) # {}}
<1>2. PICK match \in [known -> DOMAIN nodes] :
        /\ \A a \in known : match[a] \in Matches(a.cand)
        /\ DOMAIN nodes' = DOMAIN nodes
        /\ \A n \in DOMAIN nodes :
             nodes'[n] = IF {a \in known : match[a] = n} = {} THEN nodes[n]
                         ELSE Reinforce(nodes[n], s, {a \in known : match[a] = n})
        /\ job'.todo = batch \ known /\ job'.session = s
        /\ job'.tail = Len(log[s]) /\ job'.pc = "commit"
  BY <1>1, Zenon
<1>3. \A a \in batch : a \in Occurrence /\ a.cand \in Candidates
  BY GatherType DEF Occurrence
<1>4. ASSUME NEW i \in New(s), NEW cands \in FoundIn(s, i)
      PROVE  \E c \in cands : \E b \in batch : b.cand.statement = c.statement
  <2>1. PICK k \in DOMAIN Extract[log[s][i]] : cands = StandIns(s, i, k)
    BY <1>4 DEF FoundIn
  <2> DEFINE a == [cand |-> Extract[log[s][i]][k], stage |-> 1, message |-> i, at |-> k,
                   index |-> i, refs |-> {i}]
  <2>2. a \in FoundAt(s, i) /\ a.message = i /\ a.at = k
    BY <2>1 DEF FoundAt
  <2> HIDE DEF a
  <2>3. a \in Matched(s)
    BY <2>2 DEF Matched
  <2>4. PICK b \in Found(s) : b.cand \in cands
    BY <2>1, <2>2, <2>3, MatchesAreStoodFor
  <2>5. \E d \in Gather(s, answers) : d.cand.statement = b.cand.statement
    BY StatementsAreGathered
  <2> QED BY <2>4, <2>5
<1>5. \A a \in known : a \in batch
  OBVIOUS
<1> HIDE DEF batch, known
<1>6. \A n \in DOMAIN nodes : nodes[n] \in Node
  BY DEF TypeOK, GraphOK
<1>7. Grown(nodes, nodes')
  <2>1. \A n \in DOMAIN nodes :
          nodes'[n] = nodes[n] \/ \E found : nodes'[n] = Reinforce(nodes[n], s, found)
    BY BeginReinforces
  <2>2. \A n \in DOMAIN nodes : /\ nodes'[n].cand = nodes[n].cand
                                /\ nodes[n].sessions \subseteq nodes'[n].sessions
                                /\ nodes'[n].forms = nodes[n].forms
    BY <1>6, <2>1, ReinforceEffect
  <2> QED BY <1>2, <2>2 DEF Grown
<1>8. ASSUME NEW b \in known, NEW c, b.cand.statement = c.statement
      PROVE  Remembers(nodes', c, s)
  <2> DEFINE n == match[b]
             found == {a \in known : match[a] = n}
  <2>1. n \in DOMAIN nodes /\ n \in Matches(b.cand) /\ found # {}
    BY <1>2
  <2>2. nodes'[n] = Reinforce(nodes[n], s, found)
    BY <1>2, <2>1
  <2> HIDE DEF n, found
  <2>3. nodes'[n].cand = nodes[n].cand /\ s \in nodes'[n].sessions
    BY <1>6, <2>1, <2>2, ReinforceEffect
  <2>4. b.cand \in Candidates /\ nodes[n].cand \in Candidates
    BY <1>3, <1>5, <1>6, <2>1 DEF Node
  <2>5. <<b.cand, nodes'[n].cand>> \in Near
    BY <2>1, <2>3, <2>4, SameContent DEF Matches
  <2>6. n \in DOMAIN nodes'
    BY <1>2, <2>1
  <2> QED BY <1>8, <2>3, <2>4, <2>5, <2>6 DEF Remembers
<1>9. ASSUME NEW i \in New(s), NEW cands \in FoundIn(s, i)
      PROVE  RemembersOne(nodes', cands, s) \/ WaitsOne(job'.todo, cands)
  <2>1. PICK c \in cands, b \in batch : b.cand.statement = c.statement
    BY <1>4, <1>9
  <2> QED BY <1>2, <1>8, <2>1 DEF RemembersOne, WaitsOne
<1> QED BY <1>2, <1>7, <1>9

(* Each further step on the batch grows the graph, and the candidate that  *)
(* it takes is an alias of some node that knows the session.               *)
LEMMA CommittingOne ==
  ASSUME TypeOK, ResolveEntity \/ AddEntity \/ CommitStatement
  PROVE  /\ Grown(nodes, nodes') /\ SameBatch
         /\ \E a \in job.todo : \E n \in DOMAIN nodes' :
              /\ a \in Occurrence /\ job'.todo = job.todo \ {a}
              /\ job.session \in nodes'[n].sessions /\ a.cand \in nodes'[n].forms
<1>1. \A n \in DOMAIN nodes : nodes[n] \in Node
  BY DEF TypeOK, GraphOK
<1>2. CASE ResolveEntity
  <2>1. PICK a \in job.todo, n \in DOMAIN nodes :
          /\ a \in Occurrence
          /\ DOMAIN nodes' = DOMAIN nodes
          /\ nodes'[n] = Recognise(nodes[n], job.session, a)
          /\ \A m \in DOMAIN nodes \ {n} : nodes'[m] = nodes[m]
          /\ job'.todo = job.todo \ {a} /\ SameBatch
    BY <1>2, ResolveEffect
  <2>2. job.session \in Sessions
    BY <1>2 DEF ResolveEntity, TypeOK, Job
  <2>3. /\ nodes'[n].cand = nodes[n].cand
        /\ nodes'[n].sessions = nodes[n].sessions \cup {job.session}
        /\ nodes'[n].forms = nodes[n].forms \cup {a.cand}
    BY <1>1, <2>1, <2>2, RecogniseEffect
  <2>4. Grown(nodes, nodes')
    BY <2>1, <2>3 DEF Grown
  <2> QED BY <2>1, <2>3, <2>4
<1>3. CASE AddEntity
  <2>1. PICK a \in job.todo, id \in NodeIds \ issued :
          /\ a \in Occurrence
          /\ DOMAIN nodes' = DOMAIN nodes \cup {id}
          /\ nodes'[id] = NewNode(a, NoKey, {})
          /\ \A n \in DOMAIN nodes : nodes'[n] = nodes[n]
          /\ job'.todo = job.todo \ {a} /\ SameBatch
    BY <1>3, AddEntityEffect
  <2>2. job.session \in nodes'[id].sessions /\ a.cand \in nodes'[id].forms
    BY <2>1 DEF NewNode
  <2> QED BY <2>1, <2>2 DEF Grown
<1>4. CASE CommitStatement
  <2>1. PICK a \in job.todo, id \in NodeIds \ issued :
          /\ a \in Occurrence
          /\ DOMAIN nodes' = DOMAIN nodes \cup {id}
          /\ nodes'[id] = NewNode(a, a.cand.key, Contradicted(a))
          /\ \A n \in DOMAIN nodes : /\ nodes'[n].cand = nodes[n].cand
                                     /\ nodes'[n].sessions = nodes[n].sessions
                                     /\ nodes'[n].forms = nodes[n].forms
          /\ job'.todo = job.todo \ {a} /\ SameBatch
    BY <1>4, CommitEffect, Zenon
  <2>2. job.session \in nodes'[id].sessions /\ a.cand \in nodes'[id].forms
    BY <2>1 DEF NewNode
  <2> QED BY <2>1, <2>2 DEF Grown
<1> QED BY <1>2, <1>3, <1>4

(* Messages without candidates leave nothing to remember.                  *)
LEMMA NothingToRemember ==
  ASSUME TypeOK, NEW s \in Sessions, NothingFound(s), NEW i \in New(s)
  PROVE  FoundIn(s, i) = {}
<1>1. PICK answers \in [ChunkStarts(s) -> Answers] : Gather(s, answers) = {}
  BY DEF NothingFound
<1>2. Found(s) = {}
  BY <1>1, StatementsAreGathered
<1>3. FoundAt(s, i) = {}
  BY <1>1, <1>2, MatchesAreStoodFor DEF Matched
<1> QED BY <1>3 DEF FoundAt, FoundIn

(* While log and progress stay, a graph that only grew keeps what it kept. *)
LEMMA GrowingKeeps ==
  ASSUME UNCHANGED <<log, progress>>
  PROVE  /\ \A s, i : FoundIn(s, i)' = FoundIn(s, i)
         /\ AllRemembered(nodes) /\ Grown(nodes, nodes') => AllRemembered(nodes)'
         /\ AllRemembered(saved.nodes) /\ Grown(saved.nodes, saved'.nodes) => AllRemembered(saved.nodes)'
         /\ AllRemembered(nodes) /\ saved'.nodes = nodes => AllRemembered(saved.nodes)'
         /\ AllRemembered(saved.nodes) /\ nodes' = saved.nodes => AllRemembered(nodes)'
<1>1. \A s, i : FoundIn(s, i)' = FoundIn(s, i)
  BY DEF FoundIn, StandIns
<1>2. AllRemembered(nodes) /\ Grown(nodes, nodes') => AllRemembered(nodes)'
  BY <1>1, GrownRemembersOne DEF AllRemembered
<1>3. AllRemembered(saved.nodes) /\ Grown(saved.nodes, saved'.nodes) => AllRemembered(saved.nodes)'
  BY <1>1, GrownRemembersOne DEF AllRemembered
<1>4. AllRemembered(nodes) /\ saved'.nodes = nodes => AllRemembered(saved.nodes)'
  BY <1>1 DEF AllRemembered
<1>5. AllRemembered(saved.nodes) /\ nodes' = saved.nodes => AllRemembered(nodes)'
  BY <1>1 DEF AllRemembered
<1> QED BY <1>1, <1>2, <1>3, <1>4, <1>5

(* Every step keeps what was processed, in memory and on disk.             *)
LEMMA KeptStep ==
  ASSUME TypeOK, KeptInv, [Next]_vars
  PROVE  KeptInv'
<1>1. \A s \in Sessions : progress[s] \in Nat /\ Len(log[s]) \in Nat
  BY DEF TypeOK
<1>2. \A g : Grown(g, g)
  BY DEF Grown
<1>3. job # NoJob => job \in Job /\ job.session \in Sessions /\ job.tail \in Nat
  BY DEF TypeOK, Job
<1>4. ASSUME NEW s \in Sessions, NEW m \in Messages, LogMessage(s, m)
      PROVE  KeptInv'
  <2>1. UNCHANGED <<progress, nodes, saved, job>>
    BY <1>4 DEF LogMessage
  <2>2. \A t \in Sessions : /\ Len(log[t]) <= Len(log'[t])
                            /\ \A i \in DOMAIN log[t] : log'[t][i] = log[t][i]
    BY LogsGrow
  <2>3. \A t \in Sessions : \A i \in 1 .. Len(log[t]) : FoundIn(t, i)' = FoundIn(t, i)
    <3> TAKE t \in Sessions
    <3> TAKE i \in 1 .. Len(log[t])
    <3>1. 1 .. i \subseteq DOMAIN log[t] /\ i \in Nat \ {0}
      BY DEF TypeOK
    <3>2. \A j \in 1 .. i : log'[t][j] = log[t][j]
      BY <2>2, <3>1
    <3> QED BY <3>1, <3>2, StandInsStay
  <2>4. \A t \in Sessions : progress'[t] <= Len(log'[t])
    BY <1>1, <2>1, <2>2, LogsGrow DEF KeptInv, TypeOK
  <2>5. \A t \in Sessions : \A i \in 1 .. progress[t] : FoundIn(t, i)' = FoundIn(t, i)
    BY <1>1, <2>3 DEF KeptInv
  <2>6. AllRemembered(nodes)' /\ AllRemembered(saved.nodes)'
    BY <2>1, <2>5 DEF KeptInv, AllRemembered
  <2>7. ASSUME job # NoJob
        PROVE  InHand'
    <3>1. job.tail <= Len(log[job.session]) /\ Len(log[job.session]) <= Len(log'[job.session])
      BY <1>3, <2>2, <2>7 DEF KeptInv, InHand
    <3>2. job.tail <= Len(log'[job.session])
      <4>1. Len(log'[job.session]) \in Nat
        BY <1>3, <1>4, <2>7 DEF LogMessage, TypeOK
      <4> QED BY <1>1, <1>3, <2>7, <3>1, <4>1
    <3>3. \A i \in progress[job.session] + 1 .. job.tail :
            FoundIn(job.session, i)' = FoundIn(job.session, i)
      BY <1>1, <1>3, <2>1, <2>3, <2>7, <3>1
    <3> QED BY <2>1, <2>7, <3>2, <3>3 DEF KeptInv, InHand
  <2>8. InHand'
    BY <2>1, <2>7 DEF InHand
  <2> QED BY <2>4, <2>6, <2>8 DEF KeptInv
<1>5. ASSUME NEW s \in Sessions, NothingFound(s)
      PROVE  KeptInv'
  <2>1. /\ UNCHANGED <<log, nodes, saved>> /\ job' = NoJob
        /\ progress' = [progress EXCEPT ![s] = Len(log[s])]
    BY <1>5 DEF NothingFound
  <2>2. /\ \A t \in Sessions : progress'[t] = IF t = s THEN Len(log[s]) ELSE progress[t]
        /\ \A t, i : FoundIn(t, i)' = FoundIn(t, i)
    BY <2>1 DEF TypeOK, FoundIn, StandIns
  <2>3. \A i \in 1 .. Len(log[s]) : i \in 1 .. progress[s] \/ i \in New(s)
    BY <1>1 DEF New
  <2>4. \A t \in Sessions : \A i \in 1 .. progress'[t] :
          i \in 1 .. progress[t] \/ FoundIn(t, i) = {}
    BY <1>5, <2>2, <2>3, NothingToRemember
  <2>5. AllRemembered(nodes)' /\ AllRemembered(saved.nodes)'
    BY <2>1, <2>2, <2>4 DEF KeptInv, AllRemembered
  <2>6. \A t \in Sessions : progress'[t] <= Len(log'[t])
    BY <1>1, <2>1, <2>2 DEF KeptInv
  <2> QED BY <2>1, <2>5, <2>6 DEF KeptInv, InHand
<1>6. ASSUME NEW s \in Sessions, Begin(s)
      PROVE  KeptInv'
  <2>1. UNCHANGED <<log, progress, saved>>
    BY <1>6 DEF Begin
  <2>2. /\ Grown(nodes, nodes')
        /\ job'.session = s /\ job'.tail = Len(log[s]) /\ job'.pc = "commit"
        /\ \A i \in New(s) : \A cands \in FoundIn(s, i) :
             RemembersOne(nodes', cands, s) \/ WaitsOne(job'.todo, cands)
    BY <1>6, BeginTakesAll
  <2>3. \A t, i : FoundIn(t, i)' = FoundIn(t, i)
    BY <2>1 DEF FoundIn, StandIns
  <2>4. AllRemembered(nodes)' /\ AllRemembered(saved.nodes)'
    BY <1>2, <2>1, <2>2, GrowingKeeps DEF KeptInv
  <2>5. InHand'
    BY <1>1, <2>1, <2>2, <2>3 DEF InHand, New
  <2> QED BY <2>1, <2>4, <2>5 DEF KeptInv
<1>7. ASSUME ResolveEntity \/ AddEntity \/ CommitStatement
      PROVE  KeptInv'
  <2>1. UNCHANGED <<log, progress, saved>> /\ job # NoJob /\ job.pc = "commit"
    BY <1>7 DEF ResolveEntity, AddEntity, CommitStatement
  <2>2. Grown(nodes, nodes') /\ SameBatch
    BY <1>7, CommittingOne
  <2>3. PICK a \in job.todo, n \in DOMAIN nodes' :
          /\ a \in Occurrence /\ job'.todo = job.todo \ {a}
          /\ job.session \in nodes'[n].sessions /\ a.cand \in nodes'[n].forms
    BY <1>7, CommittingOne
  <2>4. \A t, i : FoundIn(t, i)' = FoundIn(t, i)
    BY <2>1 DEF FoundIn, StandIns
  <2>5. AllRemembered(nodes)' /\ AllRemembered(saved.nodes)'
    BY <1>2, <2>1, <2>2, GrowingKeeps DEF KeptInv
  <2>6. \A c : a.cand.statement = c.statement => Remembers(nodes', c, job.session)
    BY <2>3 DEF Remembers, Occurrence
  <2>7. ASSUME NEW i \in progress[job.session] + 1 .. job.tail,
               NEW cands \in FoundIn(job.session, i)
        PROVE  RemembersOne(nodes', cands, job.session) \/ WaitsOne(job'.todo, cands)
    <3>1. CASE RemembersOne(nodes, cands, job.session)
      BY <2>2, <3>1, GrownRemembersOne
    <3>2. ASSUME NEW c \in cands, NEW b \in job.todo, b.cand.statement = c.statement
          PROVE  RemembersOne(nodes', cands, job.session) \/ WaitsOne(job'.todo, cands)
      BY <2>3, <2>6, <3>2 DEF RemembersOne, WaitsOne
    <3> QED BY <2>1, <2>7, <3>1, <3>2 DEF KeptInv, InHand, WaitsOne
  <2>8. InHand'
    BY <2>1, <2>2, <2>4, <2>7 DEF KeptInv, InHand, SameBatch
  <2> QED BY <2>1, <2>5, <2>8 DEF KeptInv
<1>8. ASSUME Attach
      PROVE  KeptInv'
  <2>1. /\ UNCHANGED <<log, progress, nodes, saved>> /\ job # NoJob /\ job.todo = {}
        /\ job'.todo = job.todo /\ job'.session = job.session
        /\ job'.tail = job.tail /\ job'.pc = "save"
    BY <1>8 DEF Attach, TypeOK, Job
  <2>2. AllRemembered(nodes)' /\ AllRemembered(saved.nodes)'
    BY <1>2, <2>1, GrowingKeeps DEF KeptInv
  <2>3. InHand'
    BY <2>1, GrowingKeeps DEF KeptInv, InHand
  <2> QED BY <2>1, <2>2, <2>3 DEF KeptInv
<1>9. ASSUME SaveGraph
      PROVE  KeptInv'
  <2>1. /\ UNCHANGED <<log, progress, nodes>> /\ saved'.nodes = nodes /\ job # NoJob
        /\ job.pc = "save" /\ job'.todo = job.todo /\ job'.session = job.session
        /\ job'.tail = job.tail /\ job'.pc = "progress"
    BY <1>9 DEF SaveGraph, TypeOK, Job
  <2>2. AllRemembered(nodes)' /\ AllRemembered(saved.nodes)'
    BY <1>2, <2>1, GrowingKeeps DEF KeptInv
  <2>3. InHand'
    BY <2>1, GrowingKeeps DEF KeptInv, InHand
  <2> QED BY <2>1, <2>2, <2>3 DEF KeptInv
<1>10. ASSUME SetProgress
       PROVE  KeptInv'
  <2>1. /\ UNCHANGED <<log, nodes, saved>> /\ job # NoJob /\ job' = NoJob
        /\ job.pc = "progress"
        /\ progress' = [progress EXCEPT ![job.session] = job.tail]
    BY <1>10 DEF SetProgress
  <2>2. /\ \A t \in Sessions : progress'[t] = IF t = job.session THEN job.tail ELSE progress[t]
        /\ \A t, i : FoundIn(t, i)' = FoundIn(t, i)
    BY <2>1 DEF TypeOK, FoundIn, StandIns
  <2>3. /\ job.todo = {} /\ saved.nodes = nodes /\ job.tail <= Len(log[job.session])
        /\ \A i \in progress[job.session] + 1 .. job.tail : \A cands \in FoundIn(job.session, i) :
             RemembersOne(nodes, cands, job.session)
    BY <2>1 DEF KeptInv, InHand, WaitsOne
  <2>4. \A i \in 1 .. job.tail : \/ i \in 1 .. progress[job.session]
                                 \/ i \in progress[job.session] + 1 .. job.tail
    BY <1>1, <1>3, <2>1
  <2>5. ASSUME NEW t \in Sessions, NEW i \in 1 .. progress'[t], NEW cands \in FoundIn(t, i)
        PROVE  RemembersOne(nodes, cands, t)
    BY <2>2, <2>3, <2>4, <2>5 DEF KeptInv, AllRemembered
  <2>6. AllRemembered(nodes)' /\ AllRemembered(saved.nodes)'
    BY <2>1, <2>2, <2>3, <2>5 DEF AllRemembered
  <2>7. \A t \in Sessions : progress'[t] <= Len(log'[t])
    BY <2>1, <2>2, <2>3 DEF KeptInv
  <2> QED BY <2>1, <2>6, <2>7 DEF KeptInv, InHand
<1>11. ASSUME Abort \/ EndSession \/ Crash
       PROVE  KeptInv'
  <2>1. /\ UNCHANGED <<log, progress>> /\ job' = NoJob
        /\ nodes' \in {nodes, saved.nodes} /\ saved'.nodes \in {nodes, saved.nodes}
    BY <1>11 DEF Abort, EndSession, Crash
  <2>2. AllRemembered(nodes)' /\ AllRemembered(saved.nodes)'
    BY <1>2, <2>1, GrowingKeeps DEF KeptInv
  <2> QED BY <2>1, <2>2 DEF KeptInv, InHand
<1>12. ASSUME UNCHANGED vars
       PROVE  KeptInv'
  <2>1. UNCHANGED <<log, progress, nodes, saved, job>>
    BY <1>12 DEF vars
  <2>2. AllRemembered(nodes)' /\ AllRemembered(saved.nodes)'
    BY <1>2, <2>1, GrowingKeeps DEF KeptInv
  <2>3. InHand'
    BY <2>1, GrowingKeeps DEF KeptInv, InHand
  <2> QED BY <2>1, <2>2, <2>3 DEF KeptInv
<1> QED BY <1>4, <1>5, <1>6, <1>7, <1>8, <1>9, <1>10, <1>11, <1>12
        DEF Next, Consolidate, Commit, Finish

(* So it holds throughout.                                                 *)
LEMMA KeptHolds == Spec => []KeptInv
<1>1. Init => KeptInv
  <2>1. Init => \A s \in Sessions : progress[s] = 0 /\ Len(log[s]) = 0
    BY DEF Init
  <2>2. Init => AllRemembered(nodes) /\ AllRemembered(saved.nodes)
    BY <2>1 DEF AllRemembered
  <2> QED BY <2>1, <2>2 DEF Init, KeptInv, InHand
<1>2. TypeOK /\ KeptInv /\ [Next]_vars => KeptInv'
  BY KeptStep
<1> QED BY <1>1, <1>2, TypeCorrect, PTL DEF Spec

(* No processed message is lost: whatever fails or crashes in between,     *)
(* every candidate of every message that the progress index has passed, or *)
(* an earlier match of the session that begins alike, has a node on disk   *)
(* that says it and knows its session.                                     *)
THEOREM ProcessedMessagesAreRemembered == Spec => []ProcessedIsRemembered
<1>1. KeptInv => ProcessedIsRemembered
  BY DEF KeptInv, AllRemembered, FoundIn, RemembersOne, ProcessedIsRemembered
<1> QED BY <1>1, KeptHolds, PTL

(* Do the first hundred characters tell statements apart?                  *)
PrefixesTellApart ==
  \A c, d \in Candidates :
    ~c.entity /\ ~d.entity /\ c.prefix = d.prefix => c.statement = d.statement
EachIsRemembered ==
  \A s \in Sessions : \A i \in 1 .. progress[s] : \A k \in DOMAIN Extract[log[s][i]] :
    Remembers(saved.nodes, Extract[log[s][i]][k], s)

(* If they do, the cut (extraction.py:34) drops only restatements: every   *)
(* candidate of every processed message then has a node on disk that says  *)
(* it and knows its session, and nothing has to stand in for it.           *)
THEOREM DistinctMessagesAreRemembered == Spec => [](PrefixesTellApart => EachIsRemembered)
<1>1. ASSUME TypeOK, KeptInv, ProcessedIsRemembered, PrefixesTellApart,
             NEW s \in Sessions, NEW i \in 1 .. progress[s], NEW k \in DOMAIN Extract[log[s][i]]
      PROVE  Remembers(saved.nodes, Extract[log[s][i]][k], s)
  <2> DEFINE c == Extract[log[s][i]][k]
  <2>1. PICK d \in StandIns(s, i, k) : Remembers(saved.nodes, d, s)
    BY <1>1 DEF ProcessedIsRemembered
  <2>2. c \in Candidates
    <3>1. log[s] \in Seq(Messages) /\ progress[s] \in Nat /\ progress[s] <= Len(log[s])
      BY <1>1 DEF TypeOK, KeptInv
    <3>2. log[s][i] \in Messages
      BY <3>1
    <3>3. Extract[log[s][i]] \in Seq(Candidates)
      BY <3>2, CandidateShape
    <3> QED BY <3>3
  <2>3. d = c \/ (d \in Candidates /\ ~c.entity /\ ~d.entity /\ d.prefix = c.prefix)
    BY <2>1 DEF StandIns
  <2> HIDE DEF c
  <2>4. d.statement = c.statement
    BY <1>1, <2>2, <2>3 DEF PrefixesTellApart
  <2>5. Remembers(saved.nodes, c, s)
    BY <2>1, <2>4 DEF Remembers
  <2> QED BY <2>5 DEF c
<1>2. TypeOK /\ KeptInv /\ ProcessedIsRemembered => (PrefixesTellApart => EachIsRemembered)
  BY <1>1 DEF EachIsRemembered
<1> QED BY <1>2, KeptHolds, TypeCorrect, ProcessedMessagesAreRemembered, PTL

=============================================================================
