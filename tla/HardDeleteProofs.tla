-------------------------- MODULE HardDeleteProofs --------------------------
(***************************************************************************)
(* Theorems about hard deletion and snapshots on top of Consolidation: a   *)
(* deleted node stays away and a completed deletion leaves its content in  *)
(* no graph and no snapshot, whatever is consolidated, restored, crashes   *)
(* or fails in between, for every value of the constants.                  *)
(***************************************************************************)
EXTENDS HardDelete, ConsolidationSourceProofs

USE DEF Memory

(* What a log keeps is a log.  The k-th kept position exists because the   *)
(* number of kept positions up to i grows by one at most from i-1 to i.    *)
LEMMA KeptIsLog ==
  ASSUME NEW S, NEW messages \in Seq(S), NEW gone
  PROVE  Kept(messages, gone) \in Seq(S)
<1> DEFINE keptAt == DOMAIN messages \ gone
           upTo(i) == {j \in keptAt : j <= i}
<1>1. keptAt \in SUBSET (1 .. Len(messages)) /\ Len(messages) \in Nat
  OBVIOUS
<1>2. IsFiniteSet(1 .. Len(messages))
  BY <1>1, FS_Interval
<1>3. IsFiniteSet(keptAt) /\ Cardinality(keptAt) \in Nat
  BY <1>1, <1>2, FS_Subset, FS_CardinalityType
<1>4. \A i : IsFiniteSet(upTo(i)) /\ Cardinality(upTo(i)) \in Nat
  <2>1. \A i : upTo(i) \in SUBSET keptAt
    OBVIOUS
  <2> HIDE DEF upTo, keptAt
  <2> QED BY <1>3, <2>1, FS_Subset, FS_CardinalityType
<1>5. ASSUME NEW k \in 1 .. Cardinality(keptAt)
      PROVE  \E i \in keptAt : Cardinality(upTo(i)) = k
  <2> DEFINE enough == {i \in 0 .. Len(messages) : Cardinality(upTo(i)) >= k}
  <2>1. upTo(Len(messages)) = keptAt /\ upTo(0) = {}
    <3> HIDE DEF keptAt
    <3>1. \A j \in keptAt : j <= Len(messages) /\ ~(j <= 0)
      BY <1>1
    <3> QED BY <3>1
  <2>2. Cardinality(upTo(0)) = 0
    <3> HIDE DEF upTo
    <3> QED BY <2>1, FS_EmptySet
  <2>3. Len(messages) \in enough
    <3> HIDE DEF upTo, keptAt
    <3> QED BY <1>1, <1>3, <2>1
  <2>4. enough \in SUBSET Nat /\ enough # {}
    <3>1. enough # {}
      BY <2>3, Zenon
    <3> HIDE DEF upTo, keptAt
    <3>2. enough \subseteq 0 .. Len(messages)
      OBVIOUS
    <3> QED BY <3>1, <3>2
  <2>5. PICK i \in enough : \A j \in enough : i <= j
    <3> HIDE DEF enough
    <3> QED BY <2>4, Least
  <2>6. i \in 1 .. Len(messages) /\ Cardinality(upTo(i)) >= k
    <3> HIDE DEF upTo, keptAt
    <3> QED BY <1>1, <1>3, <2>2, <2>5
  <2>7. i - 1 \notin enough /\ i - 1 \in 0 .. Len(messages)
    BY <1>1, <2>5, <2>6
  <2>8. Cardinality(upTo(i - 1)) < k
    <3> HIDE DEF upTo, keptAt
    <3> QED BY <1>3, <1>4, <2>7
  <2>9. i \in keptAt
    <3>1. ASSUME i \notin keptAt
          PROVE  FALSE
      <4>1. upTo(i) = upTo(i - 1)
        BY <1>1, <2>6, <3>1
      <4> HIDE DEF upTo, keptAt
      <4> QED BY <1>3, <1>4, <2>6, <2>8, <4>1
    <3> QED BY <3>1
  <2>10. upTo(i) = upTo(i - 1) \cup {i} /\ i \notin upTo(i - 1)
    BY <1>1, <2>6, <2>9
  <2> HIDE DEF upTo, keptAt, enough
  <2>11. Cardinality(upTo(i)) = Cardinality(upTo(i - 1)) + 1
    BY <1>4, <2>10, FS_AddElement
  <2> QED BY <1>3, <1>4, <2>6, <2>8, <2>9, <2>11
<1> DEFINE nth(k) == CHOOSE i \in keptAt : Cardinality(upTo(i)) = k
<1>6. \A k \in 1 .. Cardinality(keptAt) : nth(k) \in keptAt
  <2> HIDE DEF keptAt, upTo
  <2> QED BY <1>5
<1>7. \A k \in 1 .. Cardinality(keptAt) : messages[nth(k)] \in S
  <2> HIDE DEF nth
  <2> QED BY <1>1, <1>6
<1>8. Kept(messages, gone) = [k \in 1 .. Cardinality(keptAt) |-> messages[nth(k)]]
  BY DEF Kept
<1> HIDE DEF keptAt, nth, upTo
<1> QED BY <1>3, <1>7, <1>8

-----------------------------------------------------------------------------
(* What consolidating does to ids: a new node has a fresh one, and the file*)
(* holds what it held or what memory holds.                                *)
LEMMA IdsAreFresh ==
  ASSUME TypeOK, [Next]_vars
  PROVE  /\ issued \subseteq issued'
         /\ DOMAIN nodes' \subseteq DOMAIN nodes \cup DOMAIN saved.nodes \cup (NodeIds \ issued)
         /\ saved'.nodes \in {nodes, saved.nodes}
<1>1. CASE \E s \in Sessions : Begin(s)
  BY <1>1, BeginNodes DEF Begin
<1>2. CASE ResolveEntity
  BY <1>2, ResolveEffect DEF ResolveEntity
<1>3. CASE AddEntity
  BY <1>3, AddEntityEffect DEF AddEntity
<1>4. CASE CommitStatement
  BY <1>4, CommitEffect DEF CommitStatement
<1>5. CASE /\ nodes' \in {nodes, saved.nodes} /\ saved'.nodes \in {nodes, saved.nodes}
           /\ issued' = issued
  BY <1>5
<1> QED BY <1>1, <1>2, <1>3, <1>4, <1>5
        DEF Next, Consolidate, Commit, Finish, LogMessage, NothingFound, Attach, SaveGraph,
            SetProgress, Abort, EndSession, Crash, Memory, vars

(* A step is one of consolidation's own or one of the actions here.  While *)
(* a deletion goes on, consolidation's own leave both graphs alone.        *)
Consolidates ==
  /\ [Next]_vars
  /\ UNCHANGED <<snapshot, tombstones, deleted, erased>>
  /\ deletion' \in {deletion, NoDeletion}
  /\ deletion' # NoDeletion => UNCHANGED <<nodes, edges, saved>> /\ job' \in {job, NoJob}

(* So every step is of one of these kinds.                                 *)
LEMMA DeletionStepKinds ==
  ASSUME [DeletionNext]_allVars
  PROVE  \/ Consolidates \/ DeletionFails
         \/ \E id \in NodeIds : DeleteNode(id)
         \/ \E s \in Sessions : ReadLog(s)
         \/ RewriteLog \/ Scrub \/ Record \/ SaveDeletion
         \/ CreateSnapshot \/ RestoreSnapshot
         \/ \E s \in Sessions : ClampProgress(s)
<1>1. CASE Hook
  BY <1>1 DEF Hook, LogMessage, Consolidates, Next, deletionVars
<1>2. CASE Consolidating
  <2>1. Next
    BY <1>2 DEF Consolidating, Next
  <2> QED BY <1>2, <2>1 DEF Consolidating, Consolidates, deletionVars
<1>3. CASE Ending
  <2>1. Next
    BY <1>3 DEF Ending, Next
  <2> QED BY <1>3, <2>1 DEF Ending, Consolidates, deletionVars
<1>4. CASE Abort /\ UNCHANGED deletionVars
  <2>1. Next
    BY <1>4 DEF Next
  <2> QED BY <1>4, <2>1 DEF Abort, Consolidates, deletionVars
<1>5. CASE Crash /\ deletion' = NoDeletion /\ UNCHANGED <<snapshot, tombstones, deleted, erased>>
  <2>1. Next
    BY <1>5 DEF Next
  <2> QED BY <1>5, <2>1 DEF Consolidates
<1>6. CASE UNCHANGED allVars
  BY <1>6 DEF allVars, consolidationVars, deletionVars, vars, Consolidates
<1> QED BY <1>1, <1>2, <1>3, <1>4, <1>5, <1>6
        DEF DeletionNext, Clamping, Deleting, DeletionStep, Snapshots, Failing

(* The shape is not inductive as it stands: the id that a deletion is about*)
(* to record has to be an issued one, and a snapshot a whole graph record. *)
DeletionShape ==
  /\ DeletionTypeOK
  /\ \A g \in snapshot : DOMAIN g = {"nodes", "edges"}
  /\ deletion # NoDeletion => deletion.node \in issued

(* A graph stays well-formed as ids are issued.                            *)
LEMMA GraphStaysOK ==
  ASSUME NEW g, GraphOK(g), issued \subseteq issued'
  PROVE  GraphOK(g)'
BY DEF GraphOK

(* A graph without some of its nodes and all their edges is well-formed.   *)
LEMMA PrunedIsOK ==
  ASSUME NEW g, GraphOK(g), NEW ids
  PROVE  GraphOK([nodes |-> Without(g.nodes, ids), edges |-> Unlinked(g.edges, ids)])
<1> DEFINE rest == Without(g.nodes, ids)
<1>1. DOMAIN rest = DOMAIN g.nodes \ ids /\ rest \in [DOMAIN rest -> Node]
  BY DEF GraphOK, Without
<1>2. \A e \in Unlinked(g.edges, ids) : e \in Edge /\ e[1] \in DOMAIN rest /\ e[2] \in DOMAIN rest
  BY <1>1 DEF GraphOK, Unlinked
<1> HIDE DEF rest
<1>3. DOMAIN rest \subseteq issued
  BY <1>1 DEF GraphOK
<1> QED BY <1>1, <1>2, <1>3 DEF GraphOK, rest

(* Every step keeps every variable's shape.                                *)
LEMMA ShapeStep ==
  ASSUME DeletionShape, [DeletionNext]_allVars
  PROVE  DeletionShape'
<1> USE DEF DeletionTypeOK
<1>a. TypeOK /\ (deletion # NoDeletion => deletion \in Deletion)
  BY DEF DeletionShape
<1>b. GraphOK(Memory) /\ GraphOK(saved) /\ DOMAIN saved = {"nodes", "edges"}
  BY <1>a DEF TypeOK
(* What is left to show of a step that issues no id.                       *)
<1>c. ASSUME TypeOK', deletion' # NoDeletion => deletion' \in Deletion /\ job' = NoJob,
             deletion' # NoDeletion => deletion'.node \in issued, issued \subseteq issued',
             \A g \in snapshot' : GraphOK(g) /\ DOMAIN g = {"nodes", "edges"},
             tombstones' \cup deleted' \subseteq issued, erased' \subseteq Candidates
      PROVE  DeletionShape'
  BY <1>c, GraphStaysOK DEF DeletionShape
<1>1. CASE Consolidates
  <2>1. TypeOK' /\ issued \subseteq issued'
    BY <1>a, <1>1, TypeStep, IdsAreFresh DEF Consolidates
  <2>2. deletion' # NoDeletion => deletion' = deletion /\ job' = NoJob
    BY <1>1 DEF Consolidates, DeletionShape
  <2> QED BY <1>1, <1>c, <2>1, <2>2 DEF Consolidates, DeletionShape
<1>2. ASSUME NEW id \in NodeIds, DeleteNode(id)
      PROVE  DeletionShape'
  <2>1. /\ id \in DOMAIN nodes /\ id \in issued /\ nodes[id] \in Node /\ job = NoJob
        /\ nodes' = Without(nodes, {id}) /\ edges' = Unlinked(edges, {id})
        /\ erased' = erased \cup nodes[id].forms \cup {nodes[id].cand}
        /\ UNCHANGED <<log, progress, saved, job, issued, snapshot, tombstones, deleted>>
    BY <1>2, <1>b DEF DeleteNode, Idle, GraphOK
  <2>2. PICK s \in Sessions :
          deletion' = [pc |-> "logs", node |-> id, content |-> nodes[id].cand.content,
                       refs |-> nodes[id].refs, session |-> s, kept |-> <<>>]
    BY <1>2 DEF DeleteNode
  <2>3. /\ nodes[id].cand \in Candidates /\ nodes[id].forms \subseteq Candidates
        /\ nodes[id].refs \in SUBSET (Sessions \X Nat)
    BY <2>1 DEF Node
  <2>4. deletion' \in Deletion /\ deletion'.node = id
    BY <2>2, <2>3 DEF Deletion, DeletionSteps
  <2>5. GraphOK([nodes |-> nodes', edges |-> edges'])
    BY <1>b, <2>1, PrunedIsOK
  <2>6. TypeOK'
    BY <1>a, <1>b, <2>1, <2>5 DEF TypeOK, GraphOK
  <2> QED BY <1>c, <2>1, <2>3, <2>4, <2>6 DEF DeletionShape
<1>3. ASSUME NEW s \in Sessions, ReadLog(s)
      PROVE  DeletionShape'
  <2>1. deletion \in Deletion /\ log[s] \in Seq(Messages) /\ UNCHANGED consolidationVars
        /\ UNCHANGED <<snapshot, tombstones, deleted, erased>> /\ deletion # NoDeletion
    BY <1>3, <1>a DEF ReadLog, TypeOK
  <2> DEFINE gone == {r[2] : r \in {r \in deletion.refs : r[1] = s}}
             rest == {r \in deletion.refs : r[1] # s}
  <2>2. deletion' = IF gone \cap DOMAIN log[s] = {} THEN [deletion EXCEPT !.refs = rest]
                    ELSE [deletion EXCEPT !.pc = "rewrite", !.session = s, !.refs = rest,
                                          !.kept = Kept(log[s], gone)]
    BY <1>3 DEF ReadLog
  <2>3. Kept(log[s], gone) \in Seq(Messages)
    BY <2>1, KeptIsLog
  <2>4. rest \in SUBSET (Sessions \X Nat)
    BY <2>1 DEF Deletion
  <2> HIDE DEF gone, rest
  <2>5. deletion' \in Deletion /\ deletion'.node = deletion.node
    BY <2>1, <2>2, <2>3, <2>4 DEF Deletion, DeletionSteps
  <2>6. TypeOK'
    BY <1>a, <2>1 DEF TypeOK, GraphOK, consolidationVars
  <2> QED BY <1>c, <2>1, <2>5, <2>6 DEF DeletionShape, consolidationVars
<1>4. CASE RewriteLog
  <2>1. deletion \in Deletion /\ deletion # NoDeletion
        /\ UNCHANGED <<progress, nodes, edges, saved, job, issued, snapshot, tombstones, deleted, erased>>
    BY <1>4, <1>a DEF RewriteLog
  <2>2. deletion' \in Deletion /\ deletion'.node = deletion.node
    BY <1>4, <2>1 DEF RewriteLog, Deletion, DeletionSteps
  <2>3. log' \in [Sessions -> Seq(Messages)]
    BY <1>4, <1>a, <2>1 DEF RewriteLog, Deletion, TypeOK
  <2>4. TypeOK'
    BY <1>a, <2>1, <2>3 DEF TypeOK, GraphOK
  <2> QED BY <1>c, <2>1, <2>2, <2>4 DEF DeletionShape
<1>5. CASE Scrub
  <2>1. deletion \in Deletion /\ deletion # NoDeletion /\ UNCHANGED consolidationVars
        /\ UNCHANGED <<tombstones, deleted, erased>>
    BY <1>5, <1>a DEF Scrub
  <2>2. deletion' \in Deletion /\ deletion'.node = deletion.node
    BY <1>5, <2>1 DEF Scrub, Deletion, DeletionSteps
  <2>3. \A g \in snapshot : GraphOK(Scrubbed(g)) /\ DOMAIN Scrubbed(g) = {"nodes", "edges"}
    BY PrunedIsOK DEF Scrubbed, DeletionShape
  <2>4. \A g \in snapshot' : GraphOK(g) /\ DOMAIN g = {"nodes", "edges"}
    <3>1. CASE ScrubSnapshots
      BY <1>5, <2>3, <3>1 DEF Scrub
    <3>2. CASE ~ScrubSnapshots
      BY <1>5, <3>2 DEF Scrub, DeletionShape
    <3> QED BY <3>1, <3>2
  <2>5. TypeOK'
    BY <1>a, <2>1 DEF TypeOK, GraphOK, consolidationVars
  <2> QED BY <1>c, <2>1, <2>2, <2>4, <2>5 DEF DeletionShape, consolidationVars
<1>6. CASE Record
  <2>1. deletion \in Deletion /\ deletion # NoDeletion /\ UNCHANGED consolidationVars
        /\ UNCHANGED <<snapshot, deleted, erased>> /\ tombstones' = tombstones \cup {deletion.node}
    BY <1>6, <1>a DEF Record
  <2>2. deletion' \in Deletion /\ deletion'.node = deletion.node
    BY <1>6, <2>1 DEF Record, Deletion, DeletionSteps
  <2>3. TypeOK'
    BY <1>a, <2>1 DEF TypeOK, GraphOK, consolidationVars
  <2> QED BY <1>c, <2>1, <2>2, <2>3 DEF DeletionShape, consolidationVars
<1>7. CASE SaveDeletion
  <2>1. TypeOK'
    BY <1>7, <1>a, <1>b DEF SaveDeletion, SavesMemory, TypeOK, GraphOK
  <2> QED BY <1>7, <1>c, <2>1 DEF SaveDeletion, DeletionShape
<1>8. CASE DeletionFails \/ CreateSnapshot
  <2>1. TypeOK'
    BY <1>8, <1>a DEF DeletionFails, CreateSnapshot, TypeOK, GraphOK, consolidationVars
  <2> QED BY <1>8, <1>b, <1>c, <2>1
          DEF DeletionFails, CreateSnapshot, Idle, DeletionShape, consolidationVars
<1>9. CASE RestoreSnapshot
  <2>1. PICK g \in snapshot : nodes' = g.nodes /\ edges' = g.edges /\ saved' = g
    BY <1>9 DEF RestoreSnapshot
  <2>2. UNCHANGED <<log, progress, job, issued>> /\ UNCHANGED deletionVars /\ job = NoJob
    BY <1>9 DEF RestoreSnapshot, Idle
  <2>3. TypeOK'
    BY <1>a, <2>1, <2>2 DEF DeletionShape, TypeOK, GraphOK
  <2> QED BY <1>c, <2>2, <2>3 DEF DeletionShape, deletionVars
<1>10. ASSUME NEW s \in Sessions, ClampProgress(s)
       PROVE  DeletionShape'
  <2>1. TypeOK'
    BY <1>10, <1>a DEF ClampProgress, Idle, TypeOK, GraphOK
  <2> QED BY <1>10, <1>c, <2>1 DEF ClampProgress, DeletionShape, deletionVars
<1> QED BY <1>1, <1>2, <1>3, <1>4, <1>5, <1>6, <1>7, <1>8, <1>9, <1>10, DeletionStepKinds

(* So the shape holds throughout.                                          *)
LEMMA ShapeHolds == DeletionSpec => []DeletionShape
<1>1. InitDeletion => DeletionShape
  BY DEF InitDeletion, DeletionShape, DeletionTypeOK, Init, TypeOK, GraphOK, EmptyGraph, Edge
<1>2. DeletionShape /\ [DeletionNext]_allVars => DeletionShape'
  BY ShapeStep
<1> QED BY <1>1, <1>2, PTL DEF DeletionSpec

(* Every reachable state is well-formed, snapshots, the deletion under way *)
(* and the ids that it records included, and no consolidation is under way *)
(* during a deletion.                                                      *)
THEOREM DeletionsKeepTheirShape == DeletionSpec => []DeletionTypeOK
<1>1. DeletionShape => DeletionTypeOK
  BY DEF DeletionShape
<1> QED BY <1>1, ShapeHolds, PTL

-----------------------------------------------------------------------------
(* Staying away.  A deletion in progress has taken its node out of the     *)
(* graph already, and from the recording on out of the snapshots too; only *)
(* the file may still hold it, and a crash that brings it back ends the    *)
(* deletion, which then has not returned.                                  *)
Scrubs == deletion # NoDeletion /\ deletion.pc \in {"record", "save"}
AwayInv ==
  /\ deletion # NoDeletion => deletion.node \notin DOMAIN nodes
  /\ deleted \cap DOMAIN nodes = {} /\ deleted \cap DOMAIN saved.nodes = {}
  /\ \A g \in snapshot : /\ deleted \cap DOMAIN g.nodes = {}
                         /\ Scrubs => deletion.node \notin DOMAIN g.nodes

(* Every step keeps deleted nodes away, provided snapshots are scrubbed.   *)
LEMMA AwayStep ==
  ASSUME ScrubSnapshots, DeletionShape, AwayInv, [DeletionNext]_allVars
  PROVE  AwayInv'
<1>a. /\ TypeOK /\ deleted \subseteq issued
      /\ deletion # NoDeletion => deletion \in Deletion
  BY DEF DeletionShape, DeletionTypeOK
<1>1. CASE Consolidates
  <2>1. /\ DOMAIN nodes' \subseteq DOMAIN nodes \cup DOMAIN saved.nodes \cup (NodeIds \ issued)
        /\ saved'.nodes \in {nodes, saved.nodes}
    BY <1>1, <1>a, IdsAreFresh DEF Consolidates
  <2>2. deleted' = deleted /\ snapshot' = snapshot
    BY <1>1 DEF Consolidates
  <2>3. deleted' \cap DOMAIN nodes' = {} /\ deleted' \cap DOMAIN saved'.nodes = {}
    BY <1>a, <2>1, <2>2 DEF AwayInv
  <2>4. deletion' # NoDeletion => deletion' = deletion /\ nodes' = nodes
    BY <1>1 DEF Consolidates
  <2> QED BY <2>2, <2>3, <2>4 DEF AwayInv, Scrubs
<1>2. ASSUME NEW id \in NodeIds, DeleteNode(id)
      PROVE  AwayInv'
  <2>1. DOMAIN nodes' = DOMAIN nodes \ {id} /\ UNCHANGED <<saved, snapshot, deleted>>
    BY <1>2 DEF DeleteNode, Without
  <2>2. deletion'.node = id /\ deletion'.pc = "logs"
    BY <1>2 DEF DeleteNode
  <2> QED BY <2>1, <2>2 DEF AwayInv, Scrubs
<1>3. ASSUME NEW s \in Sessions, ReadLog(s)
      PROVE  AwayInv'
  <2>1. /\ deletion # NoDeletion /\ deletion \in Deletion /\ deletion.pc = "logs"
        /\ UNCHANGED <<nodes, saved, snapshot, deleted>>
    BY <1>3, <1>a DEF ReadLog, consolidationVars
  <2> DEFINE gone == {r[2] : r \in {r \in deletion.refs : r[1] = s}}
             rest == {r \in deletion.refs : r[1] # s}
             kept == Kept(log[s], gone)
  <2>2. deletion' = IF gone \cap DOMAIN log[s] = {} THEN [deletion EXCEPT !.refs = rest]
                    ELSE [deletion EXCEPT !.pc = "rewrite", !.session = s, !.refs = rest,
                                          !.kept = kept]
    BY <1>3 DEF ReadLog
  <2> HIDE DEF gone, rest, kept
  <2>3. deletion'.node = deletion.node /\ deletion'.pc \in {"logs", "rewrite"}
    BY <2>1, <2>2 DEF Deletion
  <2> QED BY <2>1, <2>3 DEF AwayInv, Scrubs
<1>4. CASE RewriteLog
  <2>1. /\ deletion # NoDeletion /\ deletion'.node = deletion.node /\ deletion'.pc = "logs"
        /\ UNCHANGED <<nodes, saved, snapshot, deleted>>
    BY <1>4, <1>a DEF RewriteLog, Deletion
  <2> QED BY <2>1 DEF AwayInv, Scrubs
<1>5. CASE Scrub
  <2>1. /\ deletion # NoDeletion /\ deletion'.node = deletion.node
        /\ snapshot' = {Scrubbed(g) : g \in snapshot} /\ UNCHANGED <<nodes, saved, deleted>>
    BY <1>5, <1>a DEF Scrub, Deletion, consolidationVars
  <2>2. \A g : DOMAIN Scrubbed(g).nodes \subseteq DOMAIN g.nodes \ {deletion.node}
    BY DEF Scrubbed, Without
  <2> QED BY <2>1, <2>2 DEF AwayInv
<1>6. CASE Record
  <2>1. /\ deletion # NoDeletion /\ deletion.pc = "record" /\ deletion'.node = deletion.node
        /\ UNCHANGED <<nodes, saved, snapshot, deleted>>
    BY <1>6, <1>a DEF Record, Deletion, consolidationVars
  <2> QED BY <2>1 DEF AwayInv, Scrubs
<1>7. CASE SaveDeletion
  <2>1. /\ Scrubs /\ deletion' = NoDeletion /\ deleted' = deleted \cup {deletion.node}
        /\ nodes' = nodes /\ saved'.nodes = nodes /\ snapshot' = snapshot
    BY <1>7 DEF SaveDeletion, SavesMemory, Scrubs
  <2> QED BY <2>1 DEF AwayInv, Scrubs
<1>8. CASE DeletionFails
  BY <1>8 DEF DeletionFails, consolidationVars, AwayInv, Scrubs
<1>9. CASE CreateSnapshot
  BY <1>9 DEF CreateSnapshot, Idle, consolidationVars, AwayInv, Scrubs
<1>10. CASE RestoreSnapshot
  BY <1>10 DEF RestoreSnapshot, Idle, deletionVars, AwayInv, Scrubs
<1>11. ASSUME NEW s \in Sessions, ClampProgress(s)
       PROVE  AwayInv'
  BY <1>11 DEF ClampProgress, deletionVars, AwayInv, Scrubs
<1> QED BY <1>1, <1>2, <1>3, <1>4, <1>5, <1>6, <1>7, <1>8, <1>9, <1>10, <1>11, DeletionStepKinds

(* A node whose deletion has returned is in no graph and no snapshot any   *)
(* more, whatever crashes, is restored, saved or consolidated afterwards.  *)
THEOREM DeletedNodesStayAway == DeletionSpec => []DeletedStaysDeleted
<1>1. InitDeletion => AwayInv
  BY DEF InitDeletion, AwayInv, Init, EmptyGraph, Scrubs
<1>2. ScrubSnapshots /\ DeletionShape /\ AwayInv /\ [DeletionNext]_allVars => AwayInv'
  BY AwayStep
<1>3. AwayInv => DeletedStaysDeleted
  BY DEF AwayInv, DeletedStaysDeleted
<1>4. ~ScrubSnapshots => DeletedStaysDeleted
  BY DEF DeletedStaysDeleted
<1>5. CASE ScrubSnapshots
  BY <1>1, <1>2, <1>3, <1>5, ShapeHolds, PTL DEF DeletionSpec
<1>6. CASE ~ScrubSnapshots
  BY <1>4, <1>6, PTL
<1> QED BY <1>5, <1>6

-----------------------------------------------------------------------------
(* Erasure.  That no other node has the content of the one that goes needs *)
(* what consolidation keeps of contents, in snapshots too.                 *)
ErasureInv ==
  /\ NoContentTwice /\ TodoIsNew /\ \A g \in snapshot : ContentsDiffer(g.nodes)
  /\ deletion # NoDeletion =>
       \A n \in DOMAIN nodes : nodes[n].cand.content # deletion.content
  /\ Scrubs /\ ScrubSnapshots =>
       \A g \in snapshot : \A n \in DOMAIN g.nodes : g.nodes[n].cand.content # deletion.content

(* Fewer nodes have fewer contents.                                        *)
LEMMA FewerContents ==
  ASSUME NEW g, ContentsDiffer(g), NEW ids
  PROVE  ContentsDiffer(Without(g, ids))
BY DEF ContentsDiffer, Without

(* Every step keeps contents apart and what is being erased away.          *)
LEMMA ErasureStep ==
  ASSUME DeletionShape, ErasureInv, [DeletionNext]_allVars
  PROVE  ErasureInv'
<1>a. /\ TypeOK /\ (deletion = NoDeletion \/ job = NoJob)
      /\ deletion # NoDeletion => deletion \in Deletion
  BY DEF DeletionShape, DeletionTypeOK
<1>b. ASSUME UNCHANGED <<nodes, saved, job>>
      PROVE  NoContentTwice' /\ TodoIsNew'
  BY <1>b DEF ErasureInv, NoContentTwice, ContentsDiffer, TodoIsNew
<1>1. CASE Consolidates
  <2>1. NoContentTwice' /\ TodoIsNew'
    BY <1>1, <1>a, ContentStep DEF Consolidates, ErasureInv
  <2>2. /\ snapshot' = snapshot
        /\ deletion' # NoDeletion => deletion' = deletion /\ nodes' = nodes
    BY <1>1 DEF Consolidates
  <2> QED BY <2>1, <2>2 DEF ErasureInv, Scrubs
<1>2. ASSUME NEW id \in NodeIds, DeleteNode(id)
      PROVE  ErasureInv'
  <2>1. /\ id \in DOMAIN nodes /\ nodes' = Without(nodes, {id}) /\ job = NoJob
        /\ UNCHANGED <<saved, job, snapshot>>
    BY <1>2 DEF DeleteNode, Idle
  <2>2. deletion'.content = nodes[id].cand.content /\ deletion'.pc = "logs"
    BY <1>2 DEF DeleteNode
  <2>3. NoContentTwice' /\ TodoIsNew'
    BY <2>1, FewerContents DEF ErasureInv, NoContentTwice, TodoIsNew
  <2>4. \A n \in DOMAIN nodes' : nodes'[n].cand.content # nodes[id].cand.content
    BY <2>1 DEF ErasureInv, NoContentTwice, ContentsDiffer, Without
  <2> QED BY <2>1, <2>2, <2>3, <2>4 DEF ErasureInv, Scrubs
<1>3. ASSUME NEW s \in Sessions, ReadLog(s)
      PROVE  ErasureInv'
  <2>1. /\ deletion # NoDeletion /\ deletion \in Deletion /\ deletion.pc = "logs"
        /\ UNCHANGED <<nodes, saved, job, snapshot>>
    BY <1>3, <1>a DEF ReadLog, consolidationVars
  <2> DEFINE gone == {r[2] : r \in {r \in deletion.refs : r[1] = s}}
             rest == {r \in deletion.refs : r[1] # s}
             kept == Kept(log[s], gone)
  <2>2. deletion' = IF gone \cap DOMAIN log[s] = {} THEN [deletion EXCEPT !.refs = rest]
                    ELSE [deletion EXCEPT !.pc = "rewrite", !.session = s, !.refs = rest,
                                          !.kept = kept]
    BY <1>3 DEF ReadLog
  <2> HIDE DEF gone, rest, kept
  <2>3. deletion'.content = deletion.content /\ deletion'.pc \in {"logs", "rewrite"}
    BY <2>1, <2>2 DEF Deletion
  <2> QED BY <1>b, <2>1, <2>3 DEF ErasureInv, Scrubs
<1>4. CASE RewriteLog
  <2>1. /\ deletion # NoDeletion /\ deletion'.content = deletion.content /\ deletion'.pc = "logs"
        /\ UNCHANGED <<nodes, saved, job, snapshot>>
    BY <1>4, <1>a DEF RewriteLog, Deletion
  <2> QED BY <1>b, <2>1 DEF ErasureInv, Scrubs
<1>5. CASE Scrub
  <2>1. /\ deletion # NoDeletion /\ deletion'.content = deletion.content
        /\ snapshot' = IF ScrubSnapshots THEN {Scrubbed(g) : g \in snapshot} ELSE snapshot
        /\ UNCHANGED <<nodes, saved, job>>
    BY <1>5, <1>a DEF Scrub, Deletion, consolidationVars
  <2>2. \A g \in snapshot : ContentsDiffer(Scrubbed(g).nodes)
    BY FewerContents DEF Scrubbed, ErasureInv
  <2>3. \A g \in snapshot : \A n \in DOMAIN Scrubbed(g).nodes :
          Scrubbed(g).nodes[n].cand.content # deletion.content
    BY DEF Scrubbed, Without
  <2>4. \A g \in snapshot' : ContentsDiffer(g.nodes)
    BY <2>1, <2>2 DEF ErasureInv
  <2>5. ScrubSnapshots => \A g \in snapshot' : \A n \in DOMAIN g.nodes :
          g.nodes[n].cand.content # deletion.content
    BY <2>1, <2>3
  <2> QED BY <1>b, <2>1, <2>4, <2>5 DEF ErasureInv
<1>6. CASE Record
  <2>1. /\ deletion # NoDeletion /\ deletion.pc = "record" /\ deletion'.content = deletion.content
        /\ UNCHANGED <<nodes, saved, job, snapshot>>
    BY <1>6, <1>a DEF Record, Deletion, consolidationVars
  <2> QED BY <1>b, <2>1 DEF ErasureInv, Scrubs
<1>7. CASE SaveDeletion
  <2>1. /\ deletion' = NoDeletion /\ UNCHANGED <<nodes, job, snapshot>> /\ saved'.nodes = nodes
    BY <1>7 DEF SaveDeletion, SavesMemory
  <2>2. NoContentTwice' /\ TodoIsNew'
    BY <2>1 DEF ErasureInv, NoContentTwice, TodoIsNew
  <2> QED BY <2>1, <2>2 DEF ErasureInv, Scrubs
<1>8. CASE DeletionFails
  BY <1>8, <1>b DEF DeletionFails, consolidationVars, ErasureInv, Scrubs
<1>9. CASE CreateSnapshot
  <2>1. /\ deletion' = NoDeletion /\ UNCHANGED <<nodes, saved, job>> /\ snapshot' = {Memory}
    BY <1>9 DEF CreateSnapshot, Idle, consolidationVars
  <2>2. \A g \in snapshot' : ContentsDiffer(g.nodes)
    BY <2>1 DEF ErasureInv, NoContentTwice
  <2> QED BY <1>b, <2>1, <2>2 DEF ErasureInv, Scrubs
<1>10. CASE RestoreSnapshot
  <2>1. PICK g \in snapshot : nodes' = g.nodes /\ saved' = g
    BY <1>10 DEF RestoreSnapshot
  <2>2. deletion' = NoDeletion /\ snapshot' = snapshot /\ job' = NoJob
    BY <1>10 DEF RestoreSnapshot, Idle, deletionVars
  <2>3. NoContentTwice' /\ TodoIsNew'
    BY <2>1, <2>2 DEF ErasureInv, NoContentTwice, TodoIsNew
  <2> QED BY <2>2, <2>3 DEF ErasureInv, Scrubs
<1>11. ASSUME NEW s \in Sessions, ClampProgress(s)
       PROVE  ErasureInv'
  BY <1>11, <1>b DEF ClampProgress, deletionVars, ErasureInv, Scrubs
<1> QED BY <1>1, <1>2, <1>3, <1>4, <1>5, <1>6, <1>7, <1>8, <1>9, <1>10, <1>11, DeletionStepKinds

(* The invariant of erasure holds throughout.                              *)
LEMMA ErasureHolds == DeletionSpec => []ErasureInv
<1>1. InitDeletion => ErasureInv
  BY DEF InitDeletion, ErasureInv, Init, NoContentTwice, ContentsDiffer, EmptyGraph,
         TodoIsNew, Scrubs
<1>2. DeletionShape /\ ErasureInv /\ [DeletionNext]_allVars => ErasureInv'
  BY ErasureStep
<1> QED BY <1>1, <1>2, ShapeHolds, PTL DEF DeletionSpec

(* When hard_delete returns, and snapshots are scrubbed, neither memory nor*)
(* the file nor a snapshot holds the content of the deleted node, under    *)
(* whatever id a restore had brought it in.                                *)
THEOREM CompletedDeletionsErase ==
  ASSUME ScrubSnapshots
  PROVE  DeletionSpec => ErasureIsComplete
<1>1. ASSUME DeletionShape, ErasureInv, [DeletionNext]_allVars, deleted' # deleted
      PROVE  \A g \in {nodes', saved'.nodes} \cup {g.nodes : g \in snapshot'} :
               \A n \in DOMAIN g : g[n].cand.content # deletion.content
  <2>1. SaveDeletion
    BY <1>1, DeletionStepKinds
       DEF Consolidates, DeletionFails, DeleteNode, ReadLog, RewriteLog, Scrub, Record,
           CreateSnapshot, RestoreSnapshot, ClampProgress, deletionVars
  <2>2. Scrubs /\ nodes' = nodes /\ saved'.nodes = nodes /\ snapshot' = snapshot
    BY <2>1 DEF SaveDeletion, SavesMemory, Scrubs
  <2> QED BY <1>1, <2>2 DEF ErasureInv, Scrubs
<1>2. DeletionShape /\ ErasureInv /\ [DeletionNext]_allVars =>
        [deleted' # deleted =>
           \A g \in {nodes', saved'.nodes} \cup {g.nodes : g \in snapshot'} :
             \A n \in DOMAIN g : g[n].cand.content # deletion.content]_allVars
  BY <1>1
<1> QED BY <1>2, ShapeHolds, ErasureHolds, PTL DEF DeletionSpec, ErasureIsComplete

=============================================================================
