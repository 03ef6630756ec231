------------------------------ MODULE Retrieval ------------------------------
(***************************************************************************)
(* What one session answers (retrieval/engine.py): messages of both sides  *)
(* are logged, the user's are buffered too, all are consolidated into the  *)
(* graph with their validity windows, and queries are answered from both,  *)
(* by default or as of a moment.                                           *)
(*                                                                         *)
(* Time is a counter that every logged message and every consolidation     *)
(* moves (timestamps have microseconds).  The process is single-threaded:  *)
(* a batch is committed statement by statement (pipeline.py:287) before    *)
(* anything else happens.  A node is named by its candidate: no content    *)
(* has two nodes (ConsolidationProofs!ReprocessingIsIdempotent).  Left to  *)
(* Consolidation: entities, edges, near-duplicates of different text,      *)
(* several sessions, failures; so a query meets any links between nodes.   *)
(***************************************************************************)
EXTENDS Integers, FiniteSets, Sequences

CONSTANTS
  Messages,          \* what can be said
  Candidates,        \* records: content, prefix (type and content[:100]), statement
                     \*   (statement_key), key (or NoKey), family, correction, confidence,
                     \*   from, until (or NoDate)
  Extract,           \* [Messages -> Seq(Candidates)]: match_message
  Text,              \* [Messages -> contents]: the message itself
  ImplicitFamilies,  \* _IMPLICIT_FAMILIES
  Window,            \* correction_window_messages
  Queries,           \* records: hits (the contents that hold the query's text),
                     \*   relevance (BM25 score per content), similarity (cosine,
                     \*   per content), semantic
  Strengths,         \* strength.composite can be any of these
  K,                 \* the result count k
  MaxLog, MaxClock, MaxAccess,  \* bounds
  NoKey, NoDate, NoAnswer

(* Features are counted in hundredths, scores in ten-thousandths.          *)
ASSUME Hundredths ==
  /\ Strengths \subseteq 0 .. 100
  /\ \A c \in Candidates : c.confidence \in 0 .. 100
  /\ \A q \in Queries : \A x \in DOMAIN q.similarity : q.similarity[x] \in 0 .. 100
(* Every node's content is scored; BM25's idf (bm25.py:74) is never below 0.*)
ASSUME Scored ==
  \A q \in Queries : /\ \A x \in DOMAIN q.relevance : q.relevance[x] \in Nat
                     /\ \A c \in Candidates : c.content \in DOMAIN q.relevance \cap DOMAIN q.similarity
ASSUME Sentinel == NoDate \notin Nat
ASSUME Bounds == {Window, MaxLog, MaxClock, MaxAccess} \subseteq Nat
ASSUME Shape ==
  /\ Extract \in [Messages -> Seq(Candidates)]
  /\ \A c \in Candidates : {c.from, c.until} \subseteq Nat \cup {NoDate}
(* A statement is its content without a correction prefix, and its slot    *)
(* depends on nothing else (canonical.py:77, deduplication.py:71).  Only a *)
(* match of the first category starts with such a prefix, and no category  *)
(* between two that match one statement names its slot (patterns.py:59).   *)
ASSUME Matching ==
  /\ \A c, d \in Candidates :
       /\ c.content = d.content => c.statement = d.statement
       /\ c.statement = d.statement => c.key = d.key /\ c.family = d.family
  /\ \A m \in Messages : \A i, j, k \in DOMAIN Extract[m] :
       /\ Extract[m][i].correction => i = 1
       /\ /\ i < j /\ j < k /\ Extract[m][i].statement = Extract[m][k].statement
          /\ Extract[m][j].key = Extract[m][i].key /\ Extract[m][j].key # NoKey
          => Extract[m][j].statement = Extract[m][i].statement

VARIABLES
  clock,   \* the time now
  log,     \* the session's messages, each with its time and who said it
  buffer,  \* the entries of the session buffer, each with its time
  done,    \* messages consolidated
  todo,    \* what the running batch still has to commit
  memory,  \* the graph's nodes: candidate -> [status, from, to, latest, access]
  answer   \* what the last query asked and returned, until the state moves on

vars == <<clock, log, buffer, done, todo, memory, answer>>

Occurrence == [cand : Candidates, index : Nat, at : Nat]
Node == [status : {"active", "superseded"}, from : Nat, to : Nat \cup {NoDate},
         latest : Nat, access : Nat]

Init ==
  /\ clock = 1
  /\ log = <<>> /\ buffer = {}
  /\ done = 0 /\ todo = {}
  /\ memory = [c \in {} |-> {}]
  /\ answer = NoAnswer

Before(a, b) == a.index < b.index \/ (a.index = b.index /\ a.at < b.at)
Found(i, m) == {[cand |-> Extract[m][k], index |-> i, at |-> k] : k \in DOMAIN Extract[m]}
Said(i) == Found(i, log[i].message)
AllSaid == UNION {Said(i) : i \in DOMAIN log}

-----------------------------------------------------------------------------
(* Every message goes to the raw log.  Only what the user said is matched  *)
(* for the buffer (_BUFFERED_ROLES; a tool result counts as the user's).   *)
Roles == {"user", "assistant"}
Buffered(i, m, role) == IF role = "user" THEN Found(i, m) ELSE {}
LogMessage(m, role) ==
  /\ todo = {} /\ Len(log) < MaxLog /\ clock < MaxClock
  /\ log' = Append(log, [message |-> m, time |-> clock + 1, role |-> role])
  /\ buffer' = buffer \cup
       {[o |-> o, time |-> clock + 1] : o \in Buffered(Len(log) + 1, m, role)}
  /\ clock' = clock + 1 /\ answer' = NoAnswer
  /\ UNCHANGED <<done, todo, memory>>

(* Time passes between two calls.                                          *)
Pass ==
  /\ todo = {} /\ clock < MaxClock
  /\ clock' = clock + 1 /\ answer' = NoAnswer
  /\ UNCHANGED <<log, buffer, done, todo, memory>>

(* correction_supersedes.                                                  *)
CorrectionSupersedes(new, old, distance) ==
  /\ new.key # NoKey /\ old.key # NoKey
  /\ \/ new.key = old.key
     \/ /\ new.correction
        /\ new.family = old.family /\ new.family \in ImplicitFamilies
        /\ 0 < distance /\ distance <= Window

(* Of the matches of a batch that begin alike the first is kept, even if   *)
(* their contents differ further on; then the first of each statement.     *)
FirstOfPrefix(found) ==
  {a \in found : \A b \in found \ {a} : a.cand.prefix = b.cand.prefix => Before(a, b)}
FirstOccurrences(found) ==
  {a \in found : \A b \in found \ {a} : a.cand.statement = b.cand.statement => Before(a, b)}

Later(i, indexes) == CHOOSE j \in indexes \cup {i} : \A k \in indexes \cup {i} : k <= j

(* A batch starts, with what either side said.  What the graph holds       *)
(* already only gets a later reference; the rest is to be committed in     *)
(* order, all with this time.                                              *)
Begin ==
  /\ todo = {} /\ done < Len(log) /\ clock < MaxClock
  /\ LET found == UNION {Said(i) : i \in (done + 1) .. Len(log)}
         kept == FirstOccurrences(FirstOfPrefix(found))
         known == {a \in kept : \E c \in DOMAIN memory : c.content = a.cand.content}
     IN  /\ memory' = [c \in DOMAIN memory |->
               [memory[c] EXCEPT !.latest =
                  Later(@, {a.index : a \in {a \in known : a.cand.content = c.content}})]]
         /\ todo' = kept \ known
  /\ done' = IF todo' = {} THEN Len(log) ELSE done
  /\ clock' = clock + 1 /\ answer' = NoAnswer
  /\ UNCHANGED <<log, buffer>>

Contradicted(a) ==
  {c \in DOMAIN memory :
     /\ memory[c].status = "active" /\ c.statement # a.cand.statement
     /\ CorrectionSupersedes(a.cand, c, a.index - memory[c].latest)}

(* The window closes now, whatever it was.                                 *)
LeavesOpen(node) == [node EXCEPT !.status = "superseded"]  \* fault: valid_to is not set
ClosesAtStart(node) ==  \* fault: as if it had never been true
  [node EXCEPT !.status = "superseded", !.to = node.from]
Supersede(node) == [node EXCEPT !.status = "superseded", !.to = clock]

(* extract_from_messages keeps a date where the batch mentions it first:   *)
(* message i does without a date of an earlier message of its batch.       *)
Dates(m) == UNION {{Extract[m][k].from, Extract[m][k].until} : k \in DOMAIN Extract[m]}
DateFound(date, i) ==
  date # NoDate /\ \A j \in (done + 1) .. (i - 1) : date \notin Dates(log[j].message)

CopiesDates(a) ==  \* fault: no valid_from without a date
  [status |-> "active", from |-> a.cand.from, to |-> a.cand.until,
   latest |-> a.index, access |-> 1]
NewNode(a) ==
  [status |-> "active",
   from |-> IF DateFound(a.cand.from, a.index) THEN a.cand.from ELSE clock,
   to |-> IF DateFound(a.cand.until, a.index) THEN a.cand.until ELSE NoDate,
   latest |-> a.index, access |-> 1]

(* The next statement of the batch supersedes what it contradicts and      *)
(* becomes a node; after the last one the batch is done.                   *)
Commit ==
  \E a \in todo :
    /\ \A b \in todo \ {a} : Before(a, b)
    /\ memory' = [c \in DOMAIN memory \cup {a.cand} |->
                    IF c = a.cand THEN NewNode(a)
                    ELSE IF c \in Contradicted(a) THEN Supersede(memory[c]) ELSE memory[c]]
    /\ todo' = todo \ {a}
    /\ done' = IF todo' = {} THEN Len(log) ELSE done
    /\ UNCHANGED <<clock, log, buffer, answer>>

-----------------------------------------------------------------------------
(* The buffer, step 0 of a query.  The history filter sees only the hits.  *)
Hits(q, when) == {e \in buffer : e.o.cand.content \in q.hits /\ e.time <= when}
Hides(b, a) == Before(a, b) /\ CorrectionSupersedes(b.cand, a.cand, b.index - a.index)
NextHides(hits) ==  \* fault: only the next entry is looked at
  {e \in hits : ~\E f \in hits :
     Hides(f.o, e.o) /\ ~\E g \in hits : Before(e.o, g.o) /\ Before(g.o, f.o)}
CurrentHits(hits) == {e \in hits : ~\E f \in hits : Hides(f.o, e.o)}

(* The half-open window [valid_from, valid_to).                            *)
ClosedWindow(node, when) == node.from <= when /\ (node.to = NoDate \/ when <= node.to)  \* fault
ValidAt(node, when) == node.from <= when /\ (node.to = NoDate \/ when < node.to)

(* _eligible: as of a moment the window decides, else the status.          *)
Eligible(node, ask) ==
  IF ask.asOf THEN ValidAt(node, ask.when)
  ELSE ask.history \/ node.status = "active"

Best(f) == CHOOSE x \in {f[c] : c \in DOMAIN f} \cup {0} : \A c \in DOMAIN f : f[c] <= x
Relevance(q) == [c \in DOMAIN memory |-> q.relevance[c.content]]
Lexical(q, c) == IF Best(Relevance(q)) = 0 THEN 0
                 ELSE (100 * q.relevance[c.content]) \div Best(Relevance(q))
Similarity(q, c) == IF q.semantic THEN q.similarity[c.content] ELSE 0

(* Anchors match by words (bm25_anchor_ratio) or by meaning                *)
(* (embed_threshold); only eligible ones count.                            *)
AnchorsOfAnyStatus(ask) ==  \* fault: history pulls in neighbours
  {c \in DOMAIN memory : Lexical(ask.query, c) >= 50 \/ Similarity(ask.query, c) >= 30}
Anchors(ask) ==
  {c \in DOMAIN memory : /\ Lexical(ask.query, c) >= 50 \/ Similarity(ask.query, c) >= 30
                         /\ Eligible(memory[c], ask)}

(* Nodes linked to an anchor join, with neighbor_decay 0.6 of the weight   *)
(* of the edge: 1.0, the largest there is, stands for all.                 *)
AnchorsToo(c, ask) ==  \* fault: an anchor is its neighbour's neighbour
  IF \E d \in Anchors(ask) : {c, d} \in ask.links THEN 60 ELSE 0
Association(c, ask) ==
  IF c \notin Anchors(ask) /\ \E d \in Anchors(ask) : {c, d} \in ask.links THEN 60 ELSE 0
MatchedNodes(ask) ==
  Anchors(ask) \cup
  {c \in DOMAIN memory : Association(c, ask) > 0 /\ Eligible(memory[c], ask)}

(* blended_rank_score: the weights of config.py, and contradiction_penalty *)
(* for history in an answer that is not as of a moment.                    *)
Blended(c, ask) ==
  LET base == 55 * Similarity(ask.query, c) + 20 * Lexical(ask.query, c)
              + 15 * ask.strength[c] + 10 * c.confidence + 10 * Association(c, ask)
      penalty == IF ask.asOf \/ memory[c].status = "active" THEN 0 ELSE 3500
  IN  IF base > penalty THEN base - penalty ELSE 0

BufferResults(ask) ==
  LET hits == Hits(ask.query, ask.when)
  IN  {[source |-> "buffer", content |-> e.o.cand.content, score |-> 20000 + e.o.index - 1] :
         e \in IF ask.history THEN hits ELSE CurrentHits(hits)}
GraphResults(ask) ==
  {[source |-> "graph", content |-> c.content, score |-> Blended(c, ask)] : c \in MatchedNodes(ask)}

(* The cold-start fallback: the logged messages that match, the best one   *)
(* at raw_log_score_scale.                                                 *)
RawResults(ask) ==
  LET documents == {Text[log[i].message] : i \in {i \in DOMAIN log : log[i].time <= ask.when}}
      top == Best([d \in documents |-> ask.query.relevance[d]])
  IN  {[source |-> "raw_log", content |-> d, score |-> (5000 * ask.query.relevance[d]) \div top] :
         d \in {d \in documents : ask.query.relevance[d] > 0}}

(* Higher scores first, ties in the order of the three steps.              *)
Step == [buffer |-> 1, graph |-> 2, raw_log |-> 3]
Above(r, s) == r.score > s.score \/ (r.score = s.score /\ Step[r.source] < Step[s.source])
TopK(results) ==
  {top \in SUBSET results :
     /\ Cardinality(top) = IF Cardinality(results) < K THEN Cardinality(results) ELSE K
     /\ \A r \in top, s \in results \ top : ~Above(s, r)}

(* A query merges the three, keeps each content once and the best k, and   *)
(* reinforces every active node it ranked, shown or not.                   *)
Query(ask) ==
  LET graph == GraphResults(ask)
  IN  \E best \in TopK(graph) :
        LET all == BufferResults(ask) \cup best \cup RawResults(ask)
            once == {r \in all : \A s \in all \ {r} : s.content = r.content => Above(r, s)}
        IN  \E top \in TopK(once) : answer' = [ask |-> ask, results |-> top]
Ask ==
  /\ todo = {}
  /\ \A c \in DOMAIN memory : memory[c].access < MaxAccess
  /\ \E q \in Queries, history, asOf \in BOOLEAN, when \in 1 .. clock,
        links \in SUBSET {p \in SUBSET DOMAIN memory : Cardinality(p) = 2},
        strength \in [DOMAIN memory -> Strengths] :
       LET ask == [query |-> q, history |-> history, asOf |-> asOf, when |-> when,
                   links |-> links, strength |-> strength]
       IN  /\ ~asOf => when = clock
           /\ Query(ask)
           /\ memory' = [c \in DOMAIN memory |->
                           IF c \in MatchedNodes(ask) /\ memory[c].status = "active"
                           THEN [memory[c] EXCEPT !.access = @ + 1] ELSE memory[c]]
  /\ UNCHANGED <<clock, log, buffer, done, todo>>

Next ==
  \/ \E m \in Messages, role \in Roles : LogMessage(m, role)
  \/ Pass \/ Begin \/ Commit \/ Ask

Spec == Init /\ [][Next]_vars

-----------------------------------------------------------------------------
(* Properties *)

(* Every variable has its shape.                                           *)
TypeOK ==
  /\ clock \in Nat /\ done \in 0 .. Len(log)
  /\ log \in Seq([message : Messages, time : 1 .. clock, role : Roles])
  /\ buffer \subseteq [o : Occurrence, time : 1 .. clock]
  /\ {e.o : e \in buffer} \cup todo \subseteq AllSaid
  /\ DOMAIN memory \subseteq Candidates /\ memory \in [DOMAIN memory -> Node]

Undated == \A i \in DOMAIN log : Dates(log[i].message) \subseteq {NoDate}

(* "answers with what was true at that moment" (README.md:321): at every   *)
(* moment at most one statement of a slot is valid.  Once statements bring *)
(* dates of their own (a window that starts in the past, or ended there    *)
(* before it was superseded), this is so from now on only.                 *)
ValidStatements(key, when) == {c \in DOMAIN memory : c.key = key /\ ValidAt(memory[c], when)}
OneValueAtATime ==
  \A when \in (IF Undated THEN 1 ELSE clock) .. MaxClock : \A c, d \in DOMAIN memory :
    /\ c.key # NoKey /\ d \in ValidStatements(c.key, when) /\ c \in ValidStatements(c.key, when)
    => c.statement = d.statement

(* The two filters agree on the present ("what is true now", README.md:325)*)
(* a default query finds all that a query as of now finds, and without     *)
(* dates nothing else.                                                     *)
NowIsCurrent ==
  \A c \in DOMAIN memory :
    /\ ValidAt(memory[c], clock) => memory[c].status = "active"
    /\ Undated /\ memory[c].status = "active" => ValidAt(memory[c], clock)

(* The buffer and the graph follow one rule by two codes (engine.py:156,   *)
(* pipeline.py:356), but the graph also hears the assistant (pipeline.py:  *)
(* 187) and skips a match that begins like an earlier one (extraction.py:  *)
(* 34).  Once everything is consolidated, in whatever batches, and as long *)
(* as nothing was said twice and nothing was skipped, they differ only by  *)
(* what the buffer did not hear: every active statement is one a default   *)
(* answer keeps or the assistant's, and every one it keeps is active or    *)
(* was superseded by the assistant.                                        *)
SaidOnce == \A o, p \in AllSaid : o.cand.statement = p.cand.statement => o.index = p.index
Uncut == \A o, p \in AllSaid : o.cand.prefix = p.cand.prefix => o.cand.statement = p.cand.statement
Unheard == AllSaid \ {e.o : e \in buffer}
ActiveStatements == {c.statement : c \in {c \in DOMAIN memory : memory[c].status = "active"}}
BufferAgreesWithGraph ==
  done = Len(log) /\ todo = {} /\ SaidOnce /\ Uncut =>
    /\ ActiveStatements \subseteq {e.o.cand.statement : e \in CurrentHits(buffer)}
                               \cup {o.cand.statement : o \in Unheard}
    /\ \A e \in CurrentHits(buffer) :
         e.o.cand.statement \in ActiveStatements \/ \E o \in Unheard : Hides(o, e.o)

(* A past moment keeps its answer: what is valid as of a moment before now *)
(* is never changed by what is said, corrected and consolidated later, as  *)
(* long as nobody speaks of other times.                                   *)
PastIsStable ==
  [][Undated =>
       \A when \in 1 .. (clock - 1) :
         {c \in DOMAIN memory : ValidAt(memory[c], when)} =
         {c \in DOMAIN memory' : ValidAt(memory'[c], when)}]_memory

Results(source) == {r \in answer.results : r.source = source}

(* "Buffer hits always outrank graph results (max blend is 1.0)"           *)
(* (engine.py:40): whatever the features, although the weights add up to   *)
(* 1.1, and whatever is linked.                                            *)
BufferOutranksGraph ==
  answer # NoAnswer =>
    \A g \in Results("graph") : /\ g.score <= 10000
                                /\ \A b \in Results("buffer") : b.score > g.score

(* "a superseded fact must not drag its linked entities back into the      *)
(* results" (engine.py:232): a default answer holds a node only if it is   *)
(* active and it, or an active node linked to it, matches the query.       *)
NothingIsDraggedIn ==
  answer # NoAnswer /\ ~answer.ask.history /\ ~answer.ask.asOf =>
    LET matches(c) == /\ memory[c].status = "active"
                      /\ \/ Lexical(answer.ask.query, c) >= 50
                         \/ Similarity(answer.ask.query, c) >= 30
    IN  \A g \in Results("graph") : \E c \in DOMAIN memory :
          /\ c.content = g.content /\ memory[c].status = "active"
          /\ matches(c) \/ \E d \in DOMAIN memory : {c, d} \in answer.ask.links /\ matches(d)

=============================================================================
