--------------------------- MODULE RetrievalProofs ---------------------------
(***************************************************************************)
(* Theorems about Retrieval for every set of messages and candidates, every*)
(* extraction, every query, every score and logs of any length.            *)
(***************************************************************************)
EXTENDS Retrieval, FiniteSetTheorems, TLAPS

(* A finite set of numbers has a greatest one: the one with the fewest     *)
(* numbers above it.                                                       *)
LEMMA Greatest ==
  ASSUME NEW S \in SUBSET Nat, S # {}, IsFiniteSet(S)
  PROVE  \E m \in S : \A n \in S : n <= m
<1> DEFINE above(x) == {y \in S : y > x}
           T == {above(x) : x \in S}
<1>1. \A x \in S : above(x) \in SUBSET S
  OBVIOUS
<1>2. T \subseteq FiniteSubsetsOf(S) /\ T # {}
  <2>1. \A x \in S : IsFiniteSet(above(x))
    <3> HIDE DEF above
    <3> QED BY <1>1, FS_Subset
  <2> HIDE DEF above
  <2> QED BY <1>1, <2>1 DEF FiniteSubsetsOf
<1>3. \E x \in T : \A y \in T : <<y, x>> \notin StrictSubsetOrdering(S)
  <2> HIDE DEF T
  <2> QED BY <1>2, FS_StrictSubsetOrderingWellFounded, WFMin
<1>4. PICK m \in S : \A n \in S : <<above(n), above(m)>> \notin StrictSubsetOrdering(S)
  BY <1>3
<1>5. ASSUME NEW n \in S, ~(n <= m)
      PROVE  FALSE
  <2>1. above(n) \subseteq above(m) /\ n \in above(m) /\ n \notin above(n)
    <3>1. n \in Nat /\ m \in Nat /\ n > m /\ \A y \in S : y \in Nat
      BY <1>5
    <3>2. \A y \in S : y > n => y > m
      BY <3>1
    <3>3. n > m /\ ~(n > n)
      BY <3>1
    <3> QED BY <3>2, <3>3, Zenon
  <2>2. /\ above(n) \in SUBSET S /\ above(m) \in SUBSET S
        /\ IsFiniteSet(above(n)) /\ IsFiniteSet(above(m))
    <3>1. above(n) \in SUBSET S /\ above(m) \in SUBSET S
      BY <1>1
    <3> HIDE DEF above
    <3> QED BY <3>1, FS_Subset
  <2>3. <<above(n), above(m)>> \notin StrictSubsetOrdering(S)
    BY <1>4
  <2> HIDE DEF above
  <2> QED BY <2>1, <2>2, <2>3 DEF StrictSubsetOrdering
<1> QED BY <1>5

(* So has a function with finitely many numbers for values, with 0.        *)
LEMMA BestIsBest ==
  ASSUME NEW f, IsFiniteSet(DOMAIN f), f = [c \in DOMAIN f |-> f[c]],
         \A c \in DOMAIN f : f[c] \in Nat
  PROVE  Best(f) \in Nat /\ \A c \in DOMAIN f : f[c] <= Best(f)
<1> DEFINE values == {f[c] : c \in DOMAIN f}
<1>1. f \in Surjection(DOMAIN f, values)
  BY DEF Surjection
<1>2. IsFiniteSet(values \cup {0})
  <2> HIDE DEF values
  <2> QED BY <1>1, FS_Surjection, FS_AddElement
<1>3. values \cup {0} \in SUBSET Nat
  OBVIOUS
<1>4. \E m \in values \cup {0} : \A n \in values \cup {0} : n <= m
  <2> HIDE DEF values
  <2> QED BY <1>2, <1>3, Greatest
<1>5. \E m \in values \cup {0} : \A c \in DOMAIN f : f[c] <= m
  BY <1>4
<1> QED BY <1>3, <1>5 DEF Best

(* Later is one of the numbers it chooses from.                            *)
LEMMA LaterIsOne ==
  ASSUME NEW i \in Nat, NEW n \in Nat, NEW indexes \in SUBSET (0 .. n)
  PROVE  Later(i, indexes) \in indexes \cup {i} /\ \A k \in indexes \cup {i} : k <= Later(i, indexes)
<1>1. IsFiniteSet(indexes \cup {i})
  <2>1. IsFiniteSet(0 .. n)
    BY FS_Interval
  <2>2. IsFiniteSet(indexes)
    BY <2>1, FS_Subset
  <2> QED BY <2>2, FS_AddElement
<1>2. indexes \cup {i} \in SUBSET Nat /\ indexes \cup {i} # {}
  OBVIOUS
<1>3. \E j \in indexes \cup {i} : \A k \in indexes \cup {i} : k <= j
  BY <1>1, <1>2, Greatest
<1> QED BY <1>3 DEF Later

-----------------------------------------------------------------------------
(* Shapes.  That a batch commits what the log says is not inductive before *)
(* it is known which messages it is from; that a node has a latest mention *)
(* and a query a best score needs finite sets.                             *)
ShapeInv ==
  /\ TypeOK
  /\ clock >= 1 /\ IsFiniteSet(DOMAIN memory)
  /\ todo \subseteq UNION {Said(i) : i \in (done + 1) .. Len(log)}

(* What a message says are occurrences at its index.                       *)
LEMMA FoundType ==
  ASSUME NEW i \in Nat, NEW m \in Messages
  PROVE  /\ Found(i, m) \subseteq Occurrence
         /\ \A o \in Found(i, m) : o.index = i /\ o.at \in DOMAIN Extract[m] /\ o.cand = Extract[m][o.at]
<1>1. Extract[m] \in Seq(Candidates)
  BY Shape
<1>2. \A k \in DOMAIN Extract[m] : k \in Nat /\ Extract[m][k] \in Candidates
  BY <1>1
<1> QED BY <1>2 DEF Found, Occurrence

(* So it is for the messages of the log.                                   *)
LEMMA SaidType ==
  ASSUME TypeOK, NEW i \in DOMAIN log
  PROVE  /\ i \in Nat /\ i \in 1 .. Len(log) /\ log[i].message \in Messages
         /\ Said(i) \subseteq Occurrence
         /\ \A o \in Said(i) : /\ o.index = i /\ o.at \in DOMAIN Extract[log[i].message]
                               /\ o.cand = Extract[log[i].message][o.at]
<1> DEFINE Line == [message : Messages, time : 1 .. clock, role : Roles]
<1>0. log \in Seq(Line) /\ \A l \in Line : l.message \in Messages
  BY DEF TypeOK
<1>1. i \in Nat /\ i \in 1 .. Len(log) /\ log[i].message \in Messages
  <2> HIDE DEF Line
  <2>1. i \in 1 .. Len(log) /\ Len(log) \in Nat /\ log[i] \in Line
    BY <1>0
  <2> QED BY <1>0, <2>1
<1> QED BY <1>1, FoundType DEF Said

(* What was said are occurrences in their messages.                        *)
LEMMA AllSaidType ==
  ASSUME TypeOK
  PROVE  /\ AllSaid \in SUBSET Occurrence
         /\ \A o \in AllSaid : /\ o.index \in DOMAIN log /\ o.index \in Nat /\ o.at \in Nat
                               /\ log[o.index].message \in Messages
                               /\ o.at \in DOMAIN Extract[log[o.index].message]
                               /\ o.cand = Extract[log[o.index].message][o.at]
                               /\ o.cand \in Candidates
                               /\ o = [cand |-> o.cand, index |-> o.index, at |-> o.at]
<1>1. ASSUME NEW i \in DOMAIN log, NEW o \in Said(i)
      PROVE  /\ o \in Occurrence /\ o.index = i /\ i \in Nat /\ log[i].message \in Messages
             /\ o.at \in DOMAIN Extract[log[i].message] /\ o.cand = Extract[log[i].message][o.at]
  BY SaidType
<1>2. \A o \in Occurrence : /\ o.cand \in Candidates /\ o.at \in Nat
                            /\ o = [cand |-> o.cand, index |-> o.index, at |-> o.at]
  BY DEF Occurrence
<1> QED BY <1>1, <1>2 DEF AllSaid

(* What was said since the last batch, and what a batch takes of it.       *)
NewlySaid == UNION {Said(i) : i \in (done + 1) .. Len(log)}
Taken == FirstOccurrences(FirstOfPrefix(NewlySaid))

(* A batch starts: nodes keep all but their latest mention, and what is to *)
(* be committed are first occurrences of what memory does not hold.        *)
LEMMA BeginEffect ==
  ASSUME TypeOK, Begin
  PROVE  /\ DOMAIN memory' = DOMAIN memory /\ memory' \in [DOMAIN memory -> Node]
         /\ \A c \in DOMAIN memory :
              /\ memory'[c].status = memory[c].status /\ memory'[c].from = memory[c].from
              /\ memory'[c].to = memory[c].to
              /\ memory'[c].latest \in
                   {memory[c].latest} \cup {a.index : a \in {a \in Taken : a.cand.content = c.content}}
         /\ todo' = {a \in Taken : \A c \in DOMAIN memory : c.content # a.cand.content}
         /\ todo' \subseteq NewlySaid
         /\ done' = IF todo' = {} THEN Len(log) ELSE done
         /\ clock' = clock + 1 /\ answer' = NoAnswer /\ UNCHANGED <<log, buffer>>
<1> DEFINE kept == Taken
           known == {a \in kept : \E c \in DOMAIN memory : c.content = a.cand.content}
           again(c) == {a.index : a \in {a \in known : a.cand.content = c.content}}
<1>1. /\ memory' = [c \in DOMAIN memory |-> [memory[c] EXCEPT !.latest = Later(@, again(c))]]
      /\ todo' = kept \ known
      /\ done' = IF todo' = {} THEN Len(log) ELSE done
      /\ clock' = clock + 1 /\ answer' = NoAnswer /\ UNCHANGED <<log, buffer>>
  <2>1. kept = FirstOccurrences(FirstOfPrefix(UNION {Said(i) : i \in (done + 1) .. Len(log)}))
    BY DEF NewlySaid, Taken
  <2> HIDE DEF kept
  <2> QED BY <2>1, Zenon DEF Begin
<1>2. Len(log) \in Nat /\ done \in Nat
  BY DEF TypeOK
<1>3. \A a \in NewlySaid : a.index \in 0 .. Len(log)
  <2>1. ASSUME NEW i \in (done + 1) .. Len(log), NEW a \in Said(i)
        PROVE  a.index \in 0 .. Len(log)
    <3>1. i \in DOMAIN log
      BY <1>2 DEF TypeOK
    <3> QED BY <3>1, SaidType, <1>2
  <2> QED BY <2>1 DEF NewlySaid
<1>4. kept \subseteq NewlySaid
  BY DEF Taken, FirstOccurrences, FirstOfPrefix
<1>5. ASSUME NEW c \in DOMAIN memory
      PROVE  /\ memory'[c] \in Node
             /\ memory'[c].status = memory[c].status /\ memory'[c].from = memory[c].from
             /\ memory'[c].to = memory[c].to
             /\ memory'[c].latest \in {memory[c].latest} \cup again(c)
  <2>1. again(c) \in SUBSET (0 .. Len(log))
    BY <1>3, <1>4
  <2>2. memory[c] \in Node /\ memory[c].latest \in Nat
    BY DEF TypeOK, Node
  <2>3. memory'[c] = [memory[c] EXCEPT !.latest = Later(memory[c].latest, again(c))]
    BY <1>1
  <2> HIDE DEF again
  <2>4. Later(memory[c].latest, again(c)) \in again(c) \cup {memory[c].latest}
    BY <1>2, <2>1, <2>2, LaterIsOne
  <2>5. Later(memory[c].latest, again(c)) \in Nat
    BY <1>2, <2>1, <2>2, <2>4
  <2> QED BY <2>2, <2>3, <2>4, <2>5 DEF Node
<1>6. DOMAIN memory' = DOMAIN memory /\ memory' \in [DOMAIN memory -> Node]
  <2>1. memory' = [c \in DOMAIN memory |-> memory'[c]]
    BY <1>1
  <2> QED BY <1>5, <2>1
<1>7. todo' = {a \in kept : \A c \in DOMAIN memory : c.content # a.cand.content}
  BY <1>1
<1>8. todo' \subseteq NewlySaid
  BY <1>4, <1>7
<1>9. \A c : again(c) \subseteq {a.index : a \in {a \in kept : a.cand.content = c.content}}
  OBVIOUS
<1> HIDE DEF kept, known, again
<1>10. \A c \in DOMAIN memory :
         memory'[c].latest \in {memory[c].latest} \cup {a.index : a \in {a \in kept : a.cand.content = c.content}}
  BY <1>5, <1>9
<1> QED BY <1>1, <1>5, <1>6, <1>7, <1>8, <1>10 DEF kept

(* A superseded node and the node of an occurrence are nodes.              *)
LEMMA NodeTypes ==
  ASSUME TypeOK
  PROVE  /\ \A n \in Node : /\ Supersede(n) \in Node /\ Supersede(n).status = "superseded"
                            /\ Supersede(n).from = n.from /\ Supersede(n).to = clock
                            /\ Supersede(n).latest = n.latest
         /\ \A a \in Occurrence : NewNode(a) \in Node
<1>1. \A n \in Node : /\ Supersede(n) \in Node /\ Supersede(n).status = "superseded"
                      /\ Supersede(n).from = n.from /\ Supersede(n).to = clock
                      /\ Supersede(n).latest = n.latest
  BY DEF Supersede, Node, TypeOK
<1>2. ASSUME NEW a \in Occurrence
      PROVE  NewNode(a) \in Node
  <2>1. a.cand \in Candidates /\ a.index \in Nat
    BY DEF Occurrence
  <2>2. a.cand.from \in Nat \cup {NoDate} /\ a.cand.until \in Nat \cup {NoDate}
    BY <2>1, Shape
  <2>3. NewNode(a).from \in Nat /\ NewNode(a).to \in Nat \cup {NoDate}
    BY <2>2 DEF NewNode, DateFound, TypeOK
  <2>4. NewNode(a) = [status |-> "active", from |-> NewNode(a).from, to |-> NewNode(a).to,
                      latest |-> a.index, access |-> 1]
    BY DEF NewNode
  <2> QED BY <2>1, <2>3, <2>4 DEF Node
<1> QED BY <1>1, <1>2

(* A commit adds one node and closes those that it contradicts.            *)
LEMMA CommitEffect ==
  ASSUME ShapeInv, Commit
  PROVE  \E a \in todo :
           /\ \A b \in todo \ {a} : Before(a, b)
           /\ a \in Occurrence /\ a \in NewlySaid
           /\ DOMAIN memory' = DOMAIN memory \cup {a.cand}
           /\ memory'[a.cand] = NewNode(a)
           /\ \A c \in DOMAIN memory \ {a.cand} :
                memory'[c] = IF c \in Contradicted(a) THEN Supersede(memory[c]) ELSE memory[c]
           /\ memory' \in [DOMAIN memory' -> Node]
           /\ todo' = todo \ {a} /\ done' = (IF todo' = {} THEN Len(log) ELSE done)
           /\ UNCHANGED <<clock, log, buffer, answer>>
<1>1. PICK a \in todo :
        /\ \A b \in todo \ {a} : Before(a, b)
        /\ memory' = [c \in DOMAIN memory \cup {a.cand} |->
                        IF c = a.cand THEN NewNode(a)
                        ELSE IF c \in Contradicted(a) THEN Supersede(memory[c]) ELSE memory[c]]
        /\ todo' = todo \ {a}
        /\ done' = IF todo' = {} THEN Len(log) ELSE done
        /\ UNCHANGED <<clock, log, buffer, answer>>
  BY Zenon DEF Commit
<1>2. a \in NewlySaid
  BY DEF ShapeInv, NewlySaid
<1>3. a \in Occurrence
  <2>1. TypeOK /\ a \in AllSaid
    BY DEF ShapeInv, TypeOK
  <2> QED BY <2>1, AllSaidType
<1>4. TypeOK /\ \A c \in DOMAIN memory : memory[c] \in Node
  BY DEF ShapeInv, TypeOK
<1>5. DOMAIN memory' = DOMAIN memory \cup {a.cand}
  BY <1>1
<1>6. /\ memory'[a.cand] = NewNode(a)
      /\ \A c \in DOMAIN memory \ {a.cand} :
           memory'[c] = IF c \in Contradicted(a) THEN Supersede(memory[c]) ELSE memory[c]
  BY <1>1
<1>7. \A c \in DOMAIN memory' : memory'[c] \in Node
  BY <1>3, <1>4, <1>5, <1>6, NodeTypes
<1>8. memory' = [c \in DOMAIN memory' |-> memory'[c]]
  BY <1>1
<1>9. memory' \in [DOMAIN memory' -> Node]
  BY <1>7, <1>8
<1> QED BY <1>1, <1>2, <1>3, <1>5, <1>6, <1>9, Zenon

(* A query counts accesses and changes nothing else.                       *)
LEMMA AskEffect ==
  ASSUME TypeOK, Ask
  PROVE  /\ DOMAIN memory' = DOMAIN memory /\ memory' \in [DOMAIN memory -> Node]
         /\ \A c \in DOMAIN memory :
              /\ memory'[c].status = memory[c].status /\ memory'[c].from = memory[c].from
              /\ memory'[c].to = memory[c].to /\ memory'[c].latest = memory[c].latest
         /\ todo = {} /\ UNCHANGED <<clock, log, buffer, done, todo>>
<1>1. PICK chosen \in [DOMAIN memory -> BOOLEAN] :
        memory' = [c \in DOMAIN memory |->
                     IF chosen[c] THEN [memory[c] EXCEPT !.access = @ + 1] ELSE memory[c]]
  <2>1. PICK ask : memory' = [c \in DOMAIN memory |->
                               IF c \in MatchedNodes(ask) /\ memory[c].status = "active"
                               THEN [memory[c] EXCEPT !.access = @ + 1] ELSE memory[c]]
    BY Zenon DEF Ask
  <2> DEFINE chosen == [c \in DOMAIN memory |-> c \in MatchedNodes(ask) /\ memory[c].status = "active"]
  <2>2. chosen \in [DOMAIN memory -> BOOLEAN]
    OBVIOUS
  <2>3. memory' = [c \in DOMAIN memory |->
                     IF chosen[c] THEN [memory[c] EXCEPT !.access = @ + 1] ELSE memory[c]]
    BY <2>1
  <2> QED BY <2>2, <2>3, Zenon
<1>2. \A n \in Node : /\ [n EXCEPT !.access = @ + 1] \in Node
                      /\ [n EXCEPT !.access = @ + 1].status = n.status
                      /\ [n EXCEPT !.access = @ + 1].from = n.from
                      /\ [n EXCEPT !.access = @ + 1].to = n.to
                      /\ [n EXCEPT !.access = @ + 1].latest = n.latest
  BY DEF Node
<1>3. \A c \in DOMAIN memory : memory[c] \in Node
  BY DEF TypeOK
<1>4. \A c \in DOMAIN memory : memory'[c] \in {memory[c], [memory[c] EXCEPT !.access = @ + 1]}
  BY <1>1
<1>5. DOMAIN memory' = DOMAIN memory /\ memory' = [c \in DOMAIN memory |-> memory'[c]]
  BY <1>1
<1>6. todo = {} /\ UNCHANGED <<clock, log, buffer, done, todo>>
  BY DEF Ask
<1> QED BY <1>2, <1>3, <1>4, <1>5, <1>6

(* A log and a buffer of the past are a log and a buffer of the present.   *)
LEMMA TimePasses ==
  ASSUME TypeOK, NEW now \in Nat, clock <= now
  PROVE  /\ log \in Seq([message : Messages, time : 1 .. now, role : Roles])
         /\ buffer \subseteq [o : Occurrence, time : 1 .. now]
<1> DEFINE Line(t) == [message : Messages, time : 1 .. t, role : Roles]
<1>1. 1 .. clock \subseteq 1 .. now
  BY DEF TypeOK
<1>2. \A l \in Line(clock) : l \in Line(now)
  BY <1>1
<1>3. log \in Seq(Line(clock))
  BY DEF TypeOK
<1>4. log \in Seq(Line(now))
  <2> HIDE DEF Line
  <2> QED BY <1>2, <1>3
<1>5. buffer \subseteq [o : Occurrence, time : 1 .. now]
  BY <1>1 DEF TypeOK
<1> QED BY <1>4, <1>5

(* A logged message adds what it says to what was said, whoever says it.   *)
LEMMA SaidGrows ==
  ASSUME TypeOK, NEW m \in Messages, NEW role \in Roles, LogMessage(m, role),
         NEW i \in Nat, i = Len(log) + 1
  PROVE  /\ DOMAIN log' = 1 .. i
         /\ \A j \in DOMAIN log : log'[j] = log[j] /\ Said(j)' = Said(j)
         /\ AllSaid' = AllSaid \cup Found(i, m)
<1> DEFINE line == [message |-> m, time |-> clock + 1, role |-> role]
           Line == [message : Messages, time : 1 .. clock, role : Roles]
<1>1. log \in Seq(Line) /\ log' = Append(log, line)
  BY DEF TypeOK, LogMessage
<1>2. /\ Len(log) \in Nat /\ DOMAIN log = 1 .. Len(log) /\ DOMAIN log' = 1 .. i
      /\ \A j \in DOMAIN log : log'[j] = log[j]
      /\ log'[i] = line
  <2> HIDE DEF Line, line
  <2> QED BY <1>1
<1>3. Said(i)' = Found(i, m)
  <2>1. log'[i].message = m
    BY <1>2
  <2> QED BY <2>1, Zenon DEF Said
<1>4. ASSUME NEW j \in DOMAIN log
      PROVE  Said(j)' = Said(j)
  <2>1. log'[j] = log[j]
    BY <1>2
  <2> QED BY <2>1, Zenon DEF Said
<1>5. DOMAIN log' = DOMAIN log \cup {i}
  BY <1>2
<1>6. ASSUME NEW o
      PROVE  (\E j \in DOMAIN log' : o \in Said(j)') <=>
             (\E j \in DOMAIN log : o \in Said(j)) \/ o \in Found(i, m)
  <2> QED BY <1>3, <1>4, <1>5, Zenon
<1>7. AllSaid' = AllSaid \cup Found(i, m)
  <2>1. \A o : o \in AllSaid' <=> \E j \in DOMAIN log' : o \in Said(j)'
    BY Zenon DEF AllSaid
  <2>2. \A o : o \in AllSaid <=> \E j \in DOMAIN log : o \in Said(j)
    BY Zenon DEF AllSaid
  <2> QED BY <1>6, <2>1, <2>2, Zenon
<1> QED BY <1>2, <1>4, <1>7

(* An unchanged log says the same.                                         *)
LEMMA SaidStays ==
  ASSUME UNCHANGED log
  PROVE  (\A j : Said(j)' = Said(j)) /\ AllSaid' = AllSaid
<1>1. \A j : Said(j)' = Said(j)
  BY DEF Said
<1> QED BY <1>1 DEF AllSaid

(* Every step keeps the shapes.                                            *)
LEMMA ShapeStep ==
  ASSUME ShapeInv, [Next]_vars
  PROVE  ShapeInv'
<1>a. TypeOK /\ clock \in Nat /\ clock >= 1 /\ IsFiniteSet(DOMAIN memory)
  BY DEF ShapeInv, TypeOK
<1>b. DOMAIN memory \subseteq Candidates /\ memory \in [DOMAIN memory -> Node]
  BY <1>a DEF TypeOK
<1>c. Len(log) \in Nat /\ done \in 0 .. Len(log) /\ DOMAIN log = 1 .. Len(log)
  BY <1>a DEF TypeOK
<1>1. ASSUME NEW m \in Messages, NEW role \in Roles, LogMessage(m, role)
      PROVE  ShapeInv'
  <2> PICK i \in Nat : i = Len(log) + 1
    BY <1>c
  <2> DEFINE line == [message |-> m, time |-> clock + 1, role |-> role]
             Line == [message : Messages, time : 1 .. clock', role : Roles]
             heard == Buffered(i, m, role)
  <2>1. /\ todo = {} /\ log' = Append(log, line) /\ clock' = clock + 1
        /\ buffer' = buffer \cup {[o |-> o, time |-> clock + 1] : o \in heard}
        /\ UNCHANGED <<done, todo, memory>>
    BY <1>1 DEF LogMessage
  <2>0. clock' \in Nat /\ clock <= clock'
    BY <1>a, <2>1
  <2>2. log \in Seq(Line) /\ buffer \subseteq [o : Occurrence, time : 1 .. clock']
    <3> HIDE DEF line
    <3> QED BY ONLY <1>a, <2>0, TimePasses
  <2>3. line \in Line
    BY <1>a, <2>1
  <2>4. /\ log' \in Seq(Line) /\ Len(log') = i
        /\ \A j \in 1 .. Len(log) : log'[j] = log[j]
    <3> HIDE DEF line, Line
    <3> QED BY <2>1, <2>2, <2>3
  <2>5. heard \subseteq Found(i, m) /\ Found(i, m) \subseteq Occurrence
    BY <1>c, FoundType DEF Buffered
  <2>6. buffer' \subseteq [o : Occurrence, time : 1 .. clock']
    BY <1>a, <2>1, <2>2, <2>5
  <2>7. {e.o : e \in buffer'} = {e.o : e \in buffer} \cup heard
    <3> HIDE DEF heard
    <3>1. \A o : [o |-> o, time |-> clock + 1].o = o
      OBVIOUS
    <3>2. {e.o : e \in {[o |-> o, time |-> clock + 1] : o \in heard}} = heard
      BY <3>1
    <3> QED BY ONLY <2>1, <3>2
  <2>8. AllSaid' = AllSaid \cup Found(i, m)
    BY <1>1, <1>a, SaidGrows
  <2>9. {e.o : e \in buffer} \subseteq AllSaid
    BY <1>a DEF TypeOK
  <2>10. {e.o : e \in buffer'} \cup todo' \subseteq AllSaid'
    <3> HIDE DEF heard
    <3> QED BY <2>1, <2>5, <2>7, <2>8, <2>9
  <2>12. done' \in 0 .. Len(log')
    BY <1>c, <2>1, <2>4
  <2>13. TypeOK'
    BY <1>a, <1>b, <2>1, <2>4, <2>6, <2>10, <2>12 DEF TypeOK
  <2> QED BY <1>a, <2>1, <2>13 DEF ShapeInv
<1>2. CASE Pass
  <2>1. todo = {} /\ clock' = clock + 1 /\ UNCHANGED <<log, buffer, done, todo, memory>>
    BY <1>2 DEF Pass
  <2>2. /\ log \in Seq([message : Messages, time : 1 .. clock', role : Roles])
        /\ buffer \subseteq [o : Occurrence, time : 1 .. clock']
    BY <1>a, <2>1, TimePasses
  <2>3. TypeOK'
    BY <1>a, <1>b, <2>1, <2>2, SaidStays DEF TypeOK
  <2>4. \A j : Said(j)' = Said(j)
    BY <2>1, SaidStays
  <2> QED BY <1>a, <2>1, <2>3, <2>4 DEF ShapeInv
<1>3. CASE Begin
  <2>1. /\ DOMAIN memory' = DOMAIN memory /\ memory' \in [DOMAIN memory -> Node]
        /\ todo' \subseteq NewlySaid /\ done' = (IF todo' = {} THEN Len(log) ELSE done)
        /\ clock' = clock + 1 /\ UNCHANGED <<log, buffer>>
    BY <1>3, <1>a, BeginEffect
  <2>2. /\ log \in Seq([message : Messages, time : 1 .. clock', role : Roles])
        /\ buffer \subseteq [o : Occurrence, time : 1 .. clock']
    BY <1>a, <2>1, TimePasses
  <2>3. NewlySaid \subseteq AllSaid
    BY <1>c DEF NewlySaid, AllSaid
  <2>4. ({e.o : e \in buffer'} \cup todo') \subseteq AllSaid'
    <3>1. {e.o : e \in buffer} \subseteq AllSaid /\ AllSaid' = AllSaid /\ buffer' = buffer
      BY <1>a, <2>1, SaidStays DEF TypeOK
    <3> QED BY ONLY <2>1, <2>3, <3>1
  <2>5. done' \in 0 .. Len(log')
    BY <1>c, <2>1
  <2>6. TypeOK'
    BY <1>a, <1>b, <2>1, <2>2, <2>4, <2>5 DEF TypeOK
  <2>7. \A j : Said(j)' = Said(j)
    BY <2>1, SaidStays
  <2>8. todo' \subseteq UNION {Said(j) : j \in (done' + 1) .. Len(log')}
    BY <2>1 DEF NewlySaid
  <2> QED BY <1>a, <2>1, <2>6, <2>7, <2>8 DEF ShapeInv
<1>4. CASE Commit
  <2>1. PICK a \in todo :
          /\ a \in Occurrence
          /\ DOMAIN memory' = DOMAIN memory \cup {a.cand}
          /\ memory' \in [DOMAIN memory' -> Node]
          /\ todo' = todo \ {a} /\ done' = (IF todo' = {} THEN Len(log) ELSE done)
          /\ UNCHANGED <<clock, log, buffer, answer>>
    BY <1>4, CommitEffect, Zenon
  <2>2. a.cand \in Candidates /\ IsFiniteSet(DOMAIN memory')
    BY <1>a, <2>1, FS_AddElement DEF Occurrence
  <2>3. done' \in 0 .. Len(log')
    BY <1>c, <2>1
  <2>9. /\ clock' \in Nat /\ log' \in Seq([message : Messages, time : 1 .. clock', role : Roles])
        /\ buffer' \subseteq [o : Occurrence, time : 1 .. clock']
        /\ ({e.o : e \in buffer'} \cup todo') \subseteq AllSaid'
    <3>1. clock' = clock /\ log' = log /\ buffer' = buffer /\ todo' \subseteq todo /\ AllSaid' = AllSaid
      BY <2>1, SaidStays
    <3> QED BY ONLY <1>a, <3>1 DEF TypeOK
  <2>4. TypeOK'
    BY <1>b, <2>1, <2>2, <2>3, <2>9 DEF TypeOK
  <2>5. \A j : Said(j)' = Said(j)
    BY <2>1, SaidStays
  <2>6. todo' \subseteq UNION {Said(j) : j \in (done' + 1) .. Len(log')}
    BY <2>1 DEF ShapeInv
  <2> QED BY <1>a, <2>1, <2>2, <2>4, <2>5, <2>6 DEF ShapeInv
<1>5. CASE Ask
  <2>1. /\ DOMAIN memory' = DOMAIN memory /\ memory' \in [DOMAIN memory -> Node]
        /\ UNCHANGED <<clock, log, buffer, done, todo>>
    BY <1>5, <1>a, AskEffect
  <2>4. /\ clock' \in Nat /\ done' \in 0 .. Len(log')
        /\ log' \in Seq([message : Messages, time : 1 .. clock', role : Roles])
        /\ buffer' \subseteq [o : Occurrence, time : 1 .. clock']
        /\ ({e.o : e \in buffer'} \cup todo') \subseteq AllSaid'
    <3>1. AllSaid' = AllSaid
      BY <2>1, SaidStays
    <3> QED BY ONLY <1>a, <2>1, <3>1 DEF TypeOK
  <2>2. TypeOK'
    BY <1>b, <2>1, <2>4 DEF TypeOK
  <2>3. \A j : Said(j)' = Said(j)
    BY <2>1, SaidStays
  <2> QED BY <1>a, <2>1, <2>2, <2>3 DEF ShapeInv
<1>6. CASE UNCHANGED vars
  <2>1. UNCHANGED <<clock, log, buffer, done, todo, memory>>
    BY <1>6 DEF vars
  <2>2. TypeOK'
    <3>1. AllSaid' = AllSaid
      BY <2>1, SaidStays
    <3> QED BY ONLY <1>a, <2>1, <3>1 DEF TypeOK
  <2>3. \A j : Said(j)' = Said(j)
    BY <2>1, SaidStays
  <2> QED BY <1>a, <2>1, <2>2, <2>3 DEF ShapeInv
<1> QED BY <1>1, <1>2, <1>3, <1>4, <1>5, <1>6 DEF Next

(* So the shapes hold throughout.                                          *)
LEMMA ShapesHold == Spec => []ShapeInv
<1>1. Init => ShapeInv
  BY FS_EmptySet DEF Init, ShapeInv, TypeOK, Said, AllSaid
<1>2. ShapeInv /\ [Next]_vars => ShapeInv'
  BY ShapeStep
<1> QED BY <1>1, <1>2, PTL DEF Spec

(* Every variable keeps its shape, and what the buffer holds and what a    *)
(* batch commits is something the log says, for any messages, matches and  *)
(* scores.                                                                 *)
THEOREM TypeCorrect == Spec => []TypeOK
<1>1. ShapeInv => TypeOK
  BY DEF ShapeInv
<1> QED BY <1>1, ShapesHold, PTL

-----------------------------------------------------------------------------
(* Windows.  One value at a time rests on more than the status: what was   *)
(* superseded ended by now, one statement of a slot is active, and without *)
(* dates of their own two statements of a slot have windows that do not    *)
(* overlap at all.  No statement comes back while it has a node.           *)
Closed(g) == \A c \in DOMAIN g : g[c].status = "superseded" => g[c].to \in Nat /\ g[c].to <= clock
OneActive(g) ==
  \A c, d \in DOMAIN g :
    g[c].status = "active" /\ g[d].status = "active" /\ c.key = d.key /\ c.key # NoKey
    => c.statement = d.statement
Apart(m, n) == (m.to # NoDate /\ m.to <= n.from) \/ (n.to # NoDate /\ n.to <= m.from)
Sequential(g) ==
  /\ \A c \in DOMAIN g : g[c].from <= clock /\ (g[c].status = "active" => g[c].to = NoDate)
  /\ \A c, d \in DOMAIN g :
       c.key = d.key /\ c.key # NoKey /\ c.statement # d.statement => Apart(g[c], g[d])
TodoIsNew ==
  /\ \A a \in todo, c \in DOMAIN memory : a.cand # c
  /\ \A a, b \in todo : a.cand = b.cand => a = b
WindowInv == Closed(memory) /\ OneActive(memory) /\ (Undated => Sequential(memory)) /\ TodoIsNew

(* A slot's windows stay as they are while only time passes.               *)
LEMMA SameWindows ==
  ASSUME TypeOK, WindowInv, clock' \in Nat, clock <= clock', Undated' => Undated,
         DOMAIN memory' = DOMAIN memory,
         \A c \in DOMAIN memory : /\ memory'[c].status = memory[c].status
                                  /\ memory'[c].from = memory[c].from /\ memory'[c].to = memory[c].to
  PROVE  Closed(memory)' /\ OneActive(memory)' /\ (Undated' => Sequential(memory)')
<1>1. clock \in Nat /\ \A c \in DOMAIN memory : memory[c].from \in Nat
  BY DEF TypeOK, Node
<1>2. Closed(memory)'
  BY <1>1 DEF WindowInv, Closed
<1>3. OneActive(memory)'
  BY DEF WindowInv, OneActive
<1>4. Undated' => Sequential(memory)'
  <2> SUFFICES ASSUME Undated' PROVE Sequential(memory)'
    OBVIOUS
  <2>1. Sequential(memory)
    BY DEF WindowInv
  <2>2. \A c \in DOMAIN memory' : memory'[c].from <= clock' /\ (memory'[c].status = "active" => memory'[c].to = NoDate)
    BY <1>1, <2>1 DEF Sequential
  <2>3. \A c, d \in DOMAIN memory' :
          c.key = d.key /\ c.key # NoKey /\ c.statement # d.statement => Apart(memory'[c], memory'[d])
    BY <2>1 DEF Sequential, Apart
  <2> QED BY <2>2, <2>3 DEF Sequential
<1> QED BY <1>2, <1>3, <1>4

(* Without dates in the log, what a batch commits has none.                *)
LEMMA NoDates ==
  ASSUME TypeOK, Undated, NEW a \in NewlySaid
  PROVE  NewNode(a).status = "active" /\ NewNode(a).from = clock /\ NewNode(a).to = NoDate
<1>1. PICK i \in (done + 1) .. Len(log) : a \in Said(i)
  BY DEF NewlySaid
<1>2. i \in DOMAIN log
  BY <1>1 DEF TypeOK
<1>3. a.cand = Extract[log[i].message][a.at] /\ a.at \in DOMAIN Extract[log[i].message]
  BY <1>1, <1>2, SaidType
<1>4. a.cand.from \in Dates(log[i].message) /\ a.cand.until \in Dates(log[i].message)
  BY <1>3 DEF Dates
<1>5. a.cand.from = NoDate /\ a.cand.until = NoDate
  BY <1>2, <1>4 DEF Undated
<1> QED BY <1>5 DEF NewNode, DateFound

(* First occurrences of one statement are the same.                        *)
LEMMA FirstIsOne ==
  ASSUME NEW found \in SUBSET Occurrence, NEW a \in FirstOccurrences(found),
         NEW b \in FirstOccurrences(found), a.cand.statement = b.cand.statement
  PROVE  a = b
<1>1. /\ a.index \in Nat /\ a.at \in Nat /\ b.index \in Nat /\ b.at \in Nat
      /\ a \in found /\ b \in found
  BY DEF FirstOccurrences, Occurrence
<1>2. CASE a # b
  <2>1. Before(a, b) /\ Before(b, a)
    BY <1>1, <1>2 DEF FirstOccurrences
  <2> QED BY <1>1, <2>1 DEF Before
<1> QED BY <1>2

(* What was said lately are occurrences.                                   *)
LEMMA NewlySaidType ==
  ASSUME TypeOK
  PROVE  NewlySaid \in SUBSET Occurrence
<1>1. \A i \in (done + 1) .. Len(log) : i \in DOMAIN log
  BY DEF TypeOK
<1> QED BY <1>1, SaidType DEF NewlySaid

(* The log only grows, so dates do not go away.                            *)
LEMMA UndatedBefore ==
  ASSUME TypeOK, [Next]_vars, Undated'
  PROVE  Undated
<1>1. CASE UNCHANGED log
  BY <1>1 DEF Undated
<1>2. ASSUME NEW m \in Messages, NEW role \in Roles, LogMessage(m, role)
      PROVE  Undated
  <2>1. Len(log) \in Nat /\ DOMAIN log = 1 .. Len(log)
    BY DEF TypeOK
  <2>2. DOMAIN log' = 1 .. (Len(log) + 1) /\ \A i \in DOMAIN log : log'[i] = log[i]
    <3>1. PICK k \in Nat : k = Len(log) + 1
      BY <2>1
    <3> QED BY <1>2, <3>1, SaidGrows
  <2>3. \A i \in DOMAIN log : i \in DOMAIN log' /\ log'[i] = log[i]
    BY <2>1, <2>2
  <2> QED BY <2>3 DEF Undated
<1> QED BY <1>1, <1>2 DEF Next, Pass, Begin, Commit, Ask, vars

(* A commit closes the windows of what it contradicts at the moment that   *)
(* its own begins.                                                         *)
LEMMA CommitKeepsWindows ==
  ASSUME ShapeInv, WindowInv, Commit
  PROVE  WindowInv'
<1>1. PICK a \in todo :
        /\ a \in Occurrence /\ a \in NewlySaid
        /\ DOMAIN memory' = DOMAIN memory \cup {a.cand}
        /\ memory'[a.cand] = NewNode(a)
        /\ \A c \in DOMAIN memory \ {a.cand} :
             memory'[c] = IF c \in Contradicted(a) THEN Supersede(memory[c]) ELSE memory[c]
        /\ todo' = todo \ {a} /\ UNCHANGED <<clock, log, buffer, answer>>
  BY CommitEffect, Zenon
<1>2. TypeOK /\ clock \in Nat /\ \A c \in DOMAIN memory : memory[c] \in Node
  BY DEF ShapeInv, TypeOK
<1>3. a.cand \notin DOMAIN memory
  BY DEF WindowInv, TodoIsNew
<1> DEFINE old == Contradicted(a)
<1>4. /\ \A c \in DOMAIN memory : c \in old => /\ memory[c].status = "active"
                                              /\ memory'[c].status = "superseded"
                                              /\ memory'[c].from = memory[c].from
                                              /\ memory'[c].to = clock
      /\ \A c \in DOMAIN memory : c \notin old => memory'[c] = memory[c]
  BY <1>1, <1>2, <1>3, NodeTypes DEF Contradicted
<1>5. NewNode(a).status = "active"
  BY DEF NewNode
<1>6. Closed(memory)'
  BY <1>1, <1>2, <1>4, <1>5 DEF WindowInv, Closed
<1>7. \A c \in DOMAIN memory :
        memory[c].status = "active" /\ c.key = a.cand.key /\ c.key # NoKey
        /\ c.statement # a.cand.statement => c \in old
  BY DEF Contradicted, CorrectionSupersedes
<1>8. OneActive(memory)'
  <2>1. \A c \in DOMAIN memory : memory'[c].status = "active" => memory[c].status = "active" /\ c \notin old
    BY <1>4
  <2> QED BY <1>1, <1>7, <2>1 DEF WindowInv, OneActive
<1>9. ASSUME Undated'
      PROVE  Sequential(memory)'
  <2>1. Undated
    BY <1>1, <1>9 DEF Undated
  <2>2. Sequential(memory) /\ NewNode(a).from = clock /\ NewNode(a).to = NoDate
    BY <1>1, <1>2, <2>1, NoDates DEF WindowInv
  <2>3. \A c \in DOMAIN memory : memory[c].from \in Nat
    BY <1>2 DEF Node
  <2>4. \A c \in DOMAIN memory' : memory'[c].from <= clock' /\ (memory'[c].status = "active" => memory'[c].to = NoDate)
    BY <1>1, <1>2, <1>4, <2>2 DEF Sequential
  <2>5. ASSUME NEW c \in DOMAIN memory, c.key = a.cand.key, c.key # NoKey, c.statement # a.cand.statement
        PROVE  memory'[c].to # NoDate /\ memory'[c].to <= clock
    <3>1. CASE c \in old
      BY <1>2, <1>4, <3>1, Sentinel
    <3>2. CASE c \notin old
      <4>1. memory[c].status = "superseded" /\ memory'[c] = memory[c]
        BY <1>2, <1>4, <1>7, <2>5, <3>2 DEF Node
      <4> QED BY <4>1, Sentinel DEF WindowInv, Closed
    <3> QED BY <3>1, <3>2
  <2>6. ASSUME NEW c \in DOMAIN memory, NEW d \in DOMAIN memory,
               c.key = d.key, c.key # NoKey, c.statement # d.statement
        PROVE  Apart(memory'[c], memory'[d])
    <3>1. Apart(memory[c], memory[d])
      BY <2>2, <2>6 DEF Sequential
    <3>2. \A e \in DOMAIN memory : /\ memory'[e].from = memory[e].from
                                   /\ memory[e].to # NoDate => memory'[e].to = memory[e].to
      BY <1>4, <2>2 DEF Sequential
    <3> QED BY <3>1, <3>2 DEF Apart
  <2>7. \A c, d \in DOMAIN memory' :
          c.key = d.key /\ c.key # NoKey /\ c.statement # d.statement => Apart(memory'[c], memory'[d])
    BY <1>1, <2>2, <2>5, <2>6 DEF Apart
  <2> QED BY <2>4, <2>7 DEF Sequential
<1>10. TodoIsNew'
  BY <1>1 DEF WindowInv, TodoIsNew
<1> QED BY <1>6, <1>8, <1>9, <1>10 DEF WindowInv

(* Every step keeps the windows.                                           *)
LEMMA WindowStep ==
  ASSUME ShapeInv, WindowInv, [Next]_vars
  PROVE  WindowInv'
<1>a. TypeOK /\ clock \in Nat
  BY DEF ShapeInv, TypeOK
<1>b. Undated' => Undated
  BY <1>a, UndatedBefore
<1>1. CASE (\E m \in Messages, role \in Roles : LogMessage(m, role)) \/ Pass \/ UNCHANGED vars
  <2>1. memory' = memory /\ todo' = todo /\ clock' \in {clock, clock + 1}
    BY <1>1 DEF LogMessage, Pass, vars
  <2>2. clock' \in Nat /\ clock <= clock'
    BY <1>a, <2>1
  <2> QED BY <1>a, <1>b, <2>1, <2>2, SameWindows DEF WindowInv, TodoIsNew
<1>2. CASE Begin
  <2>1. /\ DOMAIN memory' = DOMAIN memory /\ clock' = clock + 1
        /\ \A c \in DOMAIN memory : /\ memory'[c].status = memory[c].status
                                    /\ memory'[c].from = memory[c].from /\ memory'[c].to = memory[c].to
        /\ todo' = {a \in Taken : \A c \in DOMAIN memory : c.content # a.cand.content}
    BY <1>2, <1>a, BeginEffect
  <2>2. \A a, b \in todo' : a.cand = b.cand => a = b
    <3>1. FirstOfPrefix(NewlySaid) \in SUBSET Occurrence
      BY <1>a, NewlySaidType DEF FirstOfPrefix
    <3> QED BY <2>1, <3>1, FirstIsOne DEF Taken
  <2>3. \A a \in todo', c \in DOMAIN memory' : a.cand # c
    BY <2>1
  <2> QED BY <1>a, <1>b, <2>1, <2>2, <2>3, SameWindows DEF WindowInv, TodoIsNew
<1>3. CASE Ask
  <2>1. /\ DOMAIN memory' = DOMAIN memory /\ clock' = clock /\ todo' = todo
        /\ \A c \in DOMAIN memory : /\ memory'[c].status = memory[c].status
                                    /\ memory'[c].from = memory[c].from /\ memory'[c].to = memory[c].to
    BY <1>3, <1>a, AskEffect
  <2> QED BY <1>a, <1>b, <2>1, SameWindows DEF WindowInv, TodoIsNew
<1> QED BY <1>1, <1>2, <1>3, CommitKeepsWindows DEF Next

(* So the windows are right throughout.                                    *)
LEMMA WindowsHold == Spec => []WindowInv
<1>1. Init => WindowInv
  BY DEF Init, WindowInv, Closed, OneActive, Sequential, TodoIsNew
<1>2. ShapeInv /\ WindowInv /\ [Next]_vars => WindowInv'
  BY WindowStep
<1> QED BY <1>1, <1>2, ShapesHold, PTL DEF Spec

(* At every moment at most one statement of a slot is valid, past moments  *)
(* included as long as nobody speaks of other times, and from now on in any*)
(* case, for logs of any length.                                           *)
THEOREM AtMostOneValueAtATime == Spec => []OneValueAtATime
<1>1. ASSUME ShapeInv, WindowInv
      PROVE  OneValueAtATime
  <2>a. clock \in Nat /\ \A c \in DOMAIN memory : memory[c] \in Node
    BY <1>1 DEF ShapeInv, TypeOK
  <2> SUFFICES ASSUME NEW when \in (IF Undated THEN 1 ELSE clock) .. MaxClock,
                      NEW c \in DOMAIN memory, NEW d \in DOMAIN memory, c.key # NoKey,
                      d \in ValidStatements(c.key, when), c \in ValidStatements(c.key, when)
               PROVE  c.statement = d.statement
    BY DEF OneValueAtATime
  <2>1. d.key = c.key /\ ValidAt(memory[c], when) /\ ValidAt(memory[d], when)
    BY DEF ValidStatements
  <2>2. when \in Int /\ (Undated \/ clock <= when)
    BY <2>a, Bounds
  <2>3. CASE Undated
    <3>1. c.statement # d.statement => Apart(memory[c], memory[d])
      BY <1>1, <2>1, <2>3 DEF WindowInv, Sequential
    <3>2. memory[c].from \in Nat /\ memory[d].from \in Nat
          /\ memory[c].to \in Nat \cup {NoDate} /\ memory[d].to \in Nat \cup {NoDate}
      BY <2>a DEF Node
    <3> QED BY <2>1, <2>2, <3>1, <3>2 DEF Apart, ValidAt
  <2>4. CASE clock <= when
    <3>1. ASSUME NEW e \in DOMAIN memory, ValidAt(memory[e], when)
          PROVE  memory[e].status = "active"
      <4>1. memory[e].status = "superseded" => memory[e].to \in Nat /\ memory[e].to <= clock
        BY <1>1 DEF WindowInv, Closed
      <4> QED BY <2>a, <2>2, <2>4, <3>1, <4>1, Sentinel DEF ValidAt, Node
    <3> QED BY <1>1, <2>1, <3>1 DEF WindowInv, OneActive
  <2> QED BY <2>2, <2>3, <2>4
<1> QED BY <1>1, ShapesHold, WindowsHold, PTL

(* The status and the window agree on the present: what is valid now is    *)
(* active, and without dates what is active is valid now.                  *)
THEOREM StatusAndWindowAgree == Spec => []NowIsCurrent
<1>1. ASSUME ShapeInv, WindowInv
      PROVE  NowIsCurrent
  <2>a. clock \in Nat /\ \A c \in DOMAIN memory : memory[c] \in Node
    BY <1>1 DEF ShapeInv, TypeOK
  <2>1. ASSUME NEW c \in DOMAIN memory, ValidAt(memory[c], clock)
        PROVE  memory[c].status = "active"
    <3>1. memory[c].status = "superseded" => memory[c].to \in Nat /\ memory[c].to <= clock
      BY <1>1 DEF WindowInv, Closed
    <3> QED BY <2>a, <2>1, <3>1, Sentinel DEF ValidAt, Node
  <2>2. ASSUME NEW c \in DOMAIN memory, Undated, memory[c].status = "active"
        PROVE  ValidAt(memory[c], clock)
    BY <1>1, <2>2 DEF WindowInv, Sequential, ValidAt
  <2> QED BY <2>1, <2>2 DEF NowIsCurrent
<1> QED BY <1>1, ShapesHold, WindowsHold, PTL

(* A moment before now keeps its answer: no step changes what is valid as  *)
(* of it, as long as nobody speaks of other times.                         *)
THEOREM ThePastIsStable == Spec => PastIsStable
<1> DEFINE Kept == Undated =>
             \A when \in 1 .. (clock - 1) :
               {c \in DOMAIN memory : ValidAt(memory[c], when)} =
               {c \in DOMAIN memory' : ValidAt(memory'[c], when)}
<1>1. ASSUME ShapeInv, WindowInv, [Next]_vars, Undated, NEW when \in 1 .. (clock - 1)
      PROVE  {c \in DOMAIN memory : ValidAt(memory[c], when)} =
             {c \in DOMAIN memory' : ValidAt(memory'[c], when)}
  <2>a. TypeOK /\ clock \in Nat /\ when \in Int /\ when < clock
    BY <1>1 DEF ShapeInv, TypeOK
  <2>1. ASSUME DOMAIN memory' = DOMAIN memory,
               \A c \in DOMAIN memory : memory'[c].from = memory[c].from /\ memory'[c].to = memory[c].to
        PROVE  {c \in DOMAIN memory : ValidAt(memory[c], when)} =
               {c \in DOMAIN memory' : ValidAt(memory'[c], when)}
    <3>1. \A c \in DOMAIN memory : ValidAt(memory[c], when) <=> ValidAt(memory'[c], when)
      BY <2>1 DEF ValidAt
    <3> QED BY <2>1, <3>1
  <2>2. CASE Commit
    <3>1. PICK a \in todo :
            /\ a \in Occurrence /\ a \in NewlySaid
            /\ DOMAIN memory' = DOMAIN memory \cup {a.cand}
            /\ memory'[a.cand] = NewNode(a)
            /\ \A c \in DOMAIN memory \ {a.cand} :
                 memory'[c] = IF c \in Contradicted(a) THEN Supersede(memory[c]) ELSE memory[c]
      BY <1>1, <2>2, CommitEffect, Zenon
    <3>2. a.cand \notin DOMAIN memory
      BY <1>1 DEF WindowInv, TodoIsNew
    <3>3. ~ValidAt(memory'[a.cand], when)
      BY <1>1, <2>a, <3>1, NoDates DEF ValidAt
    <3>4. ASSUME NEW c \in DOMAIN memory
          PROVE  ValidAt(memory[c], when) <=> ValidAt(memory'[c], when)
      <4>1. CASE c \in Contradicted(a)
        <5>1. memory[c].status = "active" /\ memory[c] \in Node
          BY <2>a, <4>1 DEF Contradicted, TypeOK
        <5>2. memory[c].to = NoDate
          BY <1>1, <5>1 DEF WindowInv, Sequential
        <5>3. memory'[c].from = memory[c].from /\ memory'[c].to = clock
          BY <2>a, <3>1, <3>2, <4>1, <5>1, NodeTypes
        <5> QED BY <2>a, <5>2, <5>3 DEF ValidAt
      <4>2. CASE c \notin Contradicted(a)
        BY <3>1, <3>2, <4>2
      <4> QED BY <4>1, <4>2
    <3> QED BY <3>1, <3>3, <3>4
  <2>3. CASE Begin
    BY <2>a, <2>1, <2>3, BeginEffect
  <2>4. CASE Ask
    BY <2>a, <2>1, <2>4, AskEffect
  <2>5. CASE memory' = memory
    BY <2>5
  <2> QED BY <1>1, <2>2, <2>3, <2>4, <2>5 DEF Next, LogMessage, Pass, vars
<1>2. ShapeInv /\ WindowInv /\ [Next]_vars => [Kept]_memory
  BY <1>1
<1> QED BY <1>2, ShapesHold, WindowsHold, PTL DEF Spec, PastIsStable

-----------------------------------------------------------------------------
(* Scores.  A part of a whole is a hundred hundredths at most.             *)
LEMMA PartOfWhole ==
  ASSUME NEW whole \in Nat, whole # 0, NEW part \in Nat, part <= whole
  PROVE  (100 * part) \div whole \in 0 .. 100
<1> DEFINE q == (100 * part) \div whole
<1>1. q \in Int /\ whole * q <= 100 * part /\ 100 * part < whole * (q + 1)
  BY Z3
<1>2. 100 * part <= 100 * whole /\ 0 <= 100 * part
  OBVIOUS
<1> HIDE DEF q
<1>3. ~(q > 100)
  <2>1. ASSUME q > 100 PROVE whole * q >= whole * 101
    BY <1>1, <2>1, Z3
  <2> QED BY <1>1, <1>2, <2>1, Z3
<1>4. ~(q < 0)
  <2>1. ASSUME q < 0 PROVE whole * (q + 1) <= 0
    BY <1>1, <2>1, Z3
  <2> QED BY <1>1, <1>2, <2>1, Z3
<1> QED BY <1>1, <1>3, <1>4 DEF q

(* Relevance and similarity of a node are hundredths of the best there is. *)
LEMMA FeaturesAreParts ==
  ASSUME ShapeInv, NEW q \in Queries, NEW c \in DOMAIN memory
  PROVE  Lexical(q, c) \in 0 .. 100 /\ Similarity(q, c) \in 0 .. 100
<1>1. \A d \in DOMAIN memory : d \in Candidates /\ q.relevance[d.content] \in Nat
  BY Scored DEF ShapeInv, TypeOK
<1>2. Similarity(q, c) \in 0 .. 100
  <2>1. c.content \in DOMAIN q.similarity
    BY <1>1, Scored
  <2>2. q.similarity[c.content] \in 0 .. 100
    BY <2>1, Hundredths
  <2> QED BY <2>2 DEF Similarity
<1> DEFINE f == Relevance(q)
<1>3. /\ DOMAIN f = DOMAIN memory /\ f = [d \in DOMAIN f |-> f[d]]
      /\ \A d \in DOMAIN f : f[d] = q.relevance[d.content]
  BY DEF Relevance
<1>4. Best(f) \in Nat /\ \A d \in DOMAIN f : f[d] <= Best(f)
  <2> HIDE DEF f
  <2> QED BY <1>1, <1>3, BestIsBest DEF ShapeInv
<1>5. Lexical(q, c) \in 0 .. 100
  <2>1. Lexical(q, c) = IF Best(f) = 0 THEN 0 ELSE (100 * q.relevance[c.content]) \div Best(f)
    BY DEF Lexical
  <2> HIDE DEF f
  <2>2. q.relevance[c.content] \in Nat /\ q.relevance[c.content] <= Best(f)
    BY <1>1, <1>3, <1>4
  <2>3. CASE Best(f) = 0
    BY <2>1, <2>3
  <2>4. CASE Best(f) # 0
    <3>1. (100 * q.relevance[c.content]) \div Best(f) \in 0 .. 100
      BY <1>4, <2>2, <2>4, PartOfWhole
    <3> QED BY <2>1, <2>4, <3>1
  <2> QED BY <2>3, <2>4
<1> QED BY <1>2, <1>5

(* The weights add up to more than one, but only a node that matches next  *)
(* to nothing by itself is scored as a neighbour: no score exceeds one.    *)
LEMMA BlendedIsBounded ==
  ASSUME ShapeInv, NEW ask, ask.query \in Queries, ask.strength \in [DOMAIN memory -> Strengths],
         NEW c \in MatchedNodes(ask)
  PROVE  c \in DOMAIN memory /\ Blended(c, ask) \in Nat /\ Blended(c, ask) <= 10000
<1>1. c \in DOMAIN memory
  BY DEF MatchedNodes, Anchors
<1> DEFINE sim == Similarity(ask.query, c)
           lex == Lexical(ask.query, c)
           strength == ask.strength[c]
           assoc == Association(c, ask)
           base == 55 * sim + 20 * lex + 15 * strength + 10 * c.confidence + 10 * assoc
<1>2. sim \in 0 .. 100 /\ lex \in 0 .. 100
  BY <1>1, FeaturesAreParts
<1>3. strength \in 0 .. 100 /\ c.confidence \in 0 .. 100
  BY <1>1, Hundredths DEF ShapeInv, TypeOK
<1>4. assoc = 0 \/ (assoc = 60 /\ sim < 30 /\ lex < 50)
  <2>1. CASE assoc = 0
    BY <2>1
  <2>2. CASE assoc # 0
    <3>1. assoc = 60 /\ c \notin Anchors(ask)
      BY <2>2 DEF Association
    <3>2. Eligible(memory[c], ask)
      BY <3>1 DEF MatchedNodes
    <3>3. ~(lex >= 50) /\ ~(sim >= 30)
      BY <1>1, <3>1, <3>2 DEF Anchors
    <3> HIDE DEF lex, sim, assoc
    <3> QED BY <1>2, <3>1, <3>3
  <2> QED BY <2>1, <2>2
<1>5. Blended(c, ask) \in {0, base} \/ (base > 3500 /\ Blended(c, ask) = base - 3500)
  <2> HIDE DEF base
  <2>1. \E penalty \in {0, 3500} : Blended(c, ask) = IF base > penalty THEN base - penalty ELSE 0
    BY DEF Blended, base
  <2>2. base \in Int
    <3> HIDE DEF sim, lex, strength, assoc
    <3> QED BY <1>2, <1>3, <1>4 DEF base
  <2> QED BY <2>1, <2>2
<1> DEFINE conf == c.confidence
<1>6. base \in Nat /\ base <= 10000
  <2> HIDE DEF sim, lex, strength, assoc, conf
  <2>1. base = 55 * sim + 20 * lex + 15 * strength + 10 * conf + 10 * assoc
    BY DEF base, conf
  <2>2. conf \in 0 .. 100
    BY <1>3 DEF conf
  <2>3. /\ sim \in Int /\ 0 <= sim /\ sim <= 100 /\ lex \in Int /\ 0 <= lex /\ lex <= 100
        /\ strength \in Int /\ 0 <= strength /\ strength <= 100
        /\ conf \in Int /\ 0 <= conf /\ conf <= 100
        /\ assoc \in Int /\ (assoc = 0 \/ (assoc = 60 /\ sim < 30 /\ lex < 50))
    BY <1>2, <1>3, <1>4, <2>2
  <2> HIDE DEF base
  <2> QED BY ONLY <2>1, <2>3
<1>7. Blended(c, ask) \in Nat /\ Blended(c, ask) <= 10000
  <2> HIDE DEF base
  <2> QED BY <1>5, <1>6
<1> QED BY <1>1, <1>7

(* What a query answers with comes from its three sources.                 *)
LEMMA AskAnswers ==
  ASSUME Ask
  PROVE  \E ask, results :
           /\ answer' = [ask |-> ask, results |-> results]
           /\ results \subseteq BufferResults(ask) \cup GraphResults(ask) \cup RawResults(ask)
           /\ ask.query \in Queries /\ ask.strength \in [DOMAIN memory -> Strengths]
<1>1. PICK q \in Queries, history, asOf \in BOOLEAN, when \in 1 .. clock,
           links \in SUBSET {p \in SUBSET DOMAIN memory : Cardinality(p) = 2},
           strength \in [DOMAIN memory -> Strengths] :
             LET ask == [query |-> q, history |-> history, asOf |-> asOf, when |-> when,
                         links |-> links, strength |-> strength]
             IN  /\ ~asOf => when = clock
                 /\ Query(ask)
                 /\ memory' = [c \in DOMAIN memory |->
                                 IF c \in MatchedNodes(ask) /\ memory[c].status = "active"
                                 THEN [memory[c] EXCEPT !.access = @ + 1] ELSE memory[c]]
  BY Zenon DEF Ask
<1> DEFINE ask == [query |-> q, history |-> history, asOf |-> asOf, when |-> when,
                   links |-> links, strength |-> strength]
<1>2. ask.query \in Queries /\ ask.strength \in [DOMAIN memory -> Strengths]
  OBVIOUS
<1>3. Query(ask)
  BY <1>1, Zenon
<1> HIDE DEF ask
<1> DEFINE graph == GraphResults(ask)
           all(best) == BufferResults(ask) \cup best \cup RawResults(ask)
           once(best) == {r \in all(best) : \A s \in all(best) \ {r} : s.content = r.content => Above(r, s)}
<1>4. PICK best \in TopK(graph) : \E top \in TopK(once(best)) : answer' = [ask |-> ask, results |-> top]
  BY <1>3, Zenon DEF Query
<1>5. PICK top \in TopK(once(best)) : answer' = [ask |-> ask, results |-> top]
  BY <1>4
<1>6. best \subseteq graph /\ top \subseteq once(best)
  BY <1>4, <1>5 DEF TopK
<1>7. top \subseteq BufferResults(ask) \cup GraphResults(ask) \cup RawResults(ask)
  BY <1>6
<1> QED BY <1>2, <1>5, <1>7, Zenon

(* The results of one source.                                              *)
LEMMA SourcesDiffer ==
  ASSUME NEW ask, NEW r \in BufferResults(ask) \cup GraphResults(ask) \cup RawResults(ask)
  PROVE  /\ r.source = "graph" => r \in GraphResults(ask)
         /\ r.source = "buffer" => r \in BufferResults(ask)
<1>1. \A s \in BufferResults(ask) : s.source = "buffer"
  BY DEF BufferResults
<1>2. \A s \in GraphResults(ask) : s.source = "graph"
  BY DEF GraphResults
<1>3. ASSUME NEW s \in RawResults(ask)
      PROVE  s.source = "raw_log"
  <2> DEFINE documents == {Text[log[i].message] : i \in {i \in DOMAIN log : log[i].time <= ask.when}}
             top == Best([d \in documents |-> ask.query.relevance[d]])
             score(d) == (5000 * ask.query.relevance[d]) \div top
             D == {d \in documents : ask.query.relevance[d] > 0}
  <2>1. RawResults(ask) = {[source |-> "raw_log", content |-> d, score |-> score(d)] : d \in D}
    BY DEF RawResults
  <2> HIDE DEF score, D
  <2> QED BY <2>1
<1> QED BY <1>1, <1>2, <1>3

(* A hit of the buffer scores more than any blend.                         *)
LEMMA BufferScores ==
  ASSUME TypeOK, NEW ask, NEW r \in BufferResults(ask)
  PROVE  r.score \in Int /\ r.score > 10000
<1>1. PICK e \in buffer : r.score = 20000 + e.o.index - 1
  <2>1. \A hits : CurrentHits(hits) \subseteq hits
    BY DEF CurrentHits
  <2>2. Hits(ask.query, ask.when) \subseteq buffer
    BY DEF Hits
  <2>3. \E e \in buffer : r = [source |-> "buffer", content |-> e.o.cand.content,
                                score |-> 20000 + e.o.index - 1]
    BY <2>1, <2>2 DEF BufferResults
  <2> QED BY <2>3
<1>2. e.o.index \in Nat
  BY DEF TypeOK, Occurrence
<1> QED BY <1>1, <1>2

(* What an answer says holds as long as it is there: while a batch is      *)
(* committed there is none.                                                *)
AnswerInv == (todo # {} => answer = NoAnswer) /\ BufferOutranksGraph /\ NothingIsDraggedIn

(* A query's answer is right in both respects.                             *)
LEMMA AskStep ==
  ASSUME ShapeInv, Ask
  PROVE  BufferOutranksGraph' /\ NothingIsDraggedIn'
<1>1. PICK ask, results :
        /\ answer' = [ask |-> ask, results |-> results]
        /\ results \subseteq BufferResults(ask) \cup GraphResults(ask) \cup RawResults(ask)
        /\ ask.query \in Queries /\ ask.strength \in [DOMAIN memory -> Strengths]
  BY AskAnswers
<1>2. answer'.ask = ask /\ answer'.results = results
  BY <1>1
<1>3. TypeOK
  BY DEF ShapeInv
<1>4. \A r \in Results("graph")' : r \in GraphResults(ask)
  BY <1>1, <1>2, SourcesDiffer DEF Results
<1>5. \A r \in Results("buffer")' : r \in BufferResults(ask)
  BY <1>1, <1>2, SourcesDiffer DEF Results
<1>6. ASSUME NEW g \in Results("graph")'
      PROVE  \E c \in MatchedNodes(ask) : g.content = c.content /\ g.score = Blended(c, ask)
  <2>1. \E c \in MatchedNodes(ask) :
          g = [source |-> "graph", content |-> c.content, score |-> Blended(c, ask)]
    BY <1>4 DEF GraphResults
  <2> QED BY <2>1
<1>7. BufferOutranksGraph'
  <2> SUFFICES ASSUME NEW g \in Results("graph")'
               PROVE  g.score <= 10000 /\ \A b \in Results("buffer")' : b.score > g.score
    BY DEF BufferOutranksGraph
  <2>1. PICK c \in MatchedNodes(ask) : g.score = Blended(c, ask)
    BY <1>6
  <2>2. g.score \in Nat /\ g.score <= 10000
    BY <1>1, <2>1, BlendedIsBounded
  <2>3. ASSUME NEW b \in Results("buffer")'
        PROVE  b.score > g.score
    <3>1. b.score \in Int /\ b.score > 10000
      BY <1>3, <1>5, BufferScores
    <3> QED BY <2>2, <3>1
  <2> QED BY <2>2, <2>3
<1>8. NothingIsDraggedIn'
  <2> SUFFICES ASSUME ~ask.history, ~ask.asOf, NEW g \in Results("graph")'
               PROVE  \E c \in DOMAIN memory' :
                        /\ c.content = g.content /\ memory'[c].status = "active"
                        /\ \/ /\ memory'[c].status = "active"
                              /\ Lexical(ask.query, c)' >= 50 \/ Similarity(ask.query, c) >= 30
                           \/ \E d \in DOMAIN memory' :
                                /\ {c, d} \in ask.links /\ memory'[d].status = "active"
                                /\ Lexical(ask.query, d)' >= 50 \/ Similarity(ask.query, d) >= 30
    BY <1>2 DEF NothingIsDraggedIn, Similarity
  <2>1. /\ DOMAIN memory' = DOMAIN memory
        /\ \A c \in DOMAIN memory : memory'[c].status = memory[c].status
    BY <1>3, AskEffect
  <2>2. Relevance(ask.query)' = Relevance(ask.query)
    BY <2>1 DEF Relevance
  <2>3. \A c : Lexical(ask.query, c)' = Lexical(ask.query, c)
    BY <2>2 DEF Lexical
  <2>4. \A d \in Anchors(ask) : /\ d \in DOMAIN memory /\ memory[d].status = "active"
                                /\ Lexical(ask.query, d) >= 50 \/ Similarity(ask.query, d) >= 30
    BY DEF Anchors, Eligible
  <2>5. PICK c \in MatchedNodes(ask) : g.content = c.content
    BY <1>6
  <2>6. CASE c \in Anchors(ask)
    BY <2>1, <2>3, <2>4, <2>5, <2>6
  <2>7. CASE c \notin Anchors(ask)
    <3>1. c \in DOMAIN memory /\ Association(c, ask) > 0 /\ memory[c].status = "active"
      BY <2>7 DEF MatchedNodes, Eligible
    <3>2. PICK d \in Anchors(ask) : {c, d} \in ask.links
      BY <3>1 DEF Association
    <3> QED BY <2>1, <2>3, <2>4, <2>5, <3>1, <3>2
  <2> QED BY <2>6, <2>7
<1> QED BY <1>7, <1>8

(* Every step keeps the answer right.                                      *)
LEMMA AnswerStep ==
  ASSUME ShapeInv, AnswerInv, [Next]_vars
  PROVE  AnswerInv'
<1>1. CASE answer' = NoAnswer /\ ~Ask
  BY <1>1 DEF AnswerInv, BufferOutranksGraph, NothingIsDraggedIn
<1>2. CASE Ask
  <2>1. todo' = {}
    BY <1>2 DEF Ask
  <2> QED BY <1>2, <2>1, AskStep DEF AnswerInv
<1>3. CASE Commit
  <2>1. todo # {} /\ answer' = answer
    BY <1>3 DEF Commit
  <2> QED BY <2>1 DEF AnswerInv, BufferOutranksGraph, NothingIsDraggedIn
<1>4. CASE UNCHANGED vars
  <2>1. /\ BufferOutranksGraph' = BufferOutranksGraph
        /\ NothingIsDraggedIn' = NothingIsDraggedIn
    BY <1>4 DEF vars, BufferOutranksGraph, NothingIsDraggedIn, Results, Lexical, Relevance, Similarity
  <2> QED BY <1>4, <2>1 DEF vars, AnswerInv
<1> QED BY <1>1, <1>2, <1>3, <1>4 DEF Next, LogMessage, Pass, Begin

(* So answers are right throughout.                                        *)
LEMMA AnswersHold == Spec => []AnswerInv
<1>1. Init => AnswerInv
  BY DEF Init, AnswerInv, BufferOutranksGraph, NothingIsDraggedIn
<1>2. ShapeInv /\ AnswerInv /\ [Next]_vars => AnswerInv'
  BY AnswerStep
<1> QED BY <1>1, <1>2, ShapesHold, PTL DEF Spec

(* Buffer hits outrank every result of the graph, whatever the scores and  *)
(* links, although the weights of the blend add up to 1.1.                 *)
THEOREM BufferComesFirst == Spec => []BufferOutranksGraph
<1>1. AnswerInv => BufferOutranksGraph
  BY DEF AnswerInv
<1> QED BY <1>1, AnswersHold, PTL

(* A default answer holds a node only if it is active and itself matches   *)
(* the query or is linked to an active node that does.                     *)
THEOREM NoSupersededAnchors == Spec => []NothingIsDraggedIn
<1>1. AnswerInv => NothingIsDraggedIn
  BY DEF AnswerInv
<1> QED BY <1>1, AnswersHold, PTL


-----------------------------------------------------------------------------
(* The buffer's filter and the graph decide one thing by different means:  *)
(* the filter compares all matches of a message, the graph commits only the*)
(* first of a statement and looks at what is active at that moment.  What  *)
(* connects them: memory is exactly the first occurrences committed so far,*)
(* each with the index it was said at, and one of them is active unless a  *)
(* later one that is committed contradicts it.                             *)
Firsts == FirstOccurrences(AllSaid)
Pending == IF todo = {} THEN {a \in Firsts : a.index > done} ELSE todo
Committed == Firsts \ Pending
Yields(a, b) ==
  /\ Before(a, b) /\ a.cand.statement # b.cand.statement
  /\ CorrectionSupersedes(b.cand, a.cand, b.index - a.index)
Ledger ==
  /\ todo \subseteq Firsts
  /\ \A a \in Committed, b \in Pending : Before(a, b)
  /\ DOMAIN memory = {a.cand : a \in Committed}
  /\ \A a \in Committed :
       /\ memory[a.cand].latest = a.index
       /\ memory[a.cand].status = "active" <=> ~\E b \in Committed : Yields(a, b)
LedgerInv == SaidOnce /\ Uncut => Ledger

(* Matches of one statement are in one message, as long as nothing is said *)
(* twice.                                                                  *)
LEMMA SameMessage ==
  ASSUME SaidOnce, NEW o \in AllSaid, NEW p \in AllSaid,
         o.cand.statement = p.cand.statement
  PROVE  o.index = p.index
BY DEF SaidOnce

(* First occurrences are some of what was said, one for a statement.       *)
LEMMA FirstsAreSaid ==
  ASSUME TypeOK
  PROVE  /\ Firsts \subseteq AllSaid
         /\ \A a, b \in Firsts : a.cand.statement = b.cand.statement => a = b
         /\ \A a \in Firsts, o \in AllSaid :
              o.cand.statement = a.cand.statement => o = a \/ Before(a, o)
<1>1. Firsts \subseteq AllSaid
  BY DEF Firsts, FirstOccurrences
<1>2. \A a, b \in Firsts : a.cand.statement = b.cand.statement => a = b
  BY AllSaidType, FirstIsOne DEF Firsts
<1>3. \A a \in Firsts, o \in AllSaid :
        o.cand.statement = a.cand.statement => o = a \/ Before(a, o)
  BY DEF Firsts, FirstOccurrences
<1> QED BY <1>1, <1>2, <1>3

(* Every statement has a last occurrence in its message.                    *)
LEMMA LastExists ==
  ASSUME ShapeInv, SaidOnce, NEW o \in AllSaid
  PROVE  \E p \in AllSaid :
           /\ p.cand.statement = o.cand.statement /\ p.index = o.index
           /\ \A q \in AllSaid : q.cand.statement = o.cand.statement => q.at <= p.at
<1> DEFINE same == {q \in AllSaid : q.cand.statement = o.cand.statement}
           m == log[o.index].message
           places == {q.at : q \in same}
<1>0. TypeOK
  BY DEF ShapeInv
<1>1. m \in Messages /\ Extract[m] \in Seq(Candidates)
  BY <1>0, AllSaidType, Shape
<1>2. places \subseteq 1 .. Len(Extract[m]) /\ places # {}
  <2>1. \A q \in same : q.index = o.index
    BY SameMessage
  <2>2. \A q \in same : q.at \in DOMAIN Extract[m]
    BY <1>0, <2>1, AllSaidType
  <2>3. DOMAIN Extract[m] = 1 .. Len(Extract[m])
    BY <1>1
  <2> QED BY <2>2, <2>3
<1>3. IsFiniteSet(places) /\ places \in SUBSET Nat
  <2>1. Len(Extract[m]) \in Nat
    BY <1>1
  <2>2. IsFiniteSet(1 .. Len(Extract[m]))
    BY <2>1, FS_Interval
  <2> HIDE DEF places
  <2>3. places \in SUBSET (1 .. Len(Extract[m])) /\ places \in SUBSET Nat
    BY <1>2, <2>1
  <2> QED BY <2>2, <2>3, FS_Subset
<1>4. \E x \in places : \A y \in places : y <= x
  <2> HIDE DEF places
  <2> QED BY <1>2, <1>3, Greatest
<1>5. PICK p \in same : \A q \in same : q.at <= p.at
  BY <1>4
<1>6. p.index = o.index
  BY SameMessage
<1> QED BY <1>5, <1>6

(* And a first one, which is the one that is committed.                    *)
LEMMA FirstExists ==
  ASSUME ShapeInv, SaidOnce, NEW o \in AllSaid
  PROVE  \E a \in Firsts :
           a.cand.statement = o.cand.statement /\ a.index = o.index /\ a.at <= o.at
<1> DEFINE same == {q \in AllSaid : q.cand.statement = o.cand.statement}
           m == log[o.index].message
           n == Len(Extract[m])
           places == {n - q.at : q \in same}
<1>0. TypeOK
  BY DEF ShapeInv
<1>1. m \in Messages /\ Extract[m] \in Seq(Candidates)
  BY <1>0, AllSaidType, Shape
<1>a. n \in Nat
  BY <1>1
<1>2. \A q \in same : q.index = o.index /\ q.at \in 1 .. n
  <2>1. \A q \in same : q.index = o.index
    BY SameMessage
  <2>2. \A q \in same : q.at \in DOMAIN Extract[m]
    BY <1>0, <2>1, AllSaidType
  <2>3. DOMAIN Extract[m] = 1 .. Len(Extract[m])
    BY <1>1
  <2> QED BY <2>1, <2>2, <2>3
<1> HIDE DEF n
<1>3. places \subseteq 0 .. n /\ places # {}
  <2>1. \A q \in same : n - q.at \in 0 .. n
    BY <1>a, <1>2
  <2> QED BY <2>1
<1>4. IsFiniteSet(places) /\ places \in SUBSET Nat
  <2>1. IsFiniteSet(0 .. n)
    BY <1>a, FS_Interval
  <2> HIDE DEF places
  <2>2. places \in SUBSET (0 .. n) /\ places \in SUBSET Nat
    BY <1>a, <1>3
  <2> QED BY <2>1, <2>2, FS_Subset
<1>5. \E x \in places : \A y \in places : y <= x
  <2> HIDE DEF places
  <2> QED BY <1>3, <1>4, Greatest
<1>6. PICK a \in same : \A q \in same : n - q.at <= n - a.at
  BY <1>5
<1>7. \A q \in same : a.at <= q.at
  BY <1>a, <1>2, <1>6
<1>8. a \in Firsts
  <2>1. ASSUME NEW q \in AllSaid \ {a}, a.cand.statement = q.cand.statement
        PROVE  Before(a, q)
    <3>1. q \in same /\ q.index = a.index /\ a.at <= q.at
      BY <1>2, <1>7, <2>1
    <3>2. a.cand = Extract[m][a.at] /\ q.cand = Extract[m][q.at]
      BY <1>0, <1>2, <3>1, AllSaidType
    <3>3. a.at # q.at
      BY <1>0, <2>1, <3>1, <3>2, AllSaidType
    <3>4. a.at \in Nat /\ q.at \in Nat
      BY <1>0, <2>1, AllSaidType
    <3> QED BY <3>1, <3>3, <3>4 DEF Before
  <2> QED BY <2>1 DEF Firsts, FirstOccurrences
<1> QED BY <1>2, <1>7, <1>8


(* An unchanged log has the same first occurrences, the same repetitions   *)
(* and the same cuts.                                                      *)
LEMMA SameSaid ==
  ASSUME UNCHANGED log
  PROVE  /\ AllSaid' = AllSaid /\ Firsts' = Firsts
         /\ (SaidOnce' <=> SaidOnce) /\ (Uncut' <=> Uncut)
<1>1. AllSaid' = AllSaid
  BY SaidStays
<1> QED BY <1>1 DEF Firsts, FirstOccurrences, Before, SaidOnce, Uncut

(* As long as nothing is said twice, a batch's first occurrences are those *)
(* of the whole log that are not consolidated yet.                         *)
LEMMA BatchFirsts ==
  ASSUME ShapeInv, SaidOnce
  PROVE  FirstOccurrences(NewlySaid) = {a \in Firsts : a.index > done}
<1>0. TypeOK /\ done \in Nat /\ Len(log) \in Nat /\ DOMAIN log = 1 .. Len(log)
  BY DEF ShapeInv, TypeOK
<1>1. NewlySaid = {o \in AllSaid : o.index > done}
  <2>1. \A i \in DOMAIN log : \A o \in Said(i) : o.index = i
    BY <1>0, SaidType
  <2>2. ASSUME NEW o \in NewlySaid
        PROVE  o \in AllSaid /\ o.index > done
    <3>1. PICK i \in (done + 1) .. Len(log) : o \in Said(i)
      BY DEF NewlySaid
    <3>2. i \in DOMAIN log /\ i > done
      BY <1>0, <3>1
    <3> QED BY <2>1, <3>1, <3>2 DEF AllSaid
  <2>3. ASSUME NEW o \in AllSaid, o.index > done
        PROVE  o \in NewlySaid
    <3>1. PICK i \in DOMAIN log : o \in Said(i)
      BY DEF AllSaid
    <3>2. i \in (done + 1) .. Len(log)
      BY <1>0, <2>1, <2>3, <3>1
    <3> QED BY <3>1, <3>2 DEF NewlySaid
  <2> QED BY <2>2, <2>3
<1>2. \A a, b \in AllSaid : a.cand.statement = b.cand.statement => a.index = b.index
  BY SameMessage
<1>3. ASSUME NEW a \in FirstOccurrences(NewlySaid)
      PROVE  a \in Firsts /\ a.index > done
  BY <1>1, <1>2 DEF Firsts, FirstOccurrences
<1>4. ASSUME NEW a \in Firsts, a.index > done
      PROVE  a \in FirstOccurrences(NewlySaid)
  BY <1>1, <1>4 DEF Firsts, FirstOccurrences
<1> QED BY <1>3, <1>4

(* And as long as nothing is cut, they are what the batch takes: the first *)
(* of what begins alike is then the first of a statement.                  *)
LEMMA NothingIsCut ==
  ASSUME ShapeInv, SaidOnce, Uncut
  PROVE  Taken = {a \in Firsts : a.index > done}
<1> DEFINE cut == FirstOfPrefix(NewlySaid)
<1>1. FirstOccurrences(NewlySaid) = {a \in Firsts : a.index > done}
  BY BatchFirsts
<1>2. NewlySaid \subseteq AllSaid /\ cut \subseteq NewlySaid /\ NewlySaid \in SUBSET Occurrence
  <2>1. TypeOK /\ \A i \in (done + 1) .. Len(log) : i \in DOMAIN log
    BY DEF ShapeInv, TypeOK
  <2> QED BY <2>1, NewlySaidType DEF NewlySaid, AllSaid, FirstOfPrefix
<1>3. FirstOccurrences(NewlySaid) \subseteq cut
  <2>1. ASSUME NEW a \in FirstOccurrences(NewlySaid), NEW b \in NewlySaid \ {a},
               a.cand.prefix = b.cand.prefix
        PROVE  Before(a, b)
    <3>1. a \in NewlySaid
      BY DEF FirstOccurrences
    <3>2. a.cand.statement = b.cand.statement
      BY <1>2, <2>1, <3>1 DEF Uncut
    <3> QED BY <2>1, <3>2 DEF FirstOccurrences
  <2> QED BY <2>1 DEF FirstOccurrences, FirstOfPrefix
<1>4. ASSUME NEW a \in FirstOccurrences(NewlySaid)
      PROVE  a \in FirstOccurrences(cut)
  <2> HIDE DEF cut
  <2> QED BY <1>2, <1>3 DEF FirstOccurrences
<1>5. ASSUME NEW a \in FirstOccurrences(cut)
      PROVE  a \in FirstOccurrences(NewlySaid)
  <2>1. a \in cut /\ a \in NewlySaid
    <3> HIDE DEF cut
    <3> QED BY <1>2 DEF FirstOccurrences
  <2>2. PICK b \in Firsts : b.cand.statement = a.cand.statement /\ b.index = a.index
    BY <1>2, <2>1, FirstExists
  <2>3. a.index > done
    <3>1. PICK i \in (done + 1) .. Len(log) : a \in Said(i)
      BY <2>1 DEF NewlySaid
    <3>2. TypeOK /\ i \in DOMAIN log /\ i > done
      BY <3>1 DEF ShapeInv, TypeOK
    <3> QED BY <3>1, <3>2, SaidType
  <2>4. b \in FirstOccurrences(NewlySaid)
    BY <1>1, <2>2, <2>3
  <2>5. b \in FirstOccurrences(cut)
    BY <1>4, <2>4
  <2>6. cut \in SUBSET Occurrence
    BY <1>2
  <2>7. a = b
    <3> HIDE DEF cut
    <3> QED BY <2>2, <2>5, <2>6, FirstIsOne
  <2> QED BY <2>4, <2>7
<1> HIDE DEF cut
<1> QED BY <1>1, <1>4, <1>5 DEF Taken, cut

(* A new message leaves the first occurrences of the others as they are.   *)
LEMMA OldFirsts ==
  ASSUME ShapeInv, NEW m \in Messages, NEW role \in Roles, LogMessage(m, role), SaidOnce', Uncut'
  PROVE  /\ SaidOnce /\ Uncut
         /\ Firsts' \subseteq Occurrence
         /\ {a \in Firsts' : a.index <= Len(log)} = Firsts
<1> PICK n \in Nat : n = Len(log)
  BY DEF ShapeInv, TypeOK
<1> DEFINE found == Found(n + 1, m)
<1>0. TypeOK /\ n + 1 \in Nat /\ DOMAIN log = 1 .. n
  BY DEF ShapeInv, TypeOK
<1>1. AllSaid' = AllSaid \cup found
  BY <1>0, SaidGrows
<1>2. found \subseteq Occurrence /\ \A o \in found : o.index = n + 1
  BY <1>0, FoundType
<1>3. AllSaid \subseteq Occurrence /\ \A o \in AllSaid : o.index \in 1 .. n
  BY <1>0, AllSaidType
<1> HIDE DEF found
<1>4. SaidOnce /\ Uncut
  BY <1>1 DEF SaidOnce, Uncut
<1>5. AllSaid = {o \in AllSaid' : o.index <= n}
  BY <1>0, <1>1, <1>2, <1>3
<1>8. \A o, p \in AllSaid' : o.cand.statement = p.cand.statement => o.index = p.index
  BY DEF SaidOnce
<1>9. Firsts' = {a \in AllSaid' : \A b \in AllSaid' \ {a} : a.cand.statement = b.cand.statement => Before(a, b)}
  BY DEF Firsts, FirstOccurrences
<1>10. Firsts = {a \in AllSaid : \A b \in AllSaid \ {a} : a.cand.statement = b.cand.statement => Before(a, b)}
  BY DEF Firsts, FirstOccurrences
<1>11. {a \in Firsts' : a.index <= n} = Firsts
  <2>1. ASSUME NEW a \in Firsts', a.index <= n
        PROVE  a \in Firsts
    BY <1>5, <1>9, <1>10, <2>1
  <2>2. ASSUME NEW a \in Firsts
        PROVE  a \in Firsts' /\ a.index <= n
    <3>1. a \in AllSaid' /\ a.index <= n
      BY <1>5, <1>10
    <3>2. \A b \in AllSaid' : a.cand.statement = b.cand.statement => b \in AllSaid
      BY <1>5, <1>8, <3>1
    <3> QED BY <1>9, <1>10, <3>1, <3>2
  <2> QED BY <2>1, <2>2
<1>12. Firsts' \subseteq Occurrence
  BY <1>1, <1>2, <1>3, <1>9
<1> QED BY <1>4, <1>11, <1>12

(* Before is a strict order of what was said.                              *)
LEMMA BeforeIsOrder ==
  ASSUME NEW a \in Occurrence, NEW b \in Occurrence
  PROVE  /\ ~(Before(a, b) /\ Before(b, a))
         /\ ~Before(a, a)
         /\ a.index < b.index => Before(a, b)
         /\ Before(a, b) => a.index <= b.index
BY DEF Before, Occurrence


(* The ledger depends on nothing but these.                                *)
LEMMA LedgerKept ==
  ASSUME Ledger, Firsts' = Firsts, Pending' = Pending, todo' \subseteq Firsts,
         DOMAIN memory' = DOMAIN memory,
         \A c \in DOMAIN memory : /\ memory'[c].status = memory[c].status
                                  /\ memory'[c].latest = memory[c].latest
  PROVE  Ledger'
<1>1. Committed' = Committed
  BY DEF Committed
<1>2. \A a, b : Yields(a, b)' = Yields(a, b)
  BY DEF Yields, Before, CorrectionSupersedes
<1>3. \A a \in Committed : a.cand \in DOMAIN memory
  BY DEF Ledger
<1>4. DOMAIN memory' = {a.cand : a \in Committed'} /\ \A a \in Committed', b \in Pending' : Before(a, b)
  BY <1>1 DEF Ledger
<1>5. \A a \in Committed' : /\ memory'[a.cand].latest = a.index
                            /\ memory'[a.cand].status = "active" <=> ~\E b \in Committed' : Yields(a, b)'
  BY <1>1, <1>2, <1>3 DEF Ledger
<1> QED BY <1>4, <1>5 DEF Ledger, Before

(* A message waits for the next batch.                                     *)
LEMMA LogKeepsLedger ==
  ASSUME ShapeInv, LedgerInv, NEW m \in Messages, NEW role \in Roles, LogMessage(m, role),
         SaidOnce', Uncut'
  PROVE  Ledger'
<1>0. /\ done \in Nat /\ Len(log) \in Nat /\ done <= Len(log)
      /\ todo = {} /\ UNCHANGED <<done, todo, memory>>
  BY DEF ShapeInv, TypeOK, LogMessage
<1>1. /\ Ledger /\ {a \in Firsts' : a.index <= Len(log)} = Firsts
  BY OldFirsts DEF LedgerInv
<1>2. Firsts' \subseteq Occurrence
  BY OldFirsts
<1>3. \A a \in Firsts' : a.index \in Nat
  BY <1>2 DEF Occurrence
<1>4. /\ Committed = {a \in Firsts : a.index <= done}
      /\ Committed' = {a \in Firsts' : a.index <= done}
      /\ Pending' = {a \in Firsts' : a.index > done}
  BY <1>0, <1>1, <1>3 DEF Committed, Pending
<1>5. Committed' = Committed
  BY <1>0, <1>1, <1>3, <1>4
<1>6. \A a \in Committed', b \in Pending' : Before(a, b)
  <2>1. ASSUME NEW a \in Committed', NEW b \in Pending'
        PROVE  Before(a, b)
    <3>1. a \in Occurrence /\ b \in Occurrence /\ a.index < b.index
      BY <1>0, <1>2, <1>3, <1>4
    <3> QED BY <3>1, BeforeIsOrder
  <2> QED BY <2>1
<1>7. \A a, b : Yields(a, b)' = Yields(a, b)
  BY DEF Yields, Before, CorrectionSupersedes
<1>8. DOMAIN memory' = {a.cand : a \in Committed'}
  BY <1>0, <1>1, <1>5 DEF Ledger
<1>9. \A a \in Committed' : /\ memory'[a.cand].latest = a.index
                            /\ memory'[a.cand].status = "active" <=> ~\E b \in Committed' : Yields(a, b)'
  BY <1>0, <1>1, <1>5, <1>7 DEF Ledger
<1> QED BY <1>0, <1>6, <1>8, <1>9 DEF Ledger, Before

(* A batch meets nothing that memory holds, and takes all that waits.      *)
LEMMA BeginKeepsLedger ==
  ASSUME ShapeInv, LedgerInv, Begin, SaidOnce', Uncut'
  PROVE  Ledger'
<1>0. TypeOK /\ todo = {} /\ Len(log) \in Nat /\ DOMAIN log = 1 .. Len(log)
  BY DEF ShapeInv, TypeOK, Begin
<1>1. /\ DOMAIN memory' = DOMAIN memory
      /\ \A c \in DOMAIN memory :
           /\ memory'[c].status = memory[c].status
           /\ memory'[c].latest \in
                {memory[c].latest} \cup {a.index : a \in {a \in Taken : a.cand.content = c.content}}
      /\ todo' = {a \in Taken : \A c \in DOMAIN memory : c.content # a.cand.content}
      /\ done' = (IF todo' = {} THEN Len(log) ELSE done) /\ UNCHANGED <<log, buffer>>
  BY <1>0, BeginEffect
<1>2. Firsts' = Firsts /\ SaidOnce /\ Uncut
  BY <1>1, SameSaid
<1>3. Ledger /\ Taken = Pending
  BY <1>0, <1>2, NothingIsCut DEF LedgerInv, Pending
<1>4. ASSUME NEW c \in DOMAIN memory, NEW a \in Pending
      PROVE  c.content # a.cand.content
  <2>1. PICK b \in Committed : c = b.cand
    BY <1>3 DEF Ledger
  <2>2. a \in Firsts /\ b \in Firsts /\ a # b
    BY <1>0, <2>1 DEF Committed, Pending
  <2>3. a.cand.statement # b.cand.statement
    BY <1>0, <2>2, FirstsAreSaid
  <2>4. a.cand \in Candidates /\ b.cand \in Candidates
    BY <1>0, <2>2, FirstsAreSaid, AllSaidType
  <2> QED BY <2>1, <2>3, <2>4, Matching
<1>5. todo' = Pending
  BY <1>1, <1>3, <1>4
<1>6. Pending' = Pending
  <2>1. CASE todo' = {}
    <3>1. \A a \in Firsts : a.index \in 1 .. Len(log)
      BY <1>0, FirstsAreSaid, AllSaidType
    <3>2. {a \in Firsts : a.index > Len(log)} = {}
      BY <1>0, <3>1
    <3> QED BY <1>1, <1>2, <1>5, <2>1, <3>2 DEF Pending
  <2>2. CASE todo' # {}
    BY <1>5, <2>2 DEF Pending
  <2> QED BY <2>1, <2>2
<1>7. \A c \in DOMAIN memory : memory'[c].latest = memory[c].latest
  BY <1>1, <1>3, <1>4
<1>8. todo' \subseteq Firsts'
  BY <1>0, <1>2, <1>5 DEF Pending
<1> QED BY <1>1, <1>2, <1>3, <1>6, <1>7, <1>8, LedgerKept

(* A commit moves one occurrence, the next, from the waiting to the others,*)
(* and supersedes exactly those that yield to it.                          *)
LEMMA CommitKeepsLedger ==
  ASSUME ShapeInv, LedgerInv, Commit, SaidOnce', Uncut'
  PROVE  Ledger'
<1>0. TypeOK /\ Len(log) \in Nat /\ DOMAIN log = 1 .. Len(log)
  BY DEF ShapeInv, TypeOK
<1>1. PICK a \in todo :
        /\ \A b \in todo \ {a} : Before(a, b)
        /\ a \in Occurrence
        /\ DOMAIN memory' = DOMAIN memory \cup {a.cand}
        /\ memory'[a.cand] = NewNode(a)
        /\ \A c \in DOMAIN memory \ {a.cand} :
             memory'[c] = IF c \in Contradicted(a) THEN Supersede(memory[c]) ELSE memory[c]
        /\ todo' = todo \ {a} /\ done' = (IF todo' = {} THEN Len(log) ELSE done)
        /\ UNCHANGED <<clock, log, buffer, answer>>
  BY CommitEffect, Zenon
<1>2. Firsts' = Firsts /\ Ledger
  BY <1>1, SameSaid DEF LedgerInv
<1>3. Pending = todo /\ Committed = Firsts \ todo /\ todo \subseteq Firsts
  BY <1>1, <1>2 DEF Pending, Committed, Ledger
<1>4. Pending' = todo \ {a}
  <2>1. CASE todo' = {}
    <3>1. \A b \in Firsts : b.index \in 1 .. Len(log)
      BY <1>0, FirstsAreSaid, AllSaidType
    <3>2. {b \in Firsts : b.index > Len(log)} = {}
      BY <1>0, <3>1
    <3> QED BY <1>1, <1>2, <2>1, <3>2 DEF Pending
  <2>2. CASE todo' # {}
    BY <1>1, <2>2 DEF Pending
  <2> QED BY <2>1, <2>2
<1>5. Committed' = Committed \cup {a} /\ a \notin Committed
  BY <1>1, <1>2, <1>3, <1>4 DEF Committed
<1>6. \A b \in Committed : Before(b, a)
  BY <1>1, <1>2, <1>3 DEF Ledger
<1>7. Firsts \subseteq Occurrence
  BY <1>0, FirstsAreSaid, AllSaidType
<1>8. \A b \in Committed : b.cand.statement # a.cand.statement /\ b.cand # a.cand
  BY <1>0, <1>1, <1>3, <1>5, FirstsAreSaid
<1>9. DOMAIN memory' = {b.cand : b \in Committed'}
  BY <1>1, <1>2, <1>5 DEF Ledger
<1>10. \A b, c \in Committed' : Yields(b, c)' = Yields(b, c)
  BY DEF Yields, Before, CorrectionSupersedes
<1>11. ~\E c \in Committed' : Yields(a, c)
  <2>1. \A c \in Committed' : ~Before(a, c)
    BY <1>1, <1>3, <1>5, <1>6, <1>7, BeforeIsOrder
  <2> QED BY <2>1 DEF Yields
<1>12. NewNode(a).latest = a.index /\ NewNode(a).status = "active"
  BY DEF NewNode
<1>13. ASSUME NEW b \in Committed
       PROVE  /\ memory'[b.cand].latest = b.index
              /\ memory'[b.cand].status = "active" <=> ~\E c \in Committed' : Yields(b, c)
  <2>1. /\ b.cand \in DOMAIN memory \ {a.cand} /\ memory[b.cand].latest = b.index
        /\ memory[b.cand].status = "active" <=> ~\E c \in Committed : Yields(b, c)
        /\ memory[b.cand] \in Node
    BY <1>0, <1>2, <1>8 DEF Ledger, TypeOK
  <2>2. b.cand \in Contradicted(a) <=> memory[b.cand].status = "active" /\ Yields(b, a)
    BY <1>6, <1>8, <2>1 DEF Contradicted, Yields
  <2>3. CASE b.cand \in Contradicted(a)
    <3>1. memory'[b.cand] = Supersede(memory[b.cand])
      BY <1>1, <2>1, <2>3
    <3>2. memory'[b.cand].latest = b.index /\ memory'[b.cand].status # "active"
      BY <1>0, <2>1, <3>1, NodeTypes
    <3> QED BY <1>5, <2>2, <2>3, <3>2
  <2>4. CASE b.cand \notin Contradicted(a)
    <3>1. memory'[b.cand] = memory[b.cand]
      BY <1>1, <2>1, <2>4
    <3> QED BY <1>5, <2>1, <2>2, <2>4, <3>1
  <2> QED BY <2>3, <2>4
<1>14. \A b \in Committed' : /\ memory'[b.cand].latest = b.index
                             /\ memory'[b.cand].status = "active" <=> ~\E c \in Committed' : Yields(b, c)'
  BY <1>1, <1>5, <1>10, <1>11, <1>12, <1>13
<1>15. \A b \in Committed', c \in Pending' : Before(b, c)
  BY <1>1, <1>2, <1>3, <1>4, <1>5 DEF Ledger
<1> QED BY <1>1, <1>2, <1>3, <1>9, <1>14, <1>15 DEF Ledger, Before

(* Every step keeps the ledger.                                            *)
LEMMA LedgerStep ==
  ASSUME ShapeInv, LedgerInv, [Next]_vars
  PROVE  LedgerInv'
<1> SUFFICES ASSUME SaidOnce', Uncut' PROVE Ledger'
  BY DEF LedgerInv
<1>1. CASE \E m \in Messages, role \in Roles : LogMessage(m, role)
  BY <1>1, LogKeepsLedger
<1>2. CASE Begin
  BY <1>2, BeginKeepsLedger
<1>3. CASE Commit
  BY <1>3, CommitKeepsLedger
<1>4. CASE Pass \/ Ask \/ UNCHANGED vars
  <2>1. /\ UNCHANGED <<log, buffer, done, todo>> /\ DOMAIN memory' = DOMAIN memory
        /\ \A c \in DOMAIN memory : /\ memory'[c].status = memory[c].status
                                    /\ memory'[c].latest = memory[c].latest
    <3>1. CASE Ask
      BY <3>1, AskEffect DEF ShapeInv
    <3>2. CASE Pass \/ UNCHANGED vars
      BY <3>2 DEF Pass, vars
    <3> QED BY <1>4, <3>1, <3>2
  <2>2. Firsts' = Firsts /\ SaidOnce /\ Uncut
    BY <2>1, SameSaid
  <2>3. Pending' = Pending /\ Ledger
    BY <2>1, <2>2 DEF Pending, LedgerInv
  <2>4. todo' \subseteq Firsts
    BY <2>1, <2>3 DEF Ledger
  <2> QED BY <2>1, <2>2, <2>3, <2>4, LedgerKept
<1> QED BY <1>1, <1>2, <1>3, <1>4 DEF Next

(* So it holds throughout.                                                 *)
LEMMA LedgerHolds == Spec => []LedgerInv
<1>1. Init => LedgerInv
  BY DEF Init, LedgerInv, Ledger, Committed, Pending, Firsts, FirstOccurrences, AllSaid
<1>2. ShapeInv /\ LedgerInv /\ [Next]_vars => LedgerInv'
  BY LedgerStep
<1> QED BY <1>1, <1>2, ShapesHold, PTL DEF Spec


(* Of two matches of one slot, the later in the message stays later than   *)
(* every match of the earlier one's statement, and a correction is the     *)
(* first match of its message.                                             *)
LEMMA NoneBetween ==
  ASSUME TypeOK, NEW o \in AllSaid, NEW p \in AllSaid, NEW q \in AllSaid,
         o.index = p.index, p.index = q.index, o.at <= p.at, p.at <= q.at,
         o.cand.statement = q.cand.statement, p.cand.key = o.cand.key, p.cand.key # NoKey
  PROVE  p.cand.statement = o.cand.statement
<1> DEFINE m == log[o.index].message
<1>1. /\ m \in Messages /\ {o.at, p.at, q.at} \subseteq DOMAIN Extract[m]
      /\ {o.at, p.at, q.at} \subseteq Nat
      /\ o.cand = Extract[m][o.at] /\ p.cand = Extract[m][p.at] /\ q.cand = Extract[m][q.at]
  BY AllSaidType
<1>2. CASE o.at < p.at /\ p.at < q.at
  <2> HIDE DEF m
  <2> QED BY <1>1, <1>2, Matching
<1>3. CASE o.at = p.at \/ p.at = q.at
  BY <1>1, <1>3
<1> QED BY <1>1, <1>2, <1>3

(* What a first occurrence yields to hides every match of its statement.   *)
LEMMA YieldingIsHidden ==
  ASSUME ShapeInv, SaidOnce, NEW a \in Firsts, NEW b \in Firsts, Yields(a, b),
         NEW o \in AllSaid, o.cand.statement = a.cand.statement
  PROVE  Before(o, b) /\ CorrectionSupersedes(b.cand, o.cand, b.index - o.index)
<1>0. TypeOK /\ a \in AllSaid /\ b \in AllSaid
  BY FirstsAreSaid DEF ShapeInv
<1>1. /\ o.index = a.index /\ o.cand.key = a.cand.key /\ o.cand.family = a.cand.family
      /\ {o.index, b.index, o.at, a.at, b.at} \subseteq Nat
      /\ a = o \/ Before(a, o)
  BY <1>0, SameMessage, AllSaidType, FirstsAreSaid, Matching
<1>2. CorrectionSupersedes(b.cand, o.cand, b.index - o.index)
  BY <1>1 DEF Yields, CorrectionSupersedes
<1>3. CASE b.index # a.index
  BY <1>1, <1>2, <1>3 DEF Yields, Before
<1>4. CASE b.index = a.index
  <2>1. b.cand.key = a.cand.key /\ b.cand.key # NoKey
    BY <1>1, <1>4 DEF Yields, CorrectionSupersedes
  <2>2. a.at <= b.at
    BY <1>1, <1>4 DEF Yields, Before
  <2>3. ~(b.at <= o.at)
    BY <1>0, <1>1, <1>4, <2>1, <2>2, NoneBetween DEF Yields
  <2> QED BY <1>1, <1>2, <1>4, <2>3 DEF Before
<1> QED BY <1>3, <1>4

(* What hides the last match of a statement makes its first one yield.     *)
LEMMA HiddenYields ==
  ASSUME ShapeInv, SaidOnce, NEW a \in Firsts, NEW o \in AllSaid, NEW p \in AllSaid,
         o.cand.statement = a.cand.statement,
         \A q \in AllSaid : q.cand.statement = o.cand.statement => q.at <= o.at,
         Before(o, p), CorrectionSupersedes(p.cand, o.cand, p.index - o.index)
  PROVE  \E b \in Firsts : Yields(a, b)
<1>0. TypeOK /\ a \in AllSaid
  BY FirstsAreSaid DEF ShapeInv
<1>1. PICK b \in Firsts : b.cand.statement = p.cand.statement /\ b.index = p.index /\ b.at <= p.at
  BY FirstExists
<1>2. b \in AllSaid
  BY <1>0, FirstsAreSaid
<1>3. /\ o.index = a.index /\ o.cand.key = a.cand.key /\ o.cand.family = a.cand.family
      /\ b.cand.key = p.cand.key /\ b.cand.family = p.cand.family
      /\ {o.index, p.index, o.at, p.at, a.at, b.at} \subseteq Nat
      /\ a = o \/ Before(a, o)
  BY <1>0, <1>1, <1>2, SameMessage, AllSaidType, FirstsAreSaid, Matching
<1>4. p.cand.statement # o.cand.statement
  <2> SUFFICES ASSUME p.cand.statement = o.cand.statement PROVE FALSE
    OBVIOUS
  <2>1. p.index = o.index /\ p.at <= o.at
    BY SameMessage
  <2> QED BY <1>3, <2>1 DEF Before
<1>5. CASE p.index # o.index
  <2>1. Before(a, b)
    BY <1>1, <1>3, <1>5 DEF Before
  <2>2. p.cand.correction => b = p
    <3>1. p.cand.correction => p.at = 1
      <4>1. /\ log[p.index].message \in Messages /\ p.at \in DOMAIN Extract[log[p.index].message]
            /\ p.cand = Extract[log[p.index].message][p.at]
        BY <1>0, AllSaidType
      <4> QED BY <4>1, Matching
    <3>2. b.at \in DOMAIN Extract[log[p.index].message] /\ log[p.index].message \in Messages
      BY <1>0, <1>1, <1>2, AllSaidType
    <3>3. b.at >= 1
      BY <3>2, Shape
    <3>4. /\ b = [cand |-> b.cand, index |-> b.index, at |-> b.at]
          /\ p = [cand |-> p.cand, index |-> p.index, at |-> p.at]
          /\ b.cand = Extract[log[b.index].message][b.at] /\ p.cand = Extract[log[p.index].message][p.at]
      BY <1>0, <1>2, AllSaidType
    <3>5. ASSUME p.cand.correction
          PROVE  b = p
      <4>1. b.at = p.at
        BY <1>1, <1>3, <3>1, <3>3, <3>5
      <4>2. b.index = p.index /\ b.cand = p.cand
        BY <1>1, <3>4, <4>1
      <4> QED BY <3>4, <4>1, <4>2, Zenon
    <3> QED BY <3>5
  <2>3. CorrectionSupersedes(b.cand, a.cand, b.index - a.index)
    BY <1>1, <1>3, <2>2 DEF CorrectionSupersedes
  <2> QED BY <1>1, <1>4, <2>1, <2>3 DEF Yields
<1>6. CASE p.index = o.index
  <2>1. p.cand.key = o.cand.key /\ p.cand.key # NoKey
    BY <1>3, <1>6 DEF CorrectionSupersedes
  <2>2. a.index = b.index /\ a.at <= p.at
    BY <1>1, <1>3, <1>6 DEF Before
  <2>3. ~(b.at <= a.at)
    BY <1>0, <1>1, <1>2, <1>3, <1>4, <1>6, <2>1, <2>2, NoneBetween
  <2>4. Before(a, b)
    BY <1>3, <2>2, <2>3 DEF Before
  <2> QED BY <1>1, <1>3, <1>4, <2>1, <2>4 DEF Yields, CorrectionSupersedes
<1> QED BY <1>5, <1>6

(* The buffer's filter and consolidation agree: once everything said is    *)
(* consolidated, in whatever batches, and as long as nothing was said twice*)
(* and nothing was cut, the statements of the buffer that a default answer *)
(* keeps (engine.py:140) differ from those the graph has active            *)
(* (pipeline.py:356) only by what the assistant said or superseded, for any*)
(* window, any messages and any matches the patterns can produce.          *)
THEOREM BufferAndGraphAgree == Spec => []BufferAgreesWithGraph
<1> DEFINE heard == {e.o : e \in buffer}
           kept == {e.o.cand.statement : e \in CurrentHits(buffer)}
<1>1. ASSUME ShapeInv, LedgerInv, done = Len(log), todo = {}, SaidOnce, Uncut
      PROVE  /\ ActiveStatements \subseteq kept \cup {o.cand.statement : o \in Unheard}
             /\ \A e \in CurrentHits(buffer) :
                  e.o.cand.statement \in ActiveStatements \/ \E o \in Unheard : Hides(o, e.o)
  <2>0. /\ TypeOK /\ Ledger /\ Len(log) \in Nat /\ DOMAIN log = 1 .. Len(log)
        /\ heard \subseteq AllSaid
    BY <1>1 DEF ShapeInv, TypeOK, LedgerInv
  <2>1. Committed = Firsts
    <3>1. \A a \in Firsts : a.index \in 1 .. Len(log)
      BY <2>0, FirstsAreSaid, AllSaidType
    <3>2. \A a \in Firsts : ~(a.index > done)
      BY <1>1, <2>0, <3>1
    <3> QED BY <1>1, <3>2 DEF Committed, Pending
  <2>2. \A e \in buffer : e.o \in heard /\ e.o \in AllSaid
    BY <2>0
  <2>3. \A a \in Firsts : /\ a.cand \in DOMAIN memory
                          /\ memory[a.cand].status = "active" <=> ~\E b \in Firsts : Yields(a, b)
    BY <2>0, <2>1 DEF Ledger
  <2>4. ASSUME NEW e \in CurrentHits(buffer), e.o.cand.statement \notin ActiveStatements
        PROVE  \E o \in Unheard : Hides(o, e.o)
    <3>1. e \in buffer /\ e.o \in AllSaid
      BY <2>2 DEF CurrentHits
    <3>2. \A o \in heard : ~Hides(o, e.o)
      BY DEF CurrentHits
    <3>3. PICK a \in Firsts : a.cand.statement = e.o.cand.statement
      BY <1>1, <3>1, FirstExists
    <3>4. PICK b \in Firsts : Yields(a, b)
      <4>1. memory[a.cand].status # "active"
        BY <2>3, <2>4, <3>3 DEF ActiveStatements
      <4> QED BY <2>3, <4>1
    <3>5. Hides(b, e.o)
      BY <1>1, <3>1, <3>3, <3>4, YieldingIsHidden DEF Hides
    <3>6. b \in Unheard
      BY <2>0, <3>2, <3>5, FirstsAreSaid DEF Unheard
    <3> QED BY <3>5, <3>6
  <2>5. ASSUME NEW c \in DOMAIN memory, memory[c].status = "active",
               \A o \in Unheard : o.cand.statement # c.statement
        PROVE  c.statement \in kept
    <3>1. PICK a \in Firsts : a.cand = c
      BY <2>0, <2>1 DEF Ledger
    <3>2. a \in AllSaid /\ ~\E b \in Firsts : Yields(a, b)
      BY <2>0, <2>3, <2>5, <3>1, FirstsAreSaid
    <3>3. PICK o \in AllSaid : /\ o.cand.statement = a.cand.statement
                               /\ \A q \in AllSaid : q.cand.statement = a.cand.statement => q.at <= o.at
      BY <1>1, <3>2, LastExists
    <3>4. \A p \in AllSaid : ~Hides(p, o)
      BY <1>1, <3>2, <3>3, HiddenYields DEF Hides
    <3>5. PICK e \in buffer : e.o = o
      BY <2>5, <3>1, <3>3 DEF Unheard
    <3>6. e \in CurrentHits(buffer)
      BY <2>2, <3>4, <3>5 DEF CurrentHits
    <3> QED BY <3>1, <3>3, <3>5, <3>6
  <2>6. ActiveStatements \subseteq kept \cup {o.cand.statement : o \in Unheard}
    <3> HIDE DEF kept
    <3> QED BY <2>5 DEF ActiveStatements
  <2> QED BY <2>4, <2>6
<1>2. ShapeInv /\ LedgerInv => BufferAgreesWithGraph
  BY <1>1 DEF BufferAgreesWithGraph
<1> QED BY <1>2, ShapesHold, LedgerHolds, PTL

=============================================================================
