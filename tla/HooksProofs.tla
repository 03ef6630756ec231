---------------------------- MODULE HooksProofs ----------------------------
(***************************************************************************)
(* Theorems about Hooks for any sessions, processes, texts and bounds.     *)
(* Whoever is killed and however the processes overlap: every variable     *)
(* keeps its shape, the buffer survives in the WAL and a turn's reply is   *)
(* logged once; processes that do not overlap keep the progress file       *)
(* readable; and if the JSON store is not shared, what the progress file   *)
(* claims is in the graph, so that the processes implement LastingMemory.  *)
(***************************************************************************)
EXTENDS Hooks, FiniteSetTheorems, TLAPS

(* Every process has the kind and the session of its role, and is where a  *)
(* process of its kind can be.                                             *)
Consolidates == {"state", "pick", "store", "open", "write", "rename"}
Employed(p) ==
  /\ p \in HookProcesses => /\ process[p].kind \in {"prompt", "stop", "end"}
                            /\ process[p].session \in ClaudeSessions
  /\ p \in Commands => process[p].kind = "consolidate"
  /\ p \in Servers => process[p].kind = "server" /\ process[p].session \in ServerSessions
  /\ process[p].kind = "prompt" => process[p].pc \in {"log", "suspend"} /\ process[p].text \in Prompts
  /\ process[p].kind = "stop" => process[p].pc \in {"log", "suspend"} /\ process[p].text \in Replies
  /\ process[p].kind = "end" => process[p].pc \in Consolidates \cup {"suspend", "clear"}
  /\ process[p].kind = "consolidate" => process[p].pc \in Consolidates \cup {"suspend"}
  /\ process[p].kind = "server" => process[p].pc \in Consolidates \cup {"idle"}
Roles == \A p \in Alive : Employed(p)

(* A log has one writer at a time, which counts right and started when     *)
(* there was room.                                                         *)
Writers == Alive \ Commands
Logs ==
  /\ \A s \in Sessions : Len(log[s]) <= MaxLog
  /\ \A p, q \in Writers : process[p].session = process[q].session => p = q
  /\ \A p \in Writers :
       /\ process[p].index = Len(log[process[p].session])
       /\ process[p].pc = "log" => Len(log[process[p].session]) < MaxLog

(* The buffer of a hook has what earlier prompts of the session left and,  *)
(* once it is logged, its own.                                             *)
InWal(s, i) == log[s][i].text \in Buffered => wal[s] # NoFile /\ <<log[s][i].text, i>> \in wal[s]
InBuffer(p, s, i) == log[s][i].text \in Buffered => <<log[s][i].text, i>> \in process[p].buffer
Buffers ==
  /\ \A s \in ClaudeSessions : \A i \in kept[s] : i \in 1 .. Len(log[s]) /\ InWal(s, i)
  /\ \A p \in Alive \cap HookProcesses :
       /\ \A i \in kept[process[p].session] : InBuffer(p, process[p].session, i)
       /\ process[p].kind = "end" => kept[process[p].session] = {}
       /\ process[p].kind = "prompt" /\ process[p].pc = "suspend" =>
            /\ process[p].index >= 1
            /\ InBuffer(p, process[p].session, process[p].index)

(* A reply that was logged in this turn is the last entry of its log.      *)
Turns ==
  /\ \A s \in ClaudeSessions :
       /\ turn[s].answers <= 1
       /\ turn[s].answers = 1 => /\ turn[s].reply # NoText /\ log[s] # <<>>
                                 /\ log[s][Len(log[s])] = Entry("assistant", turn[s].reply)
  /\ \A p \in Alive \cap HookProcesses :
       /\ process[p].kind = "stop" => turn[process[p].session].reply = process[p].text
       /\ process[p].kind # "stop" => turn[process[p].session].answers = 0

(* Without overlap the temporary file is the writer's own.                 *)
Alone ==
  backend \notin Shared =>
    /\ \A p, q \in Alive : p = q
    /\ Readable
    /\ \A p \in Alive :
         /\ process[p].pc = "write" => process[p].handle = "tmp" /\ tmp = Empty
         /\ process[p].pc = "rename" => tmp = process[p].state

(* Progress states never run ahead of the logs, what they claim is stored  *)
(* or, of the state of a process before its store, about to be; only what  *)
(* was said is in any graph.  A process would save the whole stored graph: *)
(* the JSON store, which replaces it, by being alone since it was loaded.  *)
TextsBelow(l, state) == (UNION {{l[s][i].text : i \in 1 .. state[s]} : s \in Sessions}) \cap Memorable
TextsOf(l) == (UNION {{l[s][i].text : i \in DOMAIN l[s]} : s \in Sessions}) \cap Memorable
Fits(state, l) == \A s \in Sessions : state[s] <= Len(l[s])
WouldSave(r, b, g) == IF b = "json" THEN r.memory ELSE g \cup r.dirty
TrueOf(file, l, g) == file \in Progress => Fits(file, l) /\ TextsBelow(l, file) \subseteq g
Sound(r, b, l, g) ==
  /\ Fits(r.state, l)
  /\ r.pc # "store" => TextsBelow(l, r.state) \subseteq g
  /\ TextsBelow(l, r.state) \subseteq WouldSave(r, b, g)
  /\ g \subseteq WouldSave(r, b, g)
  /\ r.memory \subseteq TextsOf(l) /\ r.dirty \subseteq TextsOf(l)
Claims ==
  /\ TrueOf(progress, log, graph) /\ TrueOf(tmp, log, graph)
  /\ graph \subseteq TextsOf(log)
  /\ \A p \in Alive : Sound(process[p], backend, log, graph)

-----------------------------------------------------------------------------
(* What the operators that start, log and go on do to the processes.       *)
(* Sessions of Claude Code and of the server are sessions.                 *)
LEMMA SessionSets == ClaudeSessions \subseteq Sessions /\ ServerSessions \subseteq Sessions
BY DEF Sessions

(* A process that is alive is a process record.                            *)
LEMMA ProcessType ==
  ASSUME TypeOK, NEW p \in Processes, p \in Alive
  PROVE  process[p] \in Process
BY DEF TypeOK, Alive

(* So many numbers are there from one to n.                                *)
LEMMA Upto ==
  ASSUME NEW n \in Nat
  PROVE  IsFiniteSet(1 .. n) /\ Cardinality(1 .. n) = n
<1>1. 1 \in Int /\ n \in Int
  OBVIOUS
<1>2. /\ IsFiniteSet(1 .. n)
      /\ Cardinality(1 .. n) = IF 1 > n THEN 0 ELSE n - 1 + 1
  BY <1>1, FS_Interval
<1> QED BY <1>2

(* Room means that no log is full.                                         *)
LEMMA RoomEverywhere ==
  ASSUME TypeOK, Room, NEW s \in Sessions
  PROVE  Len(log[s]) < MaxLog
<1> DEFINE f == [r \in Sessions |-> {r} \X DOMAIN log[r]]
           all == {{r} \X DOMAIN log[r] : r \in Sessions}
<1>1. \A r \in Sessions : /\ DOMAIN log[r] = 1 .. Len(log[r]) /\ Len(log[r]) \in Nat
  BY DEF TypeOK
<1>2. ASSUME NEW r \in Sessions
      PROVE  IsFiniteSet(1 .. Len(log[r])) /\ Cardinality(1 .. Len(log[r])) = Len(log[r])
  BY <1>1, Upto
<1>3. ASSUME NEW r \in Sessions
      PROVE  /\ IsFiniteSet({r} \X DOMAIN log[r])
             /\ Cardinality({r} \X DOMAIN log[r]) = Len(log[r])
  <2>1. IsFiniteSet({r}) /\ Cardinality({r}) = 1
    BY FS_Singleton
  <2>2. IsFiniteSet(DOMAIN log[r]) /\ Cardinality(DOMAIN log[r]) = Len(log[r])
    BY <1>1, <1>2
  <2>3. /\ IsFiniteSet({r} \X DOMAIN log[r])
        /\ Cardinality({r} \X DOMAIN log[r]) = 1 * Len(log[r])
    <3> DEFINE one == {r}
               positions == DOMAIN log[r]
    <3> HIDE DEF one, positions
    <3>1. /\ IsFiniteSet(one \X positions)
          /\ Cardinality(one \X positions) = Cardinality(one) * Cardinality(positions)
      BY <2>1, <2>2, FS_Product DEF one, positions
    <3> QED BY <2>1, <2>2, <3>1 DEF one, positions
  <2> QED BY <1>1, <2>3
<1>4. IsFiniteSet(all)
  <2>1. f \in Surjection(Sessions, all)
    BY DEF Surjection
  <2> QED BY <2>1, FiniteSessions, FS_Surjection
<1>5. \A T \in all : IsFiniteSet(T)
  BY <1>3
<1>6. IsFiniteSet(UNION all)
  BY <1>4, <1>5, FS_UNION
<1>7. {s} \X DOMAIN log[s] \in SUBSET UNION all
  OBVIOUS
<1>8. Cardinality({s} \X DOMAIN log[s]) <= Cardinality(UNION all)
  BY <1>6, <1>7, FS_Subset
<1>9. Cardinality(UNION all) \in Nat /\ Cardinality(UNION all) < MaxLog
  BY <1>6, FS_CardinalityType DEF Room
<1> DEFINE own == Cardinality({s} \X DOMAIN log[s])
           total == Cardinality(UNION all)
<1>10. own = Len(log[s]) /\ own <= total /\ total \in Nat /\ total < MaxLog
  BY <1>3, <1>8, <1>9
<1> HIDE DEF own, total
<1> QED BY <1>1, <1>10, Bounds

(* A process that starts.                                                  *)
LEMMA StartEffect ==
  ASSUME TypeOK, NEW p \in Processes, NEW kind, NEW s, NEW text, NEW pc,
         StartSession(p, kind, s, text, pc)
  PROVE  /\ p \notin Alive /\ UNCHANGED <<backend, log, wal, graph, progress, tmp>>
         /\ backend \notin Shared => Alive = {}
         /\ \A q \in Processes \ {p} : process'[q] = process[q]
         /\ process'[p].kind = kind /\ process'[p].session = s /\ process'[p].text = text
         /\ process'[p].pc = pc /\ process'[p].memory = graph /\ process'[p].dirty = {}
         /\ process'[p].state = Untouched /\ process'[p].handle = "gone"
         /\ process'[p].buffer = Recovered(s) /\ process'[p].index = CountExisting(s)
         /\ \A q \in Alive' : q = p \/ q \in Alive
<1>1. /\ p \notin Alive /\ UNCHANGED <<backend, log, wal, graph, progress, tmp>>
      /\ backend \notin Shared => Alive = {}
  BY DEF StartSession, files
<1> DEFINE r == [kind |-> kind, session |-> s, text |-> text, pc |-> pc, memory |-> graph,
                 dirty |-> {}, buffer |-> Recovered(s), index |-> CountExisting(s),
                 state |-> Untouched, todo |-> {}, handle |-> "gone"]
<1>2. process' = [process EXCEPT ![p] = r]
  BY DEF StartSession
<1>3. /\ r.kind = kind /\ r.session = s /\ r.text = text
      /\ r.pc = pc /\ r.memory = graph /\ r.dirty = {}
      /\ r.state = Untouched /\ r.handle = "gone"
      /\ r.buffer = Recovered(s) /\ r.index = CountExisting(s)
  OBVIOUS
<1> HIDE DEF r
<1>4. process'[p] = r /\ \A q \in Processes \ {p} : process'[q] = process[q]
  BY <1>2 DEF TypeOK
<1>5. \A q \in Alive' : q = p \/ q \in Alive
  BY <1>4 DEF Alive
<1> QED BY <1>1, <1>3, <1>4, <1>5

(* A process that becomes something else, alone.                           *)
LEMMA BecomesEffect ==
  ASSUME TypeOK, NEW p \in Processes, NEW r, Becomes(p, r)
  PROVE  /\ process'[p] = r
         /\ \A q \in Processes \ {p} : process'[q] = process[q]
         /\ r \in Process => process' \in [Processes -> Process \cup {NoProcess}]
BY DEF Becomes, TypeOK
(* A process that is gone.                                                 *)
LEMMA ExitsEffect ==
  ASSUME TypeOK, NEW p \in Processes, Exits(p)
  PROVE  /\ process' \in [Processes -> Process \cup {NoProcess}]
         /\ \A q \in Processes \ {p} : process'[q] = process[q]
         /\ \A q \in Alive' : q # p /\ q \in Alive
BY DEF Exits, TypeOK, Alive

(* A process that logs a message.                                          *)
HasLogged(p, role, t, pc) ==
  /\ UNCHANGED <<backend, wal, graph, progress, tmp>>
  /\ log' \in [Sessions -> Seq([role : {"user", "assistant"}, text : Texts])]
  /\ Len(log'[process[p].session]) = Len(log[process[p].session]) + 1
  /\ log'[process[p].session][Len(log'[process[p].session])] = Entry(role, t)
  /\ \A s \in Sessions : /\ s # process[p].session => log'[s] = log[s]
                         /\ Len(log[s]) <= Len(log'[s])
                         /\ \A i \in 1 .. Len(log[s]) : log'[s][i] = log[s][i]
  /\ process'[p].index = process[p].index + 1 /\ process'[p].pc = pc
  /\ process[p].buffer \subseteq process'[p].buffer
  /\ role = "user" /\ t \in Buffered =>
       <<t, process[p].index + 1>> \in process'[p].buffer
  /\ process'[p].kind = process[p].kind /\ process'[p].session = process[p].session
  /\ process'[p].text = process[p].text /\ process'[p].memory = process[p].memory
  /\ process'[p].dirty = process[p].dirty /\ process'[p].state = process[p].state
  /\ process'[p].handle = process[p].handle
  /\ \A q \in Processes \ {p} : process'[q] = process[q]
  /\ \A q \in Alive' : q \in Alive

(* Logging has these effects.                                              *)
LEMMA LogEffect ==
  ASSUME TypeOK, NEW p \in Processes, p \in Alive, process[p].session \in Sessions,
         NEW role \in {"user", "assistant"}, NEW t \in Texts, NEW pc, LogMessage(p, role, t, pc)
  PROVE  HasLogged(p, role, t, pc)
<1> DEFINE s == process[p].session
<1>1. Entry(role, t) \in [role : {"user", "assistant"}, text : Texts]
  BY DEF Entry
<1>2. log' = [log EXCEPT ![s] = Append(log[s], Entry(role, t))]
  BY DEF LogMessage
<1>3. log \in [Sessions -> Seq([role : {"user", "assistant"}, text : Texts])]
  BY DEF TypeOK
<1>4. log[s] \in Seq([role : {"user", "assistant"}, text : Texts])
  BY <1>3
<1>5. /\ Append(log[s], Entry(role, t)) \in Seq([role : {"user", "assistant"}, text : Texts])
      /\ Len(Append(log[s], Entry(role, t))) = Len(log[s]) + 1
      /\ Append(log[s], Entry(role, t))[Len(log[s]) + 1] = Entry(role, t)
      /\ \A i \in 1 .. Len(log[s]) : Append(log[s], Entry(role, t))[i] = log[s][i]
  BY <1>1, <1>4
<1>6. log'[s] = Append(log[s], Entry(role, t)) /\ \A r \in Sessions \ {s} : log'[r] = log[r]
  BY <1>2, <1>3
<1>7. log' \in [Sessions -> Seq([role : {"user", "assistant"}, text : Texts])]
  BY <1>2, <1>3, <1>5
<1>8. \A r \in Sessions : Len(log[r]) \in Nat
  BY <1>3
<1>9. \A r \in Sessions : /\ Len(log[r]) <= Len(log'[r])
                          /\ \A i \in 1 .. Len(log[r]) : log'[r][i] = log[r][i]
  <2> TAKE r \in Sessions
  <2>1. CASE r = s
    <3> DEFINE longer == Append(log[s], Entry(role, t))
    <3>1. /\ log'[s] = longer /\ Len(longer) = Len(log[s]) + 1
          /\ \A i \in 1 .. Len(log[s]) : longer[i] = log[s][i]
      BY <1>5, <1>6
    <3> HIDE DEF longer
    <3> QED BY <1>8, <2>1, <3>1
  <2>2. CASE r # s
    BY <1>6, <1>8, <2>2
  <2> QED BY <2>1, <2>2
<1>10. Becomes(p, [process[p] EXCEPT !.index = process[p].index + 1, !.pc = pc,
                     !.buffer = IF role = "user" /\ t \in Buffered
                                THEN process[p].buffer \cup {<<t, process[p].index + 1>>}
                                ELSE process[p].buffer])
  BY DEF LogMessage
<1>11. process[p] \in Process
  BY ProcessType
<1> DEFINE buffer == IF role = "user" /\ t \in Buffered
                     THEN process[p].buffer \cup {<<t, process[p].index + 1>>}
                     ELSE process[p].buffer
           entry == <<t, process[p].index + 1>>
<1>12. /\ process[p].buffer \subseteq buffer
       /\ role = "user" /\ t \in Buffered => entry \in buffer
  BY DEF buffer, entry
<1>13. Becomes(p, [process[p] EXCEPT !.index = process[p].index + 1, !.pc = pc, !.buffer = buffer])
  BY <1>10 DEF buffer
<1> HIDE DEF buffer, entry
<1>14. process'[p] = [process[p] EXCEPT !.index = process[p].index + 1, !.pc = pc, !.buffer = buffer]
  BY <1>13, BecomesEffect
<1>15. /\ process'[p].index = process[p].index + 1 /\ process'[p].pc = pc
       /\ process'[p].buffer = buffer
       /\ process'[p].kind = process[p].kind /\ process'[p].session = process[p].session
       /\ process'[p].text = process[p].text /\ process'[p].memory = process[p].memory
       /\ process'[p].dirty = process[p].dirty /\ process'[p].state = process[p].state
       /\ process'[p].handle = process[p].handle
  BY <1>11, <1>14 DEF Process
<1>16. /\ \A q \in Processes \ {p} : process'[q] = process[q]
       /\ \A q \in Alive' : q \in Alive
  BY <1>13, BecomesEffect DEF Alive
<1>17. UNCHANGED <<backend, wal, graph, progress, tmp>>
  BY DEF LogMessage
<1> QED BY <1>5, <1>6, <1>7, <1>9, <1>12, <1>15, <1>16, <1>17 DEF entry, HasLogged

-----------------------------------------------------------------------------
(* Types.  A hook that starts reads what its log and its WAL hold, which   *)
(* is within the bounds because no log is longer than MaxLog.              *)
LEMMA StartType ==
  ASSUME TypeOK, Logs, NEW p \in Processes,
         NEW kind \in {"prompt", "stop", "end", "consolidate", "server"},
         NEW s \in Sessions \cup {NoText}, NEW text \in Texts \cup {NoText},
         NEW pc \in {"log", "state", "idle"}, StartSession(p, kind, s, text, pc)
  PROVE  process' \in [Processes -> Process \cup {NoProcess}]
<1>1. Recovered(s) \in SUBSET BufferEntry
  <2>1. s \in ClaudeSessions => wal[s] \in (SUBSET BufferEntry) \cup {NoFile}
    BY DEF TypeOK
  <2>2. CASE s \in ClaudeSessions /\ wal[s] # NoFile
    BY <2>1, <2>2 DEF Recovered
  <2>3. CASE ~(s \in ClaudeSessions /\ wal[s] # NoFile)
    BY <2>3 DEF Recovered
  <2> QED BY <2>2, <2>3
<1>2. CountExisting(s) \in 0 .. MaxLog
  <2>1. s \in Sessions => Len(log[s]) \in Nat /\ Len(log[s]) <= MaxLog
    BY DEF TypeOK, Logs
  <2> QED BY <2>1, Bounds DEF CountExisting
<1>3. Untouched \in Progress
  BY Bounds DEF Untouched, Progress
<1>4. graph \in SUBSET Memorable
  BY DEF TypeOK
<1>5. process'[p] \in Process
  <2>1. process'[p] =
          [kind |-> kind, session |-> s, text |-> text, pc |-> pc, memory |-> graph, dirty |-> {},
           buffer |-> Recovered(s), index |-> CountExisting(s), state |-> Untouched,
           todo |-> {}, handle |-> "gone"]
    BY DEF StartSession, TypeOK
  <2> DEFINE buffer == Recovered(s)
             index == CountExisting(s)
             state == Untouched
  <2>2. buffer \in SUBSET BufferEntry /\ index \in 0 .. MaxLog /\ state \in Progress
    BY <1>1, <1>2, <1>3
  <2> HIDE DEF buffer, index, state
  <2>3. [kind |-> kind, session |-> s, text |-> text, pc |-> pc, memory |-> graph, dirty |-> {},
         buffer |-> buffer, index |-> index, state |-> state,
         todo |-> {}, handle |-> "gone"] \in Process
    BY <1>4, <2>2 DEF Process
  <2> QED BY <2>1, <2>3 DEF buffer, index, state
<1> QED BY <1>5, StartEffect DEF StartSession, TypeOK

(* So is a process that has logged a message.                              *)
LEMMA LogType ==
  ASSUME TypeOK, NEW p \in Processes, p \in Alive, process[p].session \in Sessions,
         process[p].index < MaxLog, NEW role \in {"user", "assistant"}, NEW t \in Texts,
         NEW pc \in {"suspend", "idle"}, LogMessage(p, role, t, pc)
  PROVE  process' \in [Processes -> Process \cup {NoProcess}]
<1> DEFINE r == process[p]
           at == process[p].index + 1
           entry == <<t, at>>
           buffer == IF role = "user" /\ t \in Buffered THEN r.buffer \cup {entry} ELSE r.buffer
<1>1. r \in Process
  BY ProcessType
<1>2. at \in 0 .. MaxLog /\ at \in 1 .. MaxLog
  BY <1>1, Bounds DEF Process
<1>3. t \in Buffered => entry \in BufferEntry
  BY <1>2 DEF BufferEntry
<1>4. Becomes(p, [r EXCEPT !.index = at, !.pc = pc, !.buffer = buffer])
  BY DEF LogMessage
<1> HIDE DEF at, entry
<1>5. buffer \in SUBSET BufferEntry
  BY <1>1, <1>3 DEF Process
<1> HIDE DEF r, buffer
<1>6. [r EXCEPT !.index = at, !.pc = pc, !.buffer = buffer] \in Process
  BY <1>1, <1>2, <1>5 DEF Process
<1> QED BY <1>4, <1>6, BecomesEffect

(* A consolidation that leaves is a process record still.                  *)
LEMMA LeavesType ==
  ASSUME TypeOK, NEW p \in Processes, p \in Alive
  PROVE  /\ Leaves(p) \in Process
         /\ Leaves(p).pc = After(p) /\ After(p) \in {"suspend", "idle"}
         /\ Leaves(p).kind = process[p].kind /\ Leaves(p).session = process[p].session
         /\ Leaves(p).text = process[p].text /\ Leaves(p).index = process[p].index
         /\ Leaves(p).buffer = process[p].buffer
         /\ Leaves(p).memory = process[p].memory /\ Leaves(p).dirty = process[p].dirty
         /\ Leaves(p).state = Untouched /\ Leaves(p).handle = process[p].handle
<1>1. process[p] \in Process
  BY ProcessType
<1>2. After(p) \in {"suspend", "idle"}
  <2>1. process[p].kind = "end" => After(p) = "suspend"
    BY DEF After
  <2>2. process[p].kind = "consolidate" => After(p) = "suspend"
    BY DEF After
  <2>3. process[p].kind # "end" /\ process[p].kind # "consolidate" => After(p) = "idle"
    BY DEF After
  <2> QED BY <2>1, <2>2, <2>3
<1>3. Untouched \in Progress
  BY Bounds DEF Untouched, Progress
<1> QED BY <1>1, <1>2, <1>3 DEF Leaves, Process

(* A commit advances the state to the end of a log, which is in range.     *)
LEMMA CommitType ==
  ASSUME TypeOK, Logs, NEW p \in Processes, p \in Alive, NEW s \in Sessions, Commit(p, s)
  PROVE  \E r \in Process :
           /\ Becomes(p, r)
           /\ r.kind = process[p].kind /\ r.session = process[p].session
           /\ r.text = process[p].text /\ r.index = process[p].index
           /\ r.buffer = process[p].buffer /\ r.handle = process[p].handle
           /\ \A q \in Sessions : r.state[q] = IF q = s THEN Len(log[s]) ELSE process[p].state[q]
           /\ \/ /\ NewTexts(p, s) = {} /\ r.pc = "open"
                 /\ r.memory = process[p].memory /\ r.dirty = process[p].dirty
              \/ /\ r.pc = "store"
                 /\ r.memory = process[p].memory \cup NewTexts(p, s)
                 /\ r.dirty = process[p].memory \cup NewTexts(p, s)
<1> DEFINE old == process[p]
           texts == NewTexts(p, s)
           state == [old.state EXCEPT ![s] = Len(log[s])]
           todo == old.todo \ {s}
<1>1. old \in Process
  BY ProcessType
<1>2. old.state \in Progress /\ old.todo \in SUBSET Sessions /\ old.memory \in SUBSET Memorable
  BY <1>1 DEF Process
<1>3. Len(log[s]) \in 0 .. MaxLog
  BY Bounds DEF TypeOK, Logs
<1>4. state \in Progress /\ todo \in SUBSET Sessions
  BY <1>2, <1>3 DEF Progress
<1>5. texts \in SUBSET Memorable /\ old.memory \cup texts \in SUBSET Memorable
  BY <1>2 DEF NewTexts
<1>6. \A q \in Sessions : state[q] = IF q = s THEN Len(log[s]) ELSE old.state[q]
  BY <1>2 DEF Progress
<1>7. IF texts = {} THEN Becomes(p, [old EXCEPT !.state = state, !.todo = todo, !.pc = "open"])
      ELSE Becomes(p, [old EXCEPT !.state = state, !.todo = todo, !.pc = "store",
                         !.memory = old.memory \cup texts, !.dirty = old.memory \cup texts])
  BY DEF Commit, Marked
<1> HIDE DEF old, texts, state, todo
<1>8. CASE texts = {}
  <2> DEFINE r == [old EXCEPT !.state = state, !.todo = todo, !.pc = "open"]
  <2>1. /\ r \in Process
        /\ r.kind = old.kind /\ r.session = old.session /\ r.text = old.text
        /\ r.index = old.index /\ r.buffer = old.buffer /\ r.handle = old.handle
        /\ r.state = state /\ r.pc = "open" /\ r.memory = old.memory /\ r.dirty = old.dirty
    BY <1>1, <1>4 DEF Process
  <2>2. Becomes(p, r)
    BY <1>7, <1>8
  <2> HIDE DEF r
  <2> QED BY <1>6, <1>8, <2>1, <2>2 DEF old, texts
<1>9. CASE texts # {}
  <2> DEFINE grown == old.memory \cup texts
             r == [old EXCEPT !.state = state, !.todo = todo, !.pc = "store",
                     !.memory = grown, !.dirty = grown]
  <2>1. grown \in SUBSET Memorable
    BY <1>5
  <2>2. Becomes(p, r)
    BY <1>7, <1>9
  <2> HIDE DEF grown
  <2>3. /\ r \in Process
        /\ r.kind = old.kind /\ r.session = old.session /\ r.text = old.text
        /\ r.index = old.index /\ r.buffer = old.buffer /\ r.handle = old.handle
        /\ r.state = state /\ r.pc = "store" /\ r.memory = grown /\ r.dirty = grown
    BY <1>1, <1>4, <2>1 DEF Process
  <2> HIDE DEF r
  <2> QED BY <1>6, <2>2, <2>3 DEF old, texts, grown
<1> QED BY <1>8, <1>9

(* The other steps of a process change few of its fields.                  *)
LEMMA GoesType ==
  ASSUME TypeOK, NEW p \in Processes, p \in Alive,
         NEW pc \in {"log", "state", "pick", "store", "open", "write", "rename",
                     "idle", "suspend", "clear"}, Goes(p, pc)
  PROVE  /\ process' \in [Processes -> Process \cup {NoProcess}]
         /\ process'[p] = [process[p] EXCEPT !.pc = pc]
         /\ process'[p].pc = pc
         /\ process'[p].kind = process[p].kind /\ process'[p].session = process[p].session
         /\ process'[p].text = process[p].text /\ process'[p].index = process[p].index
         /\ process'[p].buffer = process[p].buffer /\ process'[p].memory = process[p].memory
         /\ process'[p].dirty = process[p].dirty /\ process'[p].state = process[p].state
         /\ process'[p].handle = process[p].handle
         /\ \A q \in Processes \ {p} : process'[q] = process[q]
<1>1. process[p] \in Process
  BY ProcessType
<1>2. [process[p] EXCEPT !.pc = pc] \in Process
  BY <1>1 DEF Process
<1>3. Becomes(p, [process[p] EXCEPT !.pc = pc])
  BY DEF Goes
<1>4. process'[p] = [process[p] EXCEPT !.pc = pc]
  BY <1>3, BecomesEffect
<1> QED BY <1>1, <1>2, <1>3, <1>4, BecomesEffect DEF Process

(* A written file holds the state or a mixture.                            *)
LEMMA OverwrittenType ==
  ASSUME NEW old, NEW new \in Progress, NEW file \in Overwritten(old, new)
  PROVE  /\ file \in {new, Garbled} /\ file \in Progress \cup {NoFile, Empty, Garbled}
         /\ old = Empty => file = new
BY DEF Overwritten

-----------------------------------------------------------------------------
(* Working.  Most steps of a process leave the logs, the WALs and what the *)
(* processes are alone; all that changes for a process is how far it is.   *)
Work(p) ==
  \/ SkipReply(p) \/ MemoryConsolidate(p) \/ LoadState(p) \/ NothingPending(p)
  \/ \E s \in Sessions : Commit(p, s)
  \/ Store(p) \/ StoreFails(p) \/ OpenState(p) \/ WriteState(p)
Proceeds(p, r) ==
  /\ r \in Process
  /\ r.kind = process[p].kind /\ r.session = process[p].session /\ r.text = process[p].text
  /\ r.index = process[p].index /\ r.buffer = process[p].buffer
  /\ \/ r.pc = process[p].pc
     \/ r.pc \in Consolidates /\ r.kind \in {"end", "consolidate", "server"}
     \/ r.pc = "suspend" /\ r.kind \in {"stop", "end", "consolidate"}
     \/ r.pc = "idle" /\ r.kind = "server"
Moves ==
  /\ UNCHANGED <<backend, log, wal, turn, kept>>
  /\ process' \in [Processes -> Process \cup {NoProcess}]
  /\ \A q \in Alive' : q \in Alive /\ Proceeds(q, process'[q])

(* Only a process that consolidates is where one consolidates.             *)
LEMMA WhoConsolidates ==
  ASSUME TypeOK, Roles, NEW p \in Processes, p \in Alive, process[p].pc \in Consolidates
  PROVE  /\ process[p].kind \in {"end", "consolidate", "server"}
         /\ After(p) = IF process[p].kind = "server" THEN "idle" ELSE "suspend"
<1>1. process[p].kind \in {"prompt", "stop", "end", "consolidate", "server"}
  BY ProcessType DEF Process
<1>2. process[p].kind \in {"end", "consolidate", "server"}
  BY <1>1 DEF Roles, Employed, Consolidates
<1>3. process[p].kind = "end" => After(p) = "suspend"
  BY DEF After
<1>4. process[p].kind = "consolidate" => After(p) = "suspend"
  BY DEF After
<1>5. process[p].kind = "server" => After(p) = "idle"
  BY DEF After
<1> QED BY <1>2, <1>3, <1>4, <1>5

(* A process that proceeds to a place of its kind.                         *)
LEMMA Proceeding ==
  ASSUME TypeOK, Roles, NEW p \in Processes, p \in Alive,
         NEW r \in Process, r.kind = process[p].kind, r.session = process[p].session,
         r.text = process[p].text, r.index = process[p].index, r.buffer = process[p].buffer,
         \/ process[p].pc \in Consolidates /\ r.pc \in Consolidates \cup {After(p)}
         \/ process[p].pc = "log" /\ r.kind = "stop" /\ r.pc = "suspend"
         \/ process[p].pc = "idle" /\ r.pc = "state"
  PROVE  Proceeds(p, r)
<1>1. CASE process[p].pc \in Consolidates
  BY <1>1, WhoConsolidates DEF Proceeds, Consolidates
<1>2. CASE process[p].pc = "log"
  BY <1>2 DEF Proceeds, Consolidates
<1>3. CASE process[p].pc = "idle"
  <2>1. r.kind = "server"
    BY <1>3, ProcessType DEF Roles, Employed, Consolidates, Process
  <2> QED BY <1>3, <2>1 DEF Proceeds, Consolidates
<1> QED BY <1>1, <1>2, <1>3 DEF Proceeds

(* Each of these steps lets its process proceed.                           *)
LEMMA WorkProceeds ==
  ASSUME TypeOK, Logs, Roles, NEW p \in Processes, Work(p)
  PROVE  /\ p \in Alive /\ UNCHANGED <<backend, log, wal, turn, kept>>
         /\ \E r : Proceeds(p, r) /\ Becomes(p, r)
<1> DEFINE old == process[p]
<1>1. p \in Alive
  BY DEF Work, SkipReply, MemoryConsolidate, LoadState, NothingPending, Commit, Store, StoreFails,
         OpenState, WriteState, At, Alive
<1>2. UNCHANGED <<backend, log, wal, turn, kept>>
  BY DEF Work, SkipReply, MemoryConsolidate, LoadState, NothingPending, Commit, Store, StoreFails,
         OpenState, WriteState, files, history
<1> SUFFICES \E r : Proceeds(p, r) /\ Becomes(p, r)
  BY <1>1, <1>2
<1>3. old \in Process
  BY <1>1, ProcessType
<1>4. ASSUME NEW pc, Goes(p, pc),
             pc \in {"suspend", "state"},
             \/ process[p].pc = "log" /\ process[p].kind = "stop" /\ pc = "suspend"
             \/ process[p].pc = "idle" /\ pc = "state"
      PROVE  \E r : Proceeds(p, r) /\ Becomes(p, r)
  <2> DEFINE r == [old EXCEPT !.pc = pc]
  <2>1. /\ r \in Process /\ r.kind = old.kind /\ r.session = old.session
        /\ r.text = old.text /\ r.index = old.index /\ r.buffer = old.buffer /\ r.pc = pc
    BY <1>3, <1>4 DEF Process
  <2>2. Becomes(p, r)
    BY <1>4 DEF Goes
  <2> HIDE DEF r
  <2>3. Proceeds(p, r)
    BY <1>1, <1>4, <2>1, Proceeding
  <2> QED BY <2>2, <2>3
<1>5. CASE SkipReply(p)
  BY <1>4, <1>5 DEF SkipReply, At
<1>6. CASE MemoryConsolidate(p)
  BY <1>4, <1>6 DEF MemoryConsolidate, At
<1>7. ASSUME NEW r \in Process, r.kind = old.kind, r.session = old.session, r.text = old.text,
             r.index = old.index, r.buffer = old.buffer, r.pc \in Consolidates \cup {After(p)},
             old.pc \in Consolidates, Becomes(p, r)
      PROVE  \E new : Proceeds(p, new) /\ Becomes(p, new)
  BY <1>1, <1>7, Proceeding
<1>8. ASSUME Becomes(p, Leaves(p)), old.pc \in Consolidates
      PROVE  \E new : Proceeds(p, new) /\ Becomes(p, new)
  BY <1>1, <1>7, <1>8, LeavesType
<1>9. CASE LoadState(p)
  <2>1. CASE Becomes(p, Leaves(p))
    BY <1>8, <1>9, <2>1 DEF LoadState, At, Consolidates
  <2>2. CASE Becomes(p, [old EXCEPT !.pc = "pick", !.state = Recorded, !.todo = Wanted(p)])
    <3> DEFINE state == Recorded
               todo == Wanted(p)
               r == [old EXCEPT !.pc = "pick", !.state = state, !.todo = todo]
    <3>1. todo \in SUBSET Sessions
      BY DEF Wanted
    <3>2. state \in Progress
      <4>1. Untouched \in Progress
        BY Bounds DEF Untouched, Progress
      <4> QED BY <4>1 DEF Recorded, Readable, TypeOK
    <3> HIDE DEF state, todo
    <3>3. /\ r \in Process /\ r.kind = old.kind /\ r.session = old.session
          /\ r.text = old.text /\ r.index = old.index /\ r.buffer = old.buffer /\ r.pc = "pick"
      BY <1>3, <3>1, <3>2 DEF Process
    <3>4. Becomes(p, r)
      BY <2>2 DEF state, todo
    <3> HIDE DEF r
    <3>5. old.pc \in Consolidates
      BY <1>9 DEF LoadState, At, Consolidates
    <3> QED BY <1>7, <3>3, <3>4, <3>5 DEF Consolidates
  <2> QED BY <1>9, <2>1, <2>2 DEF LoadState
<1>10. CASE NothingPending(p)
  BY <1>8, <1>10 DEF NothingPending, At, Consolidates
<1>11. ASSUME NEW s \in Sessions, Commit(p, s)
       PROVE  \E r : Proceeds(p, r) /\ Becomes(p, r)
  <2>1. old.pc \in Consolidates
    BY <1>11 DEF Commit, At, Consolidates
  <2> QED BY <1>1, <1>7, <1>11, <2>1, CommitType DEF Consolidates
<1>12. CASE Store(p)
  <2> DEFINE r == [old EXCEPT !.pc = "open", !.dirty = {}]
  <2>1. /\ r \in Process /\ r.kind = old.kind /\ r.session = old.session
        /\ r.text = old.text /\ r.index = old.index /\ r.buffer = old.buffer /\ r.pc = "open"
    BY <1>3 DEF Process
  <2>2. Becomes(p, r) /\ old.pc \in Consolidates
    BY <1>12 DEF Store, At, Consolidates
  <2> HIDE DEF r
  <2> QED BY <1>7, <2>1, <2>2 DEF Consolidates
<1>13. CASE StoreFails(p)
  <2> DEFINE left == Leaves(p)
             dirty == IF backend = "json" THEN left.dirty ELSE {}
             r == [left EXCEPT !.dirty = dirty]
  <2>1. /\ left \in Process /\ left.pc = After(p)
        /\ left.kind = old.kind /\ left.session = old.session
        /\ left.text = old.text /\ left.index = old.index /\ left.buffer = old.buffer
    BY <1>1, LeavesType
  <2>2. Becomes(p, r) /\ old.pc \in Consolidates
    BY <1>13 DEF StoreFails, At, Consolidates
  <2> HIDE DEF left
  <2>3. dirty \in SUBSET Memorable
    BY <2>1 DEF Process
  <2> HIDE DEF dirty
  <2>4. /\ r \in Process /\ r.kind = old.kind /\ r.session = old.session
        /\ r.text = old.text /\ r.index = old.index /\ r.buffer = old.buffer /\ r.pc = After(p)
    BY <2>1, <2>3 DEF Process
  <2> HIDE DEF r
  <2> QED BY <1>7, <2>2, <2>4
<1>14. CASE OpenState(p) \/ WriteState(p)
  <2>1. PICK pc \in {"write", "rename"}, handle \in {"tmp", "gone"} :
          Becomes(p, [old EXCEPT !.pc = pc, !.handle = handle])
    BY <1>14 DEF OpenState, WriteState, Opened
  <2> DEFINE r == [old EXCEPT !.pc = pc, !.handle = handle]
  <2>2. /\ r \in Process /\ r.kind = old.kind /\ r.session = old.session
        /\ r.text = old.text /\ r.index = old.index /\ r.buffer = old.buffer /\ r.pc = pc
    BY <1>3 DEF Process
  <2>3. Becomes(p, r) /\ old.pc \in Consolidates
    BY <1>14, <2>1 DEF OpenState, WriteState, At, Consolidates
  <2> HIDE DEF r
  <2> QED BY <1>7, <2>2, <2>3 DEF Consolidates
<1> QED BY <1>5, <1>6, <1>9, <1>10, <1>11, <1>12, <1>13, <1>14 DEF Work

(* So do a rename, which moves the handles of others, and an exit.         *)
LEMMA RenameEffect ==
  ASSUME TypeOK, NEW p \in Processes, RenameState(p)
  PROVE  /\ UNCHANGED <<backend, log, wal, graph, turn, kept>>
         /\ p \in Alive /\ process[p].pc = "rename"
         /\ \/ /\ tmp = NoFile /\ Becomes(p, Leaves(p)) /\ UNCHANGED <<progress, tmp>>
            \/ /\ tmp # NoFile /\ progress' = tmp /\ tmp' = NoFile
               /\ \A q \in Processes : q \notin Alive => process'[q] = NoProcess
               /\ \A q \in Alive :
                    /\ process'[q] \in Process
                    /\ process'[q].pc = (IF q = p THEN "pick" ELSE process[q].pc)
                    /\ process'[q].handle = Moved(process[q].handle)
                    /\ process'[q].kind = process[q].kind
                    /\ process'[q].session = process[q].session
                    /\ process'[q].text = process[q].text
                    /\ process'[q].index = process[q].index
                    /\ process'[q].buffer = process[q].buffer
                    /\ process'[q].memory = process[q].memory
                    /\ process'[q].dirty = process[q].dirty
                    /\ process'[q].state = process[q].state
         /\ process' \in [Processes -> Process \cup {NoProcess}]
         /\ \A q \in Alive' : q \in Alive
<1>1. UNCHANGED <<backend, log, wal, graph, turn, kept>> /\ p \in Alive /\ process[p].pc = "rename"
  BY DEF RenameState, At, Alive, history
<1>2. CASE tmp = NoFile
  <2>1. Becomes(p, Leaves(p)) /\ UNCHANGED <<progress, tmp>>
    BY <1>2 DEF RenameState
  <2>2. process' \in [Processes -> Process \cup {NoProcess}] /\ \A q \in Alive' : q \in Alive
    BY <1>1, <2>1, LeavesType, BecomesEffect DEF Alive
  <2> QED BY <1>1, <1>2, <2>1, <2>2
<1>3. CASE tmp # NoFile
  <2>1. /\ progress' = tmp /\ tmp' = NoFile
        /\ process' = [q \in Processes |->
             IF q \notin Alive THEN NoProcess
             ELSE [process[q] EXCEPT !.handle = Moved(process[q].handle),
                                     !.pc = IF q = p THEN "pick" ELSE process[q].pc]]
    BY <1>3 DEF RenameState
  <2>2. \A q \in Processes : q \notin Alive => process'[q] = NoProcess
    BY <2>1
  <2>3. ASSUME NEW q \in Alive
        PROVE  /\ process'[q] \in Process
               /\ process'[q].pc = (IF q = p THEN "pick" ELSE process[q].pc)
               /\ process'[q].handle = Moved(process[q].handle)
               /\ process'[q].kind = process[q].kind
               /\ process'[q].session = process[q].session
               /\ process'[q].text = process[q].text
               /\ process'[q].index = process[q].index
               /\ process'[q].buffer = process[q].buffer
               /\ process'[q].memory = process[q].memory
               /\ process'[q].dirty = process[q].dirty
               /\ process'[q].state = process[q].state
    <3> DEFINE handle == Moved(process[q].handle)
               pc == IF q = p THEN "pick" ELSE process[q].pc
    <3>1. q \in Processes /\ process[q] \in Process
      BY ProcessType DEF Alive
    <3>2. process'[q] = [process[q] EXCEPT !.handle = handle, !.pc = pc]
      BY <2>1, <3>1
    <3>3. handle \in {"tmp", "published", "gone"}
      BY DEF Moved
    <3>4. pc \in {"log", "state", "pick", "store", "open", "write", "rename",
                  "idle", "suspend", "clear"}
      BY <3>1 DEF Process
    <3> HIDE DEF handle, pc
    <3>5. /\ process'[q] \in Process /\ process'[q].pc = pc /\ process'[q].handle = handle
          /\ process'[q].kind = process[q].kind
          /\ process'[q].session = process[q].session
          /\ process'[q].text = process[q].text
          /\ process'[q].index = process[q].index
          /\ process'[q].buffer = process[q].buffer
          /\ process'[q].memory = process[q].memory
          /\ process'[q].dirty = process[q].dirty
          /\ process'[q].state = process[q].state
      BY <3>1, <3>2, <3>3, <3>4 DEF Process
    <3> QED BY <3>5 DEF handle, pc
  <2>4. process' \in [Processes -> Process \cup {NoProcess}]
    <3>1. \A q \in Processes : process'[q] \in Process \cup {NoProcess}
      BY <2>2, <2>3
    <3>2. /\ DOMAIN process' = Processes
          /\ process' = [q \in Processes |-> process'[q]]
      BY <2>1
    <3> QED BY <3>1, <3>2
  <2>5. \A q \in Alive' : q \in Alive
    BY <2>2 DEF Alive
  <2> QED BY <1>1, <1>3, <2>1, <2>2, <2>3, <2>4, <2>5
<1> QED BY <1>2, <1>3

(* Work, renames and exits move processes along and change nothing else.   *)
LEMMA WorkMoves ==
  ASSUME TypeOK, Logs, Roles, NEW p \in Processes,
         Work(p) \/ RenameState(p) \/ ServerExits(p) \/ Kill(p)
  PROVE  Moves
<1>1. \A q \in Alive : process[q] \in Process /\ Proceeds(q, process[q])
  BY ProcessType DEF Proceeds, Alive
<1>2. ASSUME NEW r, Becomes(p, r), Proceeds(p, r), p \in Alive, UNCHANGED <<backend, log, wal, turn, kept>>
      PROVE  Moves
  <2>1. r \in Process
    BY <1>2 DEF Proceeds
  <2>2. process'[p] = r /\ \A q \in Processes \ {p} : process'[q] = process[q]
    BY <1>2, BecomesEffect
  <2>3. process' \in [Processes -> Process \cup {NoProcess}]
    BY <1>2, <2>1, BecomesEffect
  <2>4. \A q \in Alive' : q \in Alive
    BY <1>2, <2>2 DEF Alive
  <2>5. \A q \in Alive' : Proceeds(q, process'[q])
    BY <1>1, <1>2, <2>2, <2>4 DEF Alive
  <2> QED BY <1>2, <2>3, <2>4, <2>5 DEF Moves
<1>3. CASE Work(p)
  BY <1>2, <1>3, WorkProceeds
<1>4. CASE RenameState(p)
  <2>1. CASE Becomes(p, Leaves(p))
    <3>1. Proceeds(p, Leaves(p))
      BY <1>4, RenameEffect, LeavesType, Proceeding DEF Consolidates
    <3> QED BY <1>2, <1>4, <2>1, <3>1, RenameEffect
  <2>2. CASE ~Becomes(p, Leaves(p))
    <3>1. /\ UNCHANGED <<backend, log, wal, turn, kept>>
          /\ process' \in [Processes -> Process \cup {NoProcess}]
          /\ \A q \in Alive' : q \in Alive
          /\ p \in Alive /\ process[p].pc = "rename"
          /\ \A q \in Alive :
               /\ process'[q] \in Process
               /\ process'[q].pc = (IF q = p THEN "pick" ELSE process[q].pc)
               /\ process'[q].kind = process[q].kind
               /\ process'[q].session = process[q].session
               /\ process'[q].text = process[q].text
               /\ process'[q].index = process[q].index
               /\ process'[q].buffer = process[q].buffer
      BY <1>4, <2>2, RenameEffect
    <3>2. process[p].kind \in {"end", "consolidate", "server"}
      BY <3>1, WhoConsolidates DEF Consolidates
    <3>3. \A q \in Alive : Proceeds(q, process'[q])
      BY <3>1, <3>2 DEF Proceeds, Consolidates
    <3> QED BY <3>1, <3>3 DEF Moves
  <2> QED BY <2>1, <2>2
<1>5. CASE ServerExits(p) \/ Kill(p)
  <2>1. Exits(p) /\ UNCHANGED <<backend, log, wal, turn, kept>>
    BY <1>5 DEF ServerExits, Kill, files, history
  <2> QED BY <1>1, <2>1, ExitsEffect DEF Moves, Alive
<1> QED BY <1>3, <1>4, <1>5

(* Nothing about logs, buffers and turns changes by it.                    *)
LEMMA MovesKeep ==
  ASSUME TypeOK, Roles, Logs, Buffers, Turns, Moves
  PROVE  Roles' /\ Logs' /\ Buffers' /\ Turns'
<1>1. /\ UNCHANGED <<backend, log, wal, turn, kept>>
      /\ \A q \in Alive' :
           /\ q \in Alive /\ q \in Processes
           /\ process'[q].kind = process[q].kind /\ process'[q].session = process[q].session
           /\ process'[q].text = process[q].text /\ process'[q].index = process[q].index
           /\ process'[q].buffer = process[q].buffer
           /\ \/ process'[q].pc = process[q].pc
              \/ /\ process'[q].pc \in Consolidates
                 /\ process'[q].kind \in {"end", "consolidate", "server"}
              \/ process'[q].pc = "suspend" /\ process'[q].kind \in {"stop", "end", "consolidate"}
              \/ process'[q].pc = "idle" /\ process'[q].kind = "server"
  BY DEF Moves, Proceeds, Alive
<1>2. Roles'
  BY <1>1 DEF Roles, Employed, Consolidates
<1>3. Logs'
  BY <1>1 DEF Logs, Writers, Consolidates
<1>4. Buffers'
  BY <1>1 DEF Buffers, InWal, InBuffer, Consolidates
<1>5. Turns'
  BY <1>1 DEF Turns
<1> QED BY <1>2, <1>3, <1>4, <1>5

-----------------------------------------------------------------------------
(* Starting.  A hook finds the WAL that the hooks before it left, and no   *)
(* other hook is there for its session.                                    *)
LEMMA HookStarts ==
  ASSUME TypeOK, Roles, Logs, Buffers, Turns,
         NEW p \in HookProcesses, NEW s \in ClaudeSessions, NEW kind, NEW text, NEW pc,
         StartSession(p, kind, s, text, pc), NoHook(s),
         \/ kind = "end" /\ pc = "state"
         \/ kind = "prompt" /\ pc = "log" /\ text \in Prompts /\ Room
         \/ kind = "stop" /\ pc = "log" /\ text \in Replies /\ Room,
         \A r \in ClaudeSessions \ {s} : turn'[r] = turn[r] /\ kept'[r] = kept[r],
         kept'[s] = IF kind = "end" THEN {} ELSE kept[s],
         IF kind = "stop" THEN /\ turn[s].reply \in {NoText, text}
                               /\ turn'[s] = [turn[s] EXCEPT !.reply = text]
                          ELSE turn'[s] = [reply |-> NoText, answers |-> 0]
  PROVE  Roles' /\ Logs' /\ Buffers' /\ Turns'
<1>1. /\ p \notin Alive /\ UNCHANGED <<log, wal>>
      /\ \A q \in Processes \ {p} : process'[q] = process[q]
      /\ \A q \in Alive' : q = p \/ q \in Alive
      /\ p \in Processes /\ p \notin Commands /\ p \notin Servers
      /\ s \in Sessions
  BY StartEffect, Kinds DEF Processes, Sessions
<1>2. /\ process'[p].kind = kind /\ process'[p].session = s /\ process'[p].text = text
      /\ process'[p].pc = pc /\ process'[p].buffer = Recovered(s)
      /\ process'[p].index = Len(log[s])
  BY <1>1, StartEffect DEF CountExisting
<1>3. \A q \in Alive : q \in Processes /\ q # p
  BY <1>1 DEF Alive
<1>4. \A q \in Alive \ Commands : process[q].session # s
  <2> TAKE q \in Alive \ Commands
  <2>1. CASE q \in HookProcesses
    BY <2>1 DEF NoHook
  <2>2. CASE q \in Servers
    BY <2>2, Kinds DEF Roles, Employed
  <2> QED BY <1>3, <2>1, <2>2 DEF Processes
<1>5. Roles'
  <2>1. \A q \in Alive : q # p => process'[q] = process[q]
    BY <1>1, <1>3
  <2>2. Employed(p)'
    BY <1>1, <1>2 DEF Employed, Consolidates
  <2>3. \A q \in Alive : q # p => Employed(q)'
    BY <2>1 DEF Roles, Employed
  <2> QED BY <1>1, <1>3, <2>2, <2>3 DEF Roles
<1>6. Logs'
  <2>1. pc = "log" => Len(log[s]) < MaxLog
    BY <1>1, RoomEverywhere
  <2> QED BY <1>1, <1>2, <1>3, <1>4, <2>1 DEF Logs, Writers
<1>7. \A i \in kept'[s] : i \in kept[s] /\ kind # "end"
  OBVIOUS
<1>8. \A i \in kept[s] : log[s][i].text \in Buffered => <<log[s][i].text, i>> \in Recovered(s)
  BY DEF Buffers, InWal, Recovered
<1>9. Buffers'
  <2>1. \A r \in ClaudeSessions : \A i \in kept'[r] : i \in 1 .. Len(log'[r]) /\ InWal(r, i)'
    BY <1>1, <1>7 DEF Buffers, InWal
  <2>2. \A i \in kept'[s] : InBuffer(p, s, i)'
    BY <1>1, <1>2, <1>7, <1>8 DEF InBuffer
  <2>3. ASSUME NEW q \in Alive \cap HookProcesses
        PROVE  /\ q # p /\ process'[q] = process[q] /\ process[q].session \in ClaudeSessions
               /\ kept'[process[q].session] = kept[process[q].session]
    <3>1. q \notin Commands
      BY Kinds
    <3> QED BY <1>1, <1>3, <1>4, <3>1 DEF Roles, Employed
  <2>4. ASSUME NEW q \in Alive', q \in HookProcesses
        PROVE  /\ \A i \in kept'[process'[q].session] : InBuffer(q, process[q].session, i)'
               /\ process'[q].kind = "end" => kept'[process'[q].session] = {}
               /\ process'[q].kind = "prompt" /\ process'[q].pc = "suspend" =>
                    /\ process'[q].index >= 1
                    /\ InBuffer(q, process[q].session, process[q].index)'
    <3>1. CASE q = p
      BY <1>2, <2>2, <3>1
    <3>2. CASE q # p
      <4>1. q \in Alive \cap HookProcesses
        BY <1>1, <2>4, <3>2
      <4> QED BY <1>1, <2>3, <4>1 DEF Buffers, InBuffer
    <3> QED BY <3>1, <3>2
  <2> QED BY <2>1, <2>4 DEF Buffers
<1>10. Turns'
  <2>1. turn[s].reply \in Replies \cup {NoText} /\ turn[s].answers \in Nat
        /\ turn[s] \in [reply : Replies \cup {NoText}, answers : Nat]
    BY DEF TypeOK
  <2>2. /\ turn'[s].answers <= 1
        /\ turn'[s].answers = 1 => /\ turn'[s].reply # NoText /\ log[s] # <<>>
                                   /\ log[s][Len(log[s])] = Entry("assistant", turn'[s].reply)
        /\ kind = "stop" => turn'[s].reply = text
        /\ kind # "stop" => turn'[s].answers = 0
    BY <2>1, TextShape DEF Turns, Texts
  <2>3. ASSUME NEW q \in Alive \cap HookProcesses
        PROVE  /\ q # p /\ process'[q] = process[q] /\ process[q].session \in ClaudeSessions
               /\ turn'[process[q].session] = turn[process[q].session]
    <3>1. q \notin Commands
      BY Kinds
    <3> QED BY <1>1, <1>3, <1>4, <3>1 DEF Roles, Employed
  <2> QED BY <1>1, <1>2, <2>2, <2>3 DEF Turns
<1> QED BY <1>5, <1>6, <1>9, <1>10

(* The command and the server start beside the hooks.                      *)
LEMMA OthersStart ==
  ASSUME TypeOK, Roles, Logs, Buffers, Turns, UNCHANGED <<turn, kept>>,
         NEW p \in Commands \cup Servers,
         \/ p \in Commands /\ ConsolidateCommand(p)
         \/ p \in Servers /\ \E s \in ServerSessions : StartServer(p, s)
  PROVE  Roles' /\ Logs' /\ Buffers' /\ Turns'
<1>1. PICK kind, s, pc : /\ StartSession(p, kind, s, NoText, pc)
                         /\ p \in Commands => kind = "consolidate" /\ pc = "state"
                         /\ p \in Servers => /\ kind = "server" /\ pc = "idle" /\ s \in ServerSessions
                                             /\ \A q \in Alive : process[q].session # s
  BY Kinds DEF ConsolidateCommand, StartServer
<1>2. /\ p \notin Alive /\ UNCHANGED <<log, wal>>
      /\ \A q \in Processes \ {p} : process'[q] = process[q]
      /\ \A q \in Alive' : q = p \/ q \in Alive
      /\ p \in Processes /\ p \notin HookProcesses
      /\ process'[p].kind = kind /\ process'[p].session = s
      /\ process'[p].pc = pc /\ process'[p].index = CountExisting(s)
  BY <1>1, StartEffect, Kinds DEF Processes
<1>3. \A q \in Alive : q \in Processes /\ q # p /\ process'[q] = process[q]
  BY <1>2 DEF Alive
<1>4. Roles'
  <2>1. Employed(p)'
    BY <1>1, <1>2, Kinds DEF Employed, Consolidates
  <2>2. \A q \in Alive : Employed(q)'
    BY <1>3 DEF Roles, Employed
  <2> QED BY <1>2, <2>1, <2>2 DEF Roles
<1>5. Logs'
  <2>1. p \in Servers => CountExisting(s) = Len(log[s])
    BY <1>1 DEF CountExisting, Sessions
  <2> QED BY <1>1, <1>2, <1>3, <2>1, Kinds DEF Logs, Writers
<1>6. Buffers'
  BY <1>2, <1>3 DEF Buffers, InWal, InBuffer
<1>7. Turns'
  BY <1>2, <1>3 DEF Turns
<1> QED BY <1>4, <1>5, <1>6, <1>7

-----------------------------------------------------------------------------
(* Logging.  The writer is the only one of its session.                    *)
LEMMA LoggingKeeps ==
  ASSUME TypeOK, Roles, Logs, Buffers, Turns, NEW p \in Processes, NEW t \in Texts,
         UNCHANGED kept,
         \/ /\ LogReply(p) /\ t = process[p].text
         \/ LogPrompt(p) /\ t = process[p].text
         \/ p \in Servers /\ MemoryLog(p, t) /\ UNCHANGED turn
  PROVE  /\ TypeOK' /\ Roles' /\ Logs' /\ Buffers' /\ Turns'
         /\ p \in Alive \ Commands /\ process[p].session \in Sessions
         /\ \E role \in {"user", "assistant"}, pc \in {"suspend", "idle"} :
              HasLogged(p, role, t, pc)
         /\ process[p].pc \in {"log", "idle"}
<1> DEFINE s == process[p].session
<1>1. /\ p \in Alive \ Commands /\ s \in Sessions /\ process[p].index = Len(log[s])
      /\ Len(log[s]) < MaxLog /\ Len(log[s]) \in Nat
  <2>1. /\ p \in Alive
        /\ \/ process[p].pc = "log" /\ process[p].kind \in {"stop", "prompt"}
           \/ p \in Servers
    BY DEF LogReply, LogPrompt, MemoryLog, At, Alive
  <2>2. p \notin Commands
    BY <2>1, Kinds DEF Roles, Employed
  <2>3. s \in Sessions
    BY <2>1, <2>2, SessionSets DEF Roles, Employed, Processes
  <2>4. Len(log[s]) < MaxLog
    <3>1. CASE process[p].pc = "log"
      BY <2>1, <2>2, <3>1 DEF Logs, Writers
    <3>2. CASE Room
      BY <2>3, <3>2, RoomEverywhere
    <3> QED BY <3>1, <3>2 DEF LogReply, LogPrompt, MemoryLog, At
  <2>5. process[p].index = Len(log[s]) /\ Len(log[s]) \in Nat
    BY <2>1, <2>2, <2>3 DEF Logs, Writers, TypeOK
  <2> QED BY <2>1, <2>2, <2>3, <2>4, <2>5
<1>2. PICK role \in {"user", "assistant"}, pc \in {"suspend", "idle"} :
        /\ LogMessage(p, role, t, pc)
        /\ LogReply(p) => role = "assistant"
        /\ ~LogReply(p) => role = "user"
        /\ \/ pc = "suspend" /\ process[p].kind \in {"prompt", "stop"}
           \/ pc = "idle" /\ process[p].pc = "idle"
  BY DEF LogReply, LogPrompt, MemoryLog, At
<1>3. /\ UNCHANGED <<backend, wal, graph, progress, tmp>>
      /\ log' \in [Sessions -> Seq([role : {"user", "assistant"}, text : Texts])]
      /\ Len(log'[s]) = Len(log[s]) + 1
      /\ log'[s][Len(log'[s])] = Entry(role, t)
      /\ \A r \in Sessions : /\ r # s => log'[r] = log[r]
                             /\ Len(log[r]) <= Len(log'[r])
                             /\ \A i \in 1 .. Len(log[r]) : log'[r][i] = log[r][i]
      /\ process'[p].index = process[p].index + 1 /\ process'[p].pc = pc
      /\ process[p].buffer \subseteq process'[p].buffer
      /\ role = "user" /\ t \in Buffered => <<t, process[p].index + 1>> \in process'[p].buffer
      /\ process'[p].kind = process[p].kind /\ process'[p].session = s
      /\ process'[p].text = process[p].text
      /\ \A q \in Processes \ {p} : process'[q] = process[q]
      /\ \A q \in Alive' : q \in Alive
  <2>1. HasLogged(p, role, t, pc)
    BY <1>1, <1>2, LogEffect
  <2> QED BY <2>1 DEF HasLogged
<1>4. \A q \in Alive \ {p} : q \in Processes /\ process'[q] = process[q]
  BY <1>3 DEF Alive
<1>5. \A q \in Alive \ {p} : q \notin Commands => process[q].session # s
  BY <1>1 DEF Logs, Writers
<1>6. Roles'
  <2>1. Employed(p)'
    BY <1>1, <1>2, <1>3 DEF Roles, Employed, Consolidates
  <2>2. \A q \in Alive \ {p} : Employed(q)'
    BY <1>4 DEF Roles, Employed
  <2> QED BY <1>3, <2>1, <2>2 DEF Roles
<1>7. Logs'
  <2>1. \A r \in Sessions : Len(log'[r]) <= MaxLog
    BY <1>1, <1>3, Bounds DEF Logs
  <2>2. \A q \in Alive \ Commands : q # p => /\ process'[q] = process[q]
                                             /\ log'[process[q].session] = log[process[q].session]
    <3> TAKE q \in Alive \ Commands
    <3> HAVE q # p
    <3>1. process[q].session \in Sessions
      BY SessionSets DEF Roles, Employed, Alive, Processes
    <3> QED BY <1>3, <1>4, <1>5, <3>1
  <2>3. \A q \in Alive' \ Commands : process'[q].session = process[q].session /\ q \in Alive \ Commands
    BY <1>3, <1>4
  <2>4. \A q, r \in Alive' \ Commands : process'[q].session = process'[r].session => q = r
    BY <2>3 DEF Logs, Writers
  <2>5. ASSUME NEW q \in Alive' \ Commands
        PROVE  /\ process'[q].index = Len(log'[process'[q].session])
               /\ process'[q].pc = "log" => Len(log'[process'[q].session]) < MaxLog
    <3>1. CASE q = p
      BY <1>1, <1>2, <1>3, <3>1
    <3>2. CASE q # p
      BY <2>2, <2>3, <2>5, <3>2 DEF Logs, Writers
    <3> QED BY <3>1, <3>2
  <2> QED BY <2>1, <2>4, <2>5 DEF Logs, Writers
<1>8. \A r \in ClaudeSessions : \A i \in kept[r] : i \in 1 .. Len(log[r]) /\ log'[r][i] = log[r][i]
  BY <1>3, SessionSets DEF Buffers
<1>9. Buffers'
  <2>1. \A r \in ClaudeSessions : \A i \in kept'[r] : i \in 1 .. Len(log'[r]) /\ InWal(r, i)'
    <3> TAKE r \in ClaudeSessions
    <3> TAKE i \in kept'[r]
    <3>1. i \in 1 .. Len(log[r]) /\ log'[r][i] = log[r][i] /\ InWal(r, i)
      BY <1>8 DEF Buffers
    <3>2. Len(log[r]) <= Len(log'[r]) /\ Len(log[r]) \in Nat /\ Len(log'[r]) \in Nat
      BY <1>3, SessionSets DEF TypeOK
    <3>3. i \in 1 .. Len(log'[r])
      BY <3>1, <3>2
    <3> QED BY <1>3, <3>1, <3>3 DEF InWal
  <2>2. ASSUME NEW q \in Alive', q \in HookProcesses
        PROVE  /\ \A i \in kept'[process'[q].session] : InBuffer(q, process[q].session, i)'
               /\ process'[q].kind = "end" => kept'[process'[q].session] = {}
               /\ process'[q].kind = "prompt" /\ process'[q].pc = "suspend" =>
                    /\ process'[q].index >= 1
                    /\ InBuffer(q, process[q].session, process[q].index)'
    <3>1. q \in Alive /\ process[q].session \in ClaudeSessions /\ q \notin Commands
      BY <1>3, <2>2, Kinds DEF Roles, Employed
    <3>2. CASE q # p
      <4>1. process'[q] = process[q] /\ log'[process[q].session] = log[process[q].session]
        BY <1>3, <1>4, <1>5, <3>1, <3>2, SessionSets
      <4> QED BY <2>2, <3>1, <4>1 DEF Buffers, InBuffer
    <3>3. CASE q = p
      <4>1. s \in ClaudeSessions /\ p \in Alive \cap HookProcesses
        BY <2>2, <3>1, <3>3
      <4>2. \A i \in kept'[s] : InBuffer(p, s, i)'
        <5> TAKE i \in kept'[s]
        <5>1. InBuffer(p, s, i) /\ log'[s][i] = log[s][i]
          BY <1>8, <4>1 DEF Buffers
        <5> QED BY <1>3, <5>1 DEF InBuffer
      <4>3. process'[p].kind = "end" => kept'[s] = {}
        BY <1>3, <4>1 DEF Buffers
      <4>4. process'[p].index = Len(log'[s]) /\ process'[p].index >= 1
        BY <1>1, <1>3
      <4>5. ASSUME process'[p].kind = "prompt"
            PROVE  InBuffer(p, s, process[p].index)'
        <5>1. role = "user"
          BY <1>2, <1>3, <4>5 DEF LogReply
        <5>2. log'[s][process'[p].index].text = t
          BY <1>3, <4>4 DEF Entry
        <5>3. t \in Buffered => <<t, process'[p].index>> \in process'[p].buffer
          BY <1>3, <5>1
        <5> QED BY <1>3, <5>2, <5>3 DEF InBuffer
      <4> QED BY <1>3, <3>3, <4>2, <4>3, <4>4, <4>5
    <3> QED BY <3>2, <3>3
  <2> QED BY <2>1, <2>2 DEF Buffers
<1>10. Turns'
  <2>1. /\ \A r \in ClaudeSessions : turn[r] \in [reply : Replies \cup {NoText}, answers : Nat]
        /\ turn \in [ClaudeSessions -> [reply : Replies \cup {NoText}, answers : Nat]]
    BY DEF TypeOK
  <2>2. CASE LogReply(p)
    <3>1. s \in ClaudeSessions /\ p \in HookProcesses /\ process[p].kind = "stop"
      <4>1. process[p].kind = "stop"
        BY <2>2 DEF LogReply
      <4> QED BY <1>1, <4>1 DEF Roles, Employed, Alive, Processes
    <3>2. turn' = [turn EXCEPT ![s].answers = turn[s].answers + 1]
      BY <2>2 DEF LogReply
    <3>3. /\ \A r \in ClaudeSessions \ {s} : turn'[r] = turn[r]
          /\ turn'[s].reply = turn[s].reply /\ turn'[s].answers = turn[s].answers + 1
      BY <2>1, <3>1, <3>2
    <3>4. turn[s].reply = process[p].text
      BY <1>1, <3>1 DEF Turns
    <3>5. turn[s].answers # 1
      BY <2>2, <3>1, <3>4 DEF Turns, LogReply, AlreadyLogged
    <3>6. turn'[s].answers = 1
      <4>1. turn[s].answers \in Nat /\ turn[s].answers <= 1
        BY <2>1, <3>1 DEF Turns
      <4> QED BY <3>3, <3>5, <4>1
    <3>7. turn'[s].reply # NoText
      <4>1. process[p].text \in Replies
        BY <1>1, <3>1 DEF Roles, Employed
      <4> QED BY <3>3, <3>4, <4>1, TextShape DEF Texts
    <3>8. log'[s] # <<>> /\ log'[s][Len(log'[s])] = Entry("assistant", turn'[s].reply)
      <4>1. role = "assistant" /\ t = turn'[s].reply
        BY <1>2, <2>2, <3>1, <3>3, <3>4 DEF LogReply, LogPrompt, MemoryLog, At
      <4> QED BY <1>1, <1>3, <4>1
    <3>9. \A q \in Alive' : q \in HookProcesses /\ q # p =>
            /\ process'[q] = process[q] /\ q \in Alive
            /\ process[q].session \in ClaudeSessions \ {s}
      BY <1>3, <1>4, <1>5, Kinds DEF Roles, Employed
    <3>10. \A r \in ClaudeSessions \ {s} : log'[r] = log[r]
      BY <1>3, SessionSets
    <3>11. \A r \in ClaudeSessions :
              /\ turn'[r].answers <= 1
              /\ turn'[r].answers = 1 => /\ turn'[r].reply # NoText /\ log'[r] # <<>>
                                         /\ log'[r][Len(log'[r])] = Entry("assistant", turn'[r].reply)
      BY <3>3, <3>6, <3>7, <3>8, <3>10 DEF Turns
    <3> QED BY <1>3, <3>1, <3>3, <3>4, <3>9, <3>11 DEF Turns
  <2>3. CASE ~LogReply(p)
    <3>1. turn' = turn
      BY <2>3 DEF LogPrompt, history
    <3>2. \A r \in ClaudeSessions : log'[r] = log[r] \/ (r = s /\ turn[s].answers = 0)
      <4>1. p \in Servers => s \in ServerSessions
        BY <1>1 DEF Roles, Employed
      <4>2. p \notin Servers => /\ process[p].kind = "prompt" /\ p \in HookProcesses
        BY <1>1, <2>3 DEF LogPrompt, Processes
      <4>3. p \notin Servers => turn[s].answers = 0
        BY <1>1, <4>2 DEF Turns
      <4> QED BY <1>3, <4>1, <4>3, Kinds, SessionSets
    <3>3. \A q \in Alive' : q \in Alive /\ process'[q].kind = process[q].kind
                            /\ process'[q].session = process[q].session
                            /\ process'[q].text = process[q].text
      BY <1>3, <1>4
    <3> QED BY <3>1, <3>2, <3>3 DEF Turns
  <2> QED BY <2>2, <2>3
<1>11. TypeOK'
  <2>1. process' \in [Processes -> Process \cup {NoProcess}]
    BY <1>1, <1>2, LogType
  <2>2. turn' \in [ClaudeSessions -> [reply : Replies \cup {NoText}, answers : Nat]]
    <3>1. turn \in [ClaudeSessions -> [reply : Replies \cup {NoText}, answers : Nat]]
      BY DEF TypeOK
    <3>2. turn' = turn \/ turn' = [turn EXCEPT ![s].answers = turn[s].answers + 1]
      BY DEF LogReply, LogPrompt, history
    <3> QED BY <3>1, <3>2
  <2>3. UNCHANGED <<backend, wal, graph, progress, tmp, failures, kept>>
    BY <1>3 DEF LogReply, LogPrompt, MemoryLog, history
  <2> QED BY <1>3, <2>1, <2>2, <2>3 DEF TypeOK, Progress
<1>12. process[p].pc \in {"log", "idle"}
  BY DEF LogReply, LogPrompt, MemoryLog, At
<1>13. HasLogged(p, role, t, pc)
  BY <1>1, <1>2, LogEffect
<1> QED BY <1>1, <1>6, <1>7, <1>9, <1>10, <1>11, <1>12, <1>13

-----------------------------------------------------------------------------
(* Ending.  The WAL of a session is flushed by the only hook of the        *)
(* session, whose buffer has what is to be kept.                           *)
LEMMA EndingKeeps ==
  ASSUME TypeOK, Roles, Logs, Buffers, Turns, NEW p \in Processes,
         Suspend(p) \/ SuspendFails(p) \/ ClearWal(p)
  PROVE  TypeOK' /\ Roles' /\ Logs' /\ Buffers' /\ Turns'
<1> DEFINE s == process[p].session
<1>1. /\ p \in Alive /\ process[p] \in Process /\ UNCHANGED <<backend, log, progress, tmp, turn>>
      /\ process[p].pc \in {"suspend", "clear"}
      /\ process[p].pc = "clear" => process[p].kind = "end"
      /\ process[p].kind \in {"prompt", "stop", "end", "consolidate"}
  <2>1. /\ p \in Alive /\ UNCHANGED <<backend, log, progress, tmp, turn>>
        /\ process[p].pc \in {"suspend", "clear"}
    BY DEF Suspend, SuspendFails, ClearWal, At, Alive, history
  <2>2. process[p] \in Process
    BY <2>1, ProcessType
  <2>3. /\ process[p].pc = "clear" => process[p].kind = "end"
        /\ process[p].kind \in {"prompt", "stop", "end", "consolidate"}
    BY <2>1, <2>2 DEF Roles, Employed, Consolidates, Process
  <2> QED BY <2>1, <2>2, <2>3
<1>2. /\ process[p].kind = "consolidate" => p \in Commands
      /\ process[p].kind # "consolidate" => p \in HookProcesses /\ p \notin Commands /\ s \in ClaudeSessions
  BY <1>1, Kinds DEF Roles, Employed, Processes
<1>3. /\ process' \in [Processes -> Process \cup {NoProcess}]
      /\ \A q \in Alive' :
           /\ q \in Alive
           /\ q # p => process'[q] = process[q]
           /\ q = p => /\ process'[q].pc = "clear" /\ process[q].kind = "end"
                       /\ process'[q].kind = process[q].kind /\ process'[q].session = process[q].session
                       /\ process'[q].text = process[q].text /\ process'[q].index = process[q].index
                       /\ process'[q].buffer = process[q].buffer
  <2>1. CASE Exits(p)
    BY <2>1, ExitsEffect DEF Alive
  <2>2. CASE Goes(p, "clear") /\ process[p].kind = "end"
    <3>1. /\ process' \in [Processes -> Process \cup {NoProcess}]
          /\ process'[p].pc = "clear"
          /\ process'[p].kind = process[p].kind /\ process'[p].session = process[p].session
          /\ process'[p].text = process[p].text /\ process'[p].index = process[p].index
          /\ process'[p].buffer = process[p].buffer
          /\ \A q \in Processes \ {p} : process'[q] = process[q]
      BY <1>1, <2>2, GoesType
    <3> QED BY <1>1, <2>2, <3>1 DEF Alive
  <2> QED BY <2>1, <2>2 DEF Suspend, SuspendFails, ClearWal
<1>4. Roles'
  <2> SUFFICES ASSUME NEW q \in Alive'
               PROVE  Employed(q)'
    BY DEF Roles
  <2>1. CASE q = p
    BY <1>3, <2>1 DEF Roles, Employed, Consolidates
  <2>2. CASE q # p
    BY <1>3, <2>2 DEF Roles, Employed
  <2> QED BY <2>1, <2>2
<1>5. Logs'
  BY <1>1, <1>3 DEF Logs, Writers
<1>6. /\ \A r \in ClaudeSessions \ {s} : wal'[r] = wal[r] /\ kept'[r] = kept[r]
      /\ process[p].kind = "consolidate" => wal' = wal /\ kept' = kept
      /\ process[p].kind # "consolidate" =>
           /\ wal'[s] = process[p].buffer \/ process[p].kind = "end"
           /\ kept'[s] = kept[s] \/ (process[p].kind = "prompt" /\ process[p].pc = "suspend"
                                       /\ kept'[s] = kept[s] \cup {Len(log[s])})
  <2>1. wal \in [ClaudeSessions -> (SUBSET BufferEntry) \cup {NoFile}] /\ kept \in [ClaudeSessions -> SUBSET (1 .. MaxLog)]
    BY DEF TypeOK
  <2>2. CASE Suspend(p) \/ SuspendFails(p)
    <3>1. wal' = IF process[p].kind = "consolidate" THEN wal ELSE [wal EXCEPT ![s] = process[p].buffer]
      BY <2>2 DEF Suspend, SuspendFails, Flush
    <3>2. \/ kept' = kept
          \/ /\ process[p].kind = "prompt" /\ process[p].pc = "suspend"
             /\ kept' = [kept EXCEPT ![s] = kept[s] \cup {Len(log[s])}]
      BY <2>2 DEF Suspend, SuspendFails, At
    <3> QED BY <1>2, <2>1, <3>1, <3>2
  <2>3. CASE ClearWal(p)
    <3>1. wal' = [wal EXCEPT ![s] = NoFile] /\ kept' = kept /\ process[p].kind = "end"
      BY <1>1, <2>3 DEF ClearWal, At, history
    <3> QED BY <1>2, <2>1, <3>1
  <2> QED BY <2>2, <2>3
<1>7. process[p].buffer # NoFile
  BY <1>1, Sentinels DEF Process, BufferEntry
<1>8. p \in HookProcesses =>
        /\ \A i \in kept[s] : InBuffer(p, s, i)
        /\ process[p].kind = "end" => kept[s] = {}
        /\ process[p].kind = "prompt" /\ process[p].pc = "suspend" =>
             /\ process[p].index = Len(log[s]) /\ Len(log[s]) >= 1 /\ InBuffer(p, s, Len(log[s]))
  BY <1>1, <1>2 DEF Buffers, Logs, Writers
<1>9. Buffers'
  <2>1. ASSUME NEW r \in ClaudeSessions, NEW i \in kept'[r]
        PROVE  i \in 1 .. Len(log[r]) /\ InWal(r, i)'
    <3>1. CASE kept'[r] = kept[r] /\ wal'[r] = wal[r]
      BY <1>1, <2>1, <3>1 DEF Buffers, InWal
    <3>2. CASE ~(kept'[r] = kept[r] /\ wal'[r] = wal[r])
      <4>1. r = s /\ process[p].kind # "consolidate" /\ p \in HookProcesses
        BY <1>2, <1>6, <3>2
      <4>2. process[p].kind # "end"
        BY <1>6, <1>8, <2>1, <4>1
      <4>3. wal'[r] = process[p].buffer
        BY <1>6, <4>1, <4>2
      <4>4. InBuffer(p, r, i)
        BY <1>6, <1>8, <2>1, <4>1
      <4>5. i \in 1 .. Len(log[r])
        <5>1. CASE i \in kept[s]
          BY <4>1, <5>1 DEF Buffers
        <5>2. CASE i \notin kept[s]
          <6>1. i = Len(log[s]) /\ Len(log[s]) >= 1
            BY <1>6, <1>8, <2>1, <4>1, <5>2
          <6>2. Len(log[s]) \in Nat
            BY <1>2, <4>1, SessionSets DEF TypeOK
          <6> QED BY <4>1, <6>1, <6>2
        <5> QED BY <5>1, <5>2
      <4> QED BY <1>1, <1>7, <4>3, <4>4, <4>5 DEF InWal, InBuffer
    <3> QED BY <3>1, <3>2
  <2>2. ASSUME NEW q \in Alive', q \in HookProcesses
        PROVE  /\ \A i \in kept'[process'[q].session] : InBuffer(q, process[q].session, i)'
               /\ process'[q].kind = "end" => kept'[process'[q].session] = {}
               /\ process'[q].kind = "prompt" /\ process'[q].pc = "suspend" =>
                    /\ process'[q].index >= 1
                    /\ InBuffer(q, process[q].session, process[q].index)'
    <3>1. q \in Alive \cap HookProcesses /\ process[q].session \in ClaudeSessions /\ q \notin Commands
      BY <1>3, <2>2, Kinds DEF Roles, Employed
    <3>2. CASE q = p
      <4>1. /\ process'[q].pc = "clear" /\ process[q].kind = "end"
            /\ process'[q].kind = process[q].kind /\ process'[q].session = process[q].session
        BY <1>3, <3>2
      <4>2. kept'[s] = {}
        BY <1>6, <1>8, <3>1, <3>2, <4>1
      <4> QED BY <3>2, <4>1, <4>2
    <3>3. CASE q # p
      <4>1. kept'[process[q].session] = kept[process[q].session]
        <5>1. CASE process[p].kind = "consolidate"
          BY <1>6, <5>1
        <5>2. CASE process[p].kind # "consolidate"
          <6>1. process[q].session # s
            BY <1>1, <1>2, <3>1, <3>3, <5>2 DEF Logs, Writers
          <6> QED BY <1>6, <3>1, <6>1
        <5> QED BY <5>1, <5>2
      <4>2. process'[q] = process[q]
        BY <1>3, <2>2, <3>3
      <4> QED BY <1>1, <3>1, <4>1, <4>2 DEF Buffers, InBuffer
    <3> QED BY <3>2, <3>3
  <2> QED BY <1>1, <2>1, <2>2 DEF Buffers
<1>10. Turns'
  BY <1>1, <1>3 DEF Turns
<1>11. TypeOK'
  <2>1. wal' \in [ClaudeSessions -> (SUBSET BufferEntry) \cup {NoFile}]
    <3>1. wal \in [ClaudeSessions -> (SUBSET BufferEntry) \cup {NoFile}]
      BY DEF TypeOK
    <3>2. process[p].buffer \in SUBSET BufferEntry
      BY <1>1 DEF Process
    <3>3. wal' = wal \/ \E file \in (SUBSET BufferEntry) \cup {NoFile} : wal' = [wal EXCEPT ![s] = file]
      BY <3>2 DEF Suspend, SuspendFails, Flush, ClearWal
    <3> QED BY <3>1, <3>3
  <2>2. graph' \in SUBSET Memorable
    BY <1>1 DEF Suspend, SuspendFails, ClearWal, Saved, Process, TypeOK
  <2>3. kept' \in [ClaudeSessions -> SUBSET (1 .. MaxLog)]
    <3>1. kept \in [ClaudeSessions -> SUBSET (1 .. MaxLog)]
      BY DEF TypeOK
    <3>2. process[p].kind = "prompt" /\ process[p].pc = "suspend" => Len(log[s]) \in 1 .. MaxLog
      <4> HAVE process[p].kind = "prompt" /\ process[p].pc = "suspend"
      <4>1. p \in HookProcesses /\ s \in Sessions
        BY <1>2, SessionSets
      <4>2. Len(log[s]) \in Nat /\ Len(log[s]) <= MaxLog /\ Len(log[s]) >= 1
        BY <1>8, <4>1 DEF Logs, TypeOK
      <4> QED BY <4>2, Bounds
    <3>3. \/ kept' = kept
          \/ /\ process[p].kind = "prompt" /\ process[p].pc = "suspend"
             /\ kept' = [kept EXCEPT ![s] = kept[s] \cup {Len(log[s])}]
      BY DEF Suspend, SuspendFails, ClearWal, At, history
    <3> QED BY <3>1, <3>2, <3>3
  <2>4. failures' \in 0 .. MaxFailures
    BY Bounds DEF Suspend, SuspendFails, ClearWal, TypeOK, history
  <2> QED BY <1>1, <1>3, <2>1, <2>2, <2>3, <2>4 DEF TypeOK
<1> QED BY <1>4, <1>5, <1>9, <1>10, <1>11

-----------------------------------------------------------------------------
(* All steps together.                                                     *)
LEMMA MovesType ==
  ASSUME TypeOK, Logs, Roles, NEW p \in Processes,
         Work(p) \/ RenameState(p) \/ ServerExits(p) \/ Kill(p)
  PROVE  TypeOK'
<1>1. Moves
  BY WorkMoves
<1>2. p \in Alive /\ process[p] \in Process
  <2>1. p \in Alive
    BY DEF Work, SkipReply, MemoryConsolidate, LoadState, NothingPending, Commit, Store, StoreFails,
           OpenState, WriteState, RenameState, ServerExits, Kill, At, Alive
  <2> QED BY <2>1, ProcessType
<1>3. graph' \in SUBSET Memorable
  <2>1. graph' = graph \/ graph' = Saved(p)
    BY DEF Work, SkipReply, MemoryConsolidate, LoadState, NothingPending, Commit, Store, StoreFails,
           OpenState, WriteState, RenameState, ServerExits, Kill, files
  <2> QED BY <1>2, <2>1 DEF TypeOK, Saved, Process
<1>4. /\ progress' \in Progress \cup {NoFile, Empty, Garbled}
      /\ tmp' \in Progress \cup {NoFile, Empty, Garbled}
  <2>1. CASE WriteState(p)
    <3>1. process[p].state \in Progress
      BY <1>2 DEF Process
    <3>2. \/ tmp' \in Overwritten(tmp, process[p].state) /\ UNCHANGED progress
          \/ progress' \in Overwritten(progress, process[p].state) /\ UNCHANGED tmp
          \/ UNCHANGED <<progress, tmp>>
      BY <2>1 DEF WriteState
    <3> QED BY <3>1, <3>2, OverwrittenType DEF TypeOK
  <2>2. CASE RenameState(p) \/ OpenState(p)
    BY <2>2 DEF RenameState, OpenState, TypeOK
  <2>3. CASE ~WriteState(p) /\ ~RenameState(p) /\ ~OpenState(p)
    BY <2>3 DEF Work, SkipReply, MemoryConsolidate, LoadState, NothingPending, Commit, Store, StoreFails,
           ServerExits, Kill, files, TypeOK
  <2> QED BY <2>1, <2>2, <2>3
<1>5. failures' \in 0 .. MaxFailures
  <2>1. failures' = failures \/ (failures < MaxFailures /\ failures' = failures + 1)
    BY DEF Work, SkipReply, MemoryConsolidate, LoadState, NothingPending, Commit, Store, StoreFails,
           OpenState, WriteState, RenameState, ServerExits, Kill, history
  <2> QED BY <2>1, Bounds DEF TypeOK
<1> QED BY <1>1, <1>3, <1>4, <1>5 DEF TypeOK, Moves

(* Starting a hook keeps every variable's shape.                           *)
LEMMA HookStartsType ==
  ASSUME TypeOK, Logs, NEW p \in HookProcesses, NEW s \in ClaudeSessions,
         \/ \E t \in Prompts : Prompt(p, s, t)
         \/ \E t \in Replies : Stop(p, s, t)
         \/ SessionEnd(p, s)
  PROVE  TypeOK'
<1>1. PICK kind \in {"prompt", "stop", "end"}, text \in Texts \cup {NoText}, pc \in {"log", "state"} :
        StartSession(p, kind, s, text, pc)
  BY DEF Prompt, Stop, SessionEnd, Texts
<1>2. p \in Processes /\ s \in Sessions
  BY SessionSets DEF Processes
<1>3. process' \in [Processes -> Process \cup {NoProcess}]
  BY <1>1, <1>2, StartType
<1>4. UNCHANGED <<backend, log, wal, graph, progress, tmp>>
  BY <1>1, <1>2, StartEffect
<1>5. /\ turn' \in [ClaudeSessions -> [reply : Replies \cup {NoText}, answers : Nat]]
      /\ kept' \in [ClaudeSessions -> SUBSET (1 .. MaxLog)]
      /\ failures' = failures
  <2>1. /\ turn \in [ClaudeSessions -> [reply : Replies \cup {NoText}, answers : Nat]]
        /\ kept \in [ClaudeSessions -> SUBSET (1 .. MaxLog)]
    BY DEF TypeOK
  <2>2. /\ \/ turn' = [turn EXCEPT ![s] = [reply |-> NoText, answers |-> 0]]
           \/ \E t \in Replies : turn' = [turn EXCEPT ![s].reply = t]
        /\ kept' = kept \/ kept' = [kept EXCEPT ![s] = {}]
        /\ failures' = failures
    BY DEF Prompt, Stop, SessionEnd, NoTurn
  <2> QED BY <2>1, <2>2
<1> QED BY <1>3, <1>4, <1>5 DEF TypeOK

(* Starting a hook keeps the other parts too.                              *)
LEMMA HookStartsKeep ==
  ASSUME TypeOK, Roles, Logs, Buffers, Turns, NEW p \in HookProcesses, NEW s \in ClaudeSessions,
         \/ \E t \in Prompts : Prompt(p, s, t)
         \/ \E t \in Replies : Stop(p, s, t)
         \/ SessionEnd(p, s)
  PROVE  Roles' /\ Logs' /\ Buffers' /\ Turns'
<1>1. /\ turn \in [ClaudeSessions -> [reply : Replies \cup {NoText}, answers : Nat]]
      /\ kept \in [ClaudeSessions -> SUBSET (1 .. MaxLog)]
  BY DEF TypeOK
<1>2. ASSUME NEW t \in Prompts, Prompt(p, s, t)
      PROVE  Roles' /\ Logs' /\ Buffers' /\ Turns'
  <2>1. /\ StartSession(p, "prompt", s, t, "log") /\ NoHook(s) /\ Room
        /\ turn' = [turn EXCEPT ![s] = [reply |-> NoText, answers |-> 0]] /\ kept' = kept
    BY <1>2 DEF Prompt, NoTurn
  <2>2. /\ \A r \in ClaudeSessions \ {s} : turn'[r] = turn[r] /\ kept'[r] = kept[r]
        /\ kept'[s] = kept[s] /\ turn'[s] = [reply |-> NoText, answers |-> 0]
    BY <1>1, <2>1
  <2> QED BY <2>1, <2>2, HookStarts
<1>3. ASSUME NEW t \in Replies, Stop(p, s, t)
      PROVE  Roles' /\ Logs' /\ Buffers' /\ Turns'
  <2>1. /\ StartSession(p, "stop", s, t, "log") /\ NoHook(s) /\ Room
        /\ turn[s].reply \in {NoText, t}
        /\ turn' = [turn EXCEPT ![s].reply = t] /\ kept' = kept
    BY <1>3 DEF Stop
  <2>2. /\ \A r \in ClaudeSessions \ {s} : turn'[r] = turn[r] /\ kept'[r] = kept[r]
        /\ kept'[s] = kept[s] /\ turn'[s] = [turn[s] EXCEPT !.reply = t]
    BY <1>1, <2>1
  <2> QED BY <2>1, <2>2, HookStarts
<1>4. ASSUME SessionEnd(p, s)
      PROVE  Roles' /\ Logs' /\ Buffers' /\ Turns'
  <2>1. /\ StartSession(p, "end", s, NoText, "state") /\ NoHook(s)
        /\ turn' = [turn EXCEPT ![s] = [reply |-> NoText, answers |-> 0]]
        /\ kept' = [kept EXCEPT ![s] = {}]
    BY <1>4 DEF SessionEnd, NoTurn
  <2>2. /\ \A r \in ClaudeSessions \ {s} : turn'[r] = turn[r] /\ kept'[r] = kept[r]
        /\ kept'[s] = {} /\ turn'[s] = [reply |-> NoText, answers |-> 0]
    BY <1>1, <2>1
  <2> QED BY <2>1, <2>2, HookStarts
<1> QED BY <1>2, <1>3, <1>4

(* So does starting the command or the server.                             *)
LEMMA OthersStartType ==
  ASSUME TypeOK, Logs, NEW p \in Commands \cup Servers,
         \/ p \in Commands /\ ConsolidateCommand(p)
         \/ p \in Servers /\ \E s \in ServerSessions : StartServer(p, s)
  PROVE  TypeOK' /\ UNCHANGED <<turn, kept>>
<1>1. PICK kind \in {"consolidate", "server"}, s \in Sessions \cup {NoText}, pc \in {"state", "idle"} :
        StartSession(p, kind, s, NoText, pc)
  BY SessionSets DEF ConsolidateCommand, StartServer
<1>2. p \in Processes
  BY DEF Processes
<1>3. process' \in [Processes -> Process \cup {NoProcess}]
  BY <1>1, <1>2, StartType
<1>4. UNCHANGED <<backend, log, wal, graph, progress, tmp>>
  BY <1>1, <1>2, StartEffect
<1>5. UNCHANGED <<turn, kept, failures>>
  BY DEF ConsolidateCommand, StartServer, history
<1> QED BY <1>3, <1>4, <1>5 DEF TypeOK

(* The five parts are inductive together.                                  *)
HookInv == TypeOK /\ Roles /\ Logs /\ Buffers /\ Turns

(* They hold at first, ...                                                 *)
LEMMA HookInit == Init => HookInv
<1> SUFFICES ASSUME Init PROVE HookInv
  OBVIOUS
<1>1. Alive = {}
  BY DEF Init, Alive
<1>2. TypeOK
  BY Bounds DEF Init, TypeOK
<1>3. \A s \in Sessions : Len(log[s]) = 0
  BY DEF Init
<1>4. \A s \in ClaudeSessions : kept[s] = {} /\ turn[s].answers = 0
  BY DEF Init
<1> QED BY <1>1, <1>2, <1>3, <1>4, Bounds DEF HookInv, Roles, Logs, Buffers, Turns, Writers

(* ... every step keeps them, ...                                          *)
LEMMA HookStep == HookInv /\ [Next]_vars => HookInv'
<1> SUFFICES ASSUME TypeOK, Roles, Logs, Buffers, Turns, [Next]_vars
             PROVE  HookInv'
  BY DEF HookInv
<1>1. ASSUME NEW p \in HookProcesses, NEW s \in ClaudeSessions,
             \/ \E t \in Prompts : Prompt(p, s, t)
             \/ \E t \in Replies : Stop(p, s, t)
             \/ SessionEnd(p, s)
      PROVE  HookInv'
  BY <1>1, HookStartsType, HookStartsKeep DEF HookInv
<1>2. ASSUME NEW p \in Commands \cup Servers,
             \/ p \in Commands /\ ConsolidateCommand(p)
             \/ p \in Servers /\ \E s \in ServerSessions : StartServer(p, s)
      PROVE  HookInv'
  BY <1>2, OthersStartType, OthersStart DEF HookInv
<1>3. ASSUME NEW p \in Processes, NEW t \in Texts, UNCHANGED kept,
             \/ LogReply(p) /\ t = process[p].text
             \/ LogPrompt(p) /\ t = process[p].text
             \/ p \in Servers /\ MemoryLog(p, t) /\ UNCHANGED turn
      PROVE  HookInv'
  BY <1>3, LoggingKeeps DEF HookInv
<1>4. ASSUME NEW p \in Processes, LogReply(p) \/ LogPrompt(p)
      PROVE  HookInv'
  <2>1. process[p].text \in Texts
    <3>1. p \in Alive
      BY <1>4 DEF LogReply, LogPrompt, At, Alive
    <3>2. process[p].kind \in {"prompt", "stop"}
      BY <1>4 DEF LogReply, LogPrompt
    <3> QED BY <3>1, <3>2 DEF Roles, Employed, Texts
  <2>2. UNCHANGED kept
    BY <1>4 DEF LogReply, LogPrompt, history
  <2> QED BY <1>3, <1>4, <2>1, <2>2
<1>5. ASSUME NEW p \in Servers, NEW t \in Prompts, MemoryLog(p, t)
      PROVE  HookInv'
  <2>1. p \in Processes /\ t \in Texts /\ UNCHANGED <<turn, kept>>
    BY <1>5 DEF Processes, Texts, MemoryLog, history
  <2> QED BY <1>3, <1>5, <2>1
<1>6. ASSUME NEW p \in Processes, Work(p) \/ RenameState(p) \/ ServerExits(p) \/ Kill(p)
      PROVE  HookInv'
  BY <1>6, MovesType, WorkMoves, MovesKeep DEF HookInv
<1>7. ASSUME NEW p \in Processes, Suspend(p) \/ SuspendFails(p) \/ ClearWal(p)
      PROVE  HookInv'
  BY <1>7, EndingKeeps DEF HookInv
<1>8. CASE UNCHANGED vars
  BY <1>8 DEF vars, HookInv, TypeOK, Roles, Employed, Logs, Writers, Buffers, InWal, InBuffer,
              Turns, Alive
<1>9. CASE Event
  <2>1. \A p \in Servers : p \in Processes /\ p \in Commands \cup Servers
    BY DEF Processes
  <2>2. \A p \in Servers : MemoryConsolidate(p) => Work(p)
    BY DEF Work
  <2> QED BY <1>1, <1>2, <1>5, <1>6, <1>9, <2>1, <2>2 DEF Event
<1>10. CASE Commanded
  BY <1>2, <1>10 DEF Commanded
<1>11. ASSUME NEW p \in Processes, Step(p) \/ Failure(p)
       PROVE  HookInv'
  BY <1>4, <1>6, <1>7, <1>11 DEF Step, Failure, Logging, Consolidating, Ending, Work
<1>12. ASSUME NEW p \in Servers, ServerExits(p)
       PROVE  HookInv'
  BY <1>6, <1>12 DEF Processes
<1> QED BY <1>8, <1>9, <1>10, <1>11, <1>12 DEF Next

(* ... and so they hold for ever.                                          *)
LEMMA HooksHold == Spec => []HookInv
BY HookInit, HookStep, PTL DEF Spec

(* Every variable keeps its shape: in particular no position that a buffer *)
(* or a progress state names lies beyond the bound of the logs.            *)
THEOREM ProcessesKeepTheirShape == Spec => []TypeOK
<1>1. HookInv => TypeOK
  BY DEF HookInv
<1> QED BY <1>1, HooksHold, PTL

(* What a prompt put in the buffer is in the WAL, under the number that    *)
(* its message has in the log, until the session ends.                     *)
THEOREM BuffersAreResumed == Spec => []BufferIsResumed
<1>1. HookInv => BufferIsResumed
  BY DEF HookInv, Buffers, InWal, BufferIsResumed
<1> QED BY <1>1, HooksHold, PTL

(* However often the Stop hook fires or is killed, a turn's reply is       *)
(* logged once at most.                                                    *)
THEOREM TurnsHaveOneReply == Spec => []RepliesAreLoggedOnce
<1>1. HookInv => RepliesAreLoggedOnce
  BY DEF HookInv, Turns, RepliesAreLoggedOnce
<1> QED BY <1>1, HooksHold, PTL

-----------------------------------------------------------------------------
(* Processes that do not overlap.                                          *)
LEMMA FilesDiffer ==
  /\ NoFile # Empty /\ NoFile # Garbled /\ Empty # Garbled
  /\ \A state \in Progress : state \notin {NoFile, Empty, Garbled}
<1>1. ASSUME NEW a, NEW b
      PROVE  Cardinality({a, b}) # 3
  <2>1. IsFiniteSet({a}) /\ Cardinality({a}) = 1
    BY FS_Singleton
  <2>2. Cardinality({a} \cup {b}) = IF b \in {a} THEN 1 ELSE 1 + 1
    BY <2>1, FS_AddElement
  <2>3. {a} \cup {b} = {a, b}
    OBVIOUS
  <2> QED BY <2>2, <2>3
<1>2. Cardinality({NoFile, Empty, Garbled}) = 3
  BY Sentinels
<1>3. NoFile # Empty
  <2> SUFFICES ASSUME NoFile = Empty PROVE FALSE
    OBVIOUS
  <2>1. {NoFile, Empty, Garbled} = {Empty, Garbled}
    OBVIOUS
  <2> QED BY <1>1, <1>2, <2>1
<1>4. NoFile # Garbled
  <2> SUFFICES ASSUME NoFile = Garbled PROVE FALSE
    OBVIOUS
  <2>1. {NoFile, Empty, Garbled} = {Empty, Garbled}
    OBVIOUS
  <2> QED BY <1>1, <1>2, <2>1
<1>5. Empty # Garbled
  <2> SUFFICES ASSUME Empty = Garbled PROVE FALSE
    OBVIOUS
  <2>1. {NoFile, Empty, Garbled} = {NoFile, Garbled}
    OBVIOUS
  <2> QED BY <1>1, <1>2, <2>1
<1>6. \A state \in Progress : state \notin {NoFile, Empty, Garbled}
  <2> TAKE state \in Progress
  <2>1. state \in [Sessions -> Nat]
    BY Bounds DEF Progress
  <2> QED BY <2>1, Sentinels
<1> QED BY <1>3, <1>4, <1>5, <1>6

(* What each step does to the progress files and to the graph, to the      *)
(* places of processes and to what they hold.                              *)
Idles(p) ==  \* files stay, and what p has in hand is as good as before
  /\ UNCHANGED <<backend, log, graph, progress, tmp>>
  /\ p \in Alive
  /\ \A q \in Alive' : q \in Alive
  /\ \A q \in Alive \ {p} : process'[q] = process[q]
  /\ p \in Alive' => /\ process'[p] \in Process
                     /\ process'[p].pc \in {"suspend", "state", "idle", "pick"}
                     /\ process'[p].memory = process[p].memory
                     /\ process'[p].dirty \in {process[p].dirty} \cup (IF backend = "json" THEN {} ELSE {{}})
                     /\ \/ process'[p].state \in {Untouched, Recorded}
                        \/ process'[p].state = process[p].state /\ process[p].pc # "store"

(* These steps idle.                                                       *)
LEMMA StepsThatIdle ==
  ASSUME TypeOK, Roles, NEW p \in Processes,
         \/ SkipReply(p) \/ MemoryConsolidate(p) \/ LoadState(p) \/ NothingPending(p)
         \/ StoreFails(p) \/ ServerExits(p) \/ Kill(p) \/ SuspendFails(p) \/ ClearWal(p)
  PROVE  Idles(p)
<1> DEFINE old == process[p]
<1>1. /\ p \in Alive /\ old \in Process /\ UNCHANGED <<backend, log, graph, progress, tmp>>
  <2>1. p \in Alive /\ UNCHANGED <<backend, log, graph, progress, tmp>>
    BY DEF SkipReply, MemoryConsolidate, LoadState, NothingPending, StoreFails, ServerExits, Kill,
           SuspendFails, ClearWal, At, Alive, files, history
  <2> QED BY <2>1, ProcessType
<1>2. ASSUME NEW r \in Process, Becomes(p, r), r.pc \in {"suspend", "state", "idle", "pick"},
             r.memory = old.memory,
             r.dirty = old.dirty \/ (r.dirty = {} /\ backend # "json"),
             r.state \in {Untouched, Recorded} \/ (r.state = old.state /\ old.pc # "store")
      PROVE  Idles(p)
  <2>1. process'[p] = r /\ \A q \in Alive \ {p} : process'[q] = process[q]
    BY <1>2, BecomesEffect DEF Alive
  <2>2. \A q \in Alive' : q \in Alive
    BY <1>1, <1>2, BecomesEffect DEF Alive
  <2> QED BY <1>1, <1>2, <2>1, <2>2 DEF Idles
<1>3. CASE Exits(p)
  <2>1. \A q \in Alive' : q \in Alive /\ q # p
    BY <1>3, ExitsEffect
  <2>2. \A q \in Alive \ {p} : process'[q] = process[q]
    BY <1>3, ExitsEffect DEF Alive
  <2> QED BY <1>1, <2>1, <2>2 DEF Idles
<1>4. CASE SkipReply(p) \/ MemoryConsolidate(p)
  <2>1. PICK pc \in {"suspend", "state"} : Goes(p, pc) /\ old.pc # "store"
    BY <1>4 DEF SkipReply, MemoryConsolidate, At
  <2> DEFINE r == [old EXCEPT !.pc = pc]
  <2>2. r \in Process /\ r.pc = pc /\ r.memory = old.memory /\ r.dirty = old.dirty /\ r.state = old.state
    BY <1>1 DEF Process
  <2>3. Becomes(p, r)
    BY <2>1 DEF Goes
  <2> HIDE DEF r
  <2> QED BY <1>2, <2>1, <2>2, <2>3
<1>5. CASE LoadState(p) \/ NothingPending(p)
  <2>1. old.pc # "store"
    BY <1>5 DEF LoadState, NothingPending, At
  <2>2. CASE Becomes(p, Leaves(p))
    BY <1>1, <1>2, <2>1, <2>2, LeavesType
  <2>3. CASE Becomes(p, [old EXCEPT !.pc = "pick", !.state = Recorded, !.todo = Wanted(p)])
    <3> DEFINE state == Recorded
               todo == Wanted(p)
               r == [old EXCEPT !.pc = "pick", !.state = state, !.todo = todo]
    <3>1. todo \in SUBSET Sessions
      BY DEF Wanted
    <3>2. state \in Progress
      <4>1. Untouched \in Progress
        BY Bounds DEF Untouched, Progress
      <4> QED BY <4>1 DEF Recorded, Readable, TypeOK
    <3>3. Becomes(p, r) /\ state = Recorded
      BY <2>3
    <3> HIDE DEF state, todo
    <3>4. /\ r \in Process /\ r.pc = "pick" /\ r.memory = old.memory /\ r.dirty = old.dirty
          /\ r.state = state
      BY <1>1, <3>1, <3>2 DEF Process
    <3> HIDE DEF r
    <3> QED BY <1>2, <2>1, <3>3, <3>4
  <2> QED BY <1>5, <2>2, <2>3 DEF LoadState, NothingPending
<1>6. CASE StoreFails(p)
  <2> DEFINE left == Leaves(p)
             dirty == IF backend = "json" THEN left.dirty ELSE {}
             r == [left EXCEPT !.dirty = dirty]
  <2>1. /\ left \in Process /\ left.pc \in {"suspend", "idle"} /\ left.memory = old.memory
        /\ left.dirty = old.dirty /\ left.state = Untouched
    BY <1>1, LeavesType
  <2>2. Becomes(p, r)
    BY <1>6 DEF StoreFails
  <2> HIDE DEF left
  <2>3. dirty \in SUBSET Memorable /\ (dirty = old.dirty \/ (dirty = {} /\ backend # "json"))
    BY <2>1 DEF Process
  <2> HIDE DEF dirty
  <2>4. /\ r \in Process /\ r.pc = left.pc /\ r.memory = old.memory /\ r.dirty = dirty
        /\ r.state = Untouched
    BY <2>1, <2>3 DEF Process
  <2> HIDE DEF r
  <2> QED BY <1>2, <2>1, <2>2, <2>3, <2>4
<1> QED BY <1>3, <1>4, <1>5, <1>6 DEF ServerExits, Kill, SuspendFails, ClearWal

(* The other steps: a process starts, logs, ...                            *)
Starts(p) ==
  /\ p \notin Alive /\ UNCHANGED <<backend, log, graph, progress, tmp>>
  /\ backend \notin Shared => Alive = {}
  /\ process' \in [Processes -> Process \cup {NoProcess}]
  /\ \A q \in Alive : process'[q] = process[q]
  /\ \A q \in Alive' : q = p \/ q \in Alive
  /\ process'[p].pc \in {"log", "state", "idle"}
  /\ process'[p].memory = graph /\ process'[p].dirty = {} /\ process'[p].state = Untouched
Says(p) ==
  /\ p \in Alive /\ process[p].pc \in {"log", "idle"} /\ process[p].session \in Sessions
  /\ \E role \in {"user", "assistant"}, t \in Texts, pc \in {"suspend", "idle"} :
       HasLogged(p, role, t, pc)

(* ... and there is nothing else.                                          *)
LEMMA StepKinds ==
  ASSUME HookInv, [Next]_vars
  PROVE  \/ UNCHANGED vars
         \/ \E p \in Processes :
              \/ Starts(p) \/ Says(p) \/ Idles(p)
              \/ \E s \in Sessions : Commit(p, s)
              \/ Store(p) \/ Suspend(p) \/ OpenState(p) \/ WriteState(p) \/ RenameState(p)
<1> USE DEF HookInv
<1>1. ASSUME NEW p \in Processes, NEW kind \in {"prompt", "stop", "end", "consolidate", "server"},
             NEW s \in Sessions \cup {NoText}, NEW text \in Texts \cup {NoText},
             NEW pc \in {"log", "state", "idle"}, StartSession(p, kind, s, text, pc)
      PROVE  Starts(p)
  <2>1. process' \in [Processes -> Process \cup {NoProcess}]
    BY <1>1, StartType
  <2>2. \A q \in Alive : q \in Processes \ {p}
    BY <1>1, StartEffect DEF Alive
  <2> QED BY <1>1, <2>1, <2>2, StartEffect DEF Starts
<1>2. CASE Event \/ Commanded
  <2>1. ASSUME NEW p \in HookProcesses, NEW s \in ClaudeSessions,
               \/ \E t \in Prompts : Prompt(p, s, t)
               \/ \E t \in Replies : Stop(p, s, t)
               \/ SessionEnd(p, s)
        PROVE  Starts(p)
    <3>1. PICK kind \in {"prompt", "stop", "end"}, text \in Texts \cup {NoText}, pc \in {"log", "state"} :
            StartSession(p, kind, s, text, pc)
      BY <2>1 DEF Prompt, Stop, SessionEnd, Texts
    <3> QED BY <1>1, <3>1, SessionSets DEF Processes
  <2>2. ASSUME NEW p \in Commands \cup Servers,
               ConsolidateCommand(p) \/ \E s \in ServerSessions : StartServer(p, s)
        PROVE  Starts(p)
    <3>1. PICK kind \in {"consolidate", "server"}, s \in Sessions \cup {NoText}, pc \in {"state", "idle"} :
            StartSession(p, kind, s, NoText, pc)
      BY <2>2, SessionSets DEF ConsolidateCommand, StartServer
    <3> QED BY <1>1, <3>1 DEF Processes
  <2>3. ASSUME NEW p \in Servers, NEW t \in Prompts, MemoryLog(p, t)
        PROVE  Says(p)
    <3>1. UNCHANGED <<kept, turn>> /\ p \in Processes /\ t \in Texts
      BY <2>3 DEF MemoryLog, history, Processes, Texts
    <3> QED BY <2>3, <3>1, LoggingKeeps DEF Says
  <2>4. ASSUME NEW p \in Servers, MemoryConsolidate(p)
        PROVE  Idles(p)
    BY <2>4, StepsThatIdle DEF Processes
  <2>5. HookProcesses \subseteq Processes /\ Commands \subseteq Processes /\ Servers \subseteq Processes
    BY DEF Processes
  <2> QED BY <1>2, <2>1, <2>2, <2>3, <2>4, <2>5 DEF Event, Commanded
<1>3. ASSUME NEW p \in Processes, LogReply(p) \/ LogPrompt(p)
      PROVE  Says(p)
  <2>1. process[p].text \in Texts /\ UNCHANGED kept
    <3>1. p \in Alive /\ process[p].kind \in {"prompt", "stop"}
      BY <1>3 DEF LogReply, LogPrompt, At, Alive
    <3> QED BY <1>3, <3>1 DEF Roles, Employed, Texts, LogReply, LogPrompt, history
  <2> QED BY <1>3, <2>1, LoggingKeeps DEF Says
<1>4. ASSUME NEW p \in Processes, Step(p) \/ Failure(p)
      PROVE  \/ Starts(p) \/ Says(p) \/ Idles(p)
             \/ \E s \in Sessions : Commit(p, s)
             \/ Store(p) \/ Suspend(p) \/ OpenState(p) \/ WriteState(p) \/ RenameState(p)
  BY <1>3, <1>4, StepsThatIdle DEF Step, Failure, Logging, Consolidating, Ending
<1>5. ASSUME NEW p \in Servers, ServerExits(p)
      PROVE  p \in Processes /\ Idles(p)
  BY <1>5, StepsThatIdle DEF Processes
<1> QED BY <1>2, <1>4, <1>5 DEF Next

(* Opening and writing the temporary file.                                 *)
LEMMA FileSteps ==
  ASSUME TypeOK, NEW p \in Processes, OpenState(p) \/ WriteState(p)
  PROVE  /\ p \in Alive /\ process[p] \in Process /\ process'[p] \in Process
         /\ UNCHANGED <<backend, log, graph>>
         /\ \A q \in Alive' : q \in Alive
         /\ \A q \in Alive \ {p} : process'[q] = process[q]
         /\ process'[p].state = process[p].state /\ process'[p].memory = process[p].memory
         /\ process'[p].dirty = process[p].dirty
         /\ \/ /\ process[p].pc = "open" /\ process'[p].pc = "write" /\ process'[p].handle = "tmp"
               /\ tmp' = Empty /\ progress' = progress
            \/ /\ process[p].pc = "write" /\ process'[p].pc = "rename"
               /\ \/ /\ process[p].handle = "tmp" /\ progress' = progress
                     /\ tmp' \in Overwritten(tmp, process[p].state)
                  \/ /\ process[p].handle # "tmp" /\ tmp' = tmp
                     /\ progress' \in Overwritten(progress, process[p].state)
                  \/ process[p].handle # "tmp" /\ tmp' = tmp /\ progress' = progress
<1> DEFINE old == process[p]
<1>1. p \in Alive /\ old \in Process /\ UNCHANGED <<backend, log, graph>>
  <2>1. p \in Alive /\ UNCHANGED <<backend, log, graph>>
    BY DEF OpenState, WriteState, At, Alive
  <2> QED BY <2>1, ProcessType
<1>2. PICK pc \in {"write", "rename"}, handle \in {"tmp", "gone"} :
        /\ Becomes(p, [old EXCEPT !.pc = pc, !.handle = handle])
        /\ OpenState(p) => pc = "write" /\ handle = "tmp"
        /\ ~OpenState(p) => pc = "rename"
  BY DEF OpenState, WriteState, Opened, At
<1> DEFINE r == [old EXCEPT !.pc = pc, !.handle = handle]
<1>3. /\ r \in Process /\ r.pc = pc /\ r.handle = handle /\ r.state = old.state
      /\ r.memory = old.memory /\ r.dirty = old.dirty
  BY <1>1 DEF Process
<1>4. Becomes(p, r)
  BY <1>2
<1> HIDE DEF r
<1>5. process'[p] = r /\ \A q \in Processes \ {p} : process'[q] = process[q]
  BY <1>4, BecomesEffect
<1>6. \A q \in Alive' : q \in Alive
  BY <1>1, <1>5 DEF Alive
<1>7. \A q \in Alive \ {p} : process'[q] = process[q]
  BY <1>5 DEF Alive
<1>8. CASE OpenState(p)
  BY <1>1, <1>2, <1>3, <1>5, <1>6, <1>7, <1>8 DEF OpenState, At
<1>9. CASE ~OpenState(p)
  <2>1. /\ old.pc = "write"
        /\ \/ /\ old.handle = "tmp" /\ progress' = progress
              /\ tmp' \in Overwritten(tmp, old.state)
           \/ /\ old.handle # "tmp" /\ tmp' = tmp
              /\ progress' \in Overwritten(progress, old.state)
           \/ old.handle # "tmp" /\ tmp' = tmp /\ progress' = progress
    BY <1>9 DEF WriteState, At
  <2> QED BY <1>1, <1>2, <1>3, <1>5, <1>6, <1>7, <1>9, <2>1
<1> QED BY <1>8, <1>9

(* Storing the graph and going on, or ending.                              *)
LEMMA SavingSteps ==
  ASSUME TypeOK, Roles, NEW p \in Processes, Store(p) \/ Suspend(p)
  PROVE  /\ p \in Alive /\ process[p] \in Process
         /\ UNCHANGED <<backend, log, progress, tmp>>
         /\ graph' = WouldSave(process[p], backend, graph)
         /\ \A q \in Alive' : q \in Alive
         /\ \A q \in Alive \ {p} : process'[q] = process[q]
         /\ process[p].pc \in {"store", "suspend"}
         /\ p \in Alive' => /\ process'[p] \in Process
                            /\ process'[p].pc \in {"open", "clear"}
                            /\ process'[p].state = process[p].state
                            /\ process'[p].memory = process[p].memory
                            /\ process'[p].dirty \subseteq process[p].dirty
<1> DEFINE old == process[p]
<1>1. /\ p \in Alive /\ old \in Process /\ UNCHANGED <<backend, log, progress, tmp>>
      /\ old.pc \in {"store", "suspend"} /\ graph' = WouldSave(old, backend, graph)
  <2>1. /\ p \in Alive /\ UNCHANGED <<backend, log, progress, tmp>>
        /\ old.pc \in {"store", "suspend"} /\ graph' = WouldSave(old, backend, graph)
    BY DEF Store, Suspend, At, Alive, Saved, WouldSave
  <2> QED BY <2>1, ProcessType
<1>2. CASE Exits(p)
  <2>1. \A q \in Alive' : q \in Alive /\ q # p
    BY <1>2, ExitsEffect
  <2>2. \A q \in Alive \ {p} : process'[q] = process[q]
    BY <1>2, ExitsEffect DEF Alive
  <2> QED BY <1>1, <2>1, <2>2
<1>3. ASSUME NEW r \in Process, Becomes(p, r), r.pc \in {"open", "clear"}, r.state = old.state,
             r.memory = old.memory, r.dirty \subseteq old.dirty
      PROVE  /\ \A q \in Alive' : q \in Alive
             /\ \A q \in Alive \ {p} : process'[q] = process[q]
             /\ process'[p] = r
  BY <1>1, <1>3, BecomesEffect DEF Alive
<1>4. CASE Store(p)
  <2> DEFINE r == [old EXCEPT !.pc = "open", !.dirty = {}]
  <2>1. /\ r \in Process /\ r.pc = "open" /\ r.state = old.state /\ r.memory = old.memory
        /\ r.dirty = {}
    BY <1>1 DEF Process
  <2>2. Becomes(p, r)
    BY <1>4 DEF Store
  <2> HIDE DEF r
  <2> QED BY <1>1, <1>3, <2>1, <2>2
<1>5. CASE Goes(p, "clear")
  <2> DEFINE r == [old EXCEPT !.pc = "clear"]
  <2>1. /\ r \in Process /\ r.pc = "clear" /\ r.state = old.state /\ r.memory = old.memory
        /\ r.dirty = old.dirty
    BY <1>1 DEF Process
  <2>2. Becomes(p, r)
    BY <1>5 DEF Goes
  <2> HIDE DEF r
  <2> QED BY <1>1, <1>3, <2>1, <2>2
<1> QED BY <1>2, <1>4, <1>5 DEF Suspend

(* Each step of a lone process keeps the temporary file its own.           *)
LEMMA AloneStep == HookInv /\ Alone /\ [Next]_vars => Alone'
<1> SUFFICES ASSUME HookInv, Alone, [Next]_vars, backend' \notin Shared
             PROVE  /\ \A p, q \in Alive' : p = q
                    /\ Readable'
                    /\ \A p \in Alive' :
                         /\ process'[p].pc = "write" => process'[p].handle = "tmp" /\ tmp' = Empty
                         /\ process'[p].pc = "rename" => tmp' = process'[p].state
  BY DEF Alone
<1> USE DEF HookInv
<1>1. ASSUME backend \notin Shared, NEW p, \A q \in Alive' : q = p, Readable',
             p \in Alive' => process'[p].pc \notin {"write", "rename"}
      PROVE  /\ \A q, r \in Alive' : q = r
             /\ \A q \in Alive' :
                  /\ process'[q].pc = "write" => process'[q].handle = "tmp" /\ tmp' = Empty
                  /\ process'[q].pc = "rename" => tmp' = process'[q].state
  BY <1>1
<1>2. CASE UNCHANGED vars
  BY <1>2 DEF vars, Alone, Alive, Readable
<1>3. ASSUME NEW p \in Processes, Starts(p)
      PROVE  /\ Alone'
  <2>1. /\ backend \notin Shared /\ \A q \in Alive' : q = p /\ progress' = progress
        /\ process'[p].pc \notin {"write", "rename"}
    BY <1>3 DEF Starts
  <2>2. backend \notin Shared /\ Readable'
    BY <1>3 DEF Starts, Alone, Readable
  <2>3. \A q \in Alive' : q = p
    BY <2>1
  <2> QED BY <1>1, <2>1, <2>2, <2>3 DEF Alone
<1>4. ASSUME NEW p \in Processes, p \in Alive, UNCHANGED <<backend, progress>>,
             \A q \in Alive' : q \in Alive,
             p \in Alive' => process'[p].pc \notin {"write", "rename"}
      PROVE  Alone'
  <2>1. backend \notin Shared /\ Readable' /\ \A q \in Alive' : q = p
    BY <1>4 DEF Alone, Readable
  <2> QED BY <1>1, <1>4, <2>1 DEF Alone
<1>5. ASSUME NEW p \in Processes, Says(p)
      PROVE  Alone'
  <2>1. PICK pc \in {"suspend", "idle"} :
          /\ UNCHANGED <<backend, progress>> /\ process'[p].pc = pc /\ p \in Alive
          /\ \A q \in Alive' : q \in Alive
    BY <1>5 DEF Says, HasLogged
  <2> QED BY <1>4, <2>1
<1>6. ASSUME NEW p \in Processes, Idles(p)
      PROVE  Alone'
  BY <1>4, <1>6 DEF Idles
<1>7. ASSUME NEW p \in Processes, NEW s \in Sessions, Commit(p, s)
      PROVE  Alone'
  <2>1. p \in Alive /\ UNCHANGED <<backend, progress>>
    BY <1>7 DEF Commit, At, Alive, files
  <2>2. PICK r \in Process : Becomes(p, r) /\ r.pc \in {"open", "store"}
    BY <1>7, <2>1, CommitType
  <2>3. process'[p] = r /\ \A q \in Alive' : q \in Alive
    BY <2>1, <2>2, BecomesEffect DEF Alive
  <2> QED BY <1>4, <2>1, <2>2, <2>3
<1>8. ASSUME NEW p \in Processes, Store(p) \/ Suspend(p)
      PROVE  Alone'
  BY <1>4, <1>8, SavingSteps
<1>9. ASSUME NEW p \in Processes, OpenState(p) \/ WriteState(p)
      PROVE  Alone'
  <2>1. /\ p \in Alive /\ process[p] \in Process /\ UNCHANGED backend
        /\ \A q \in Alive' : q \in Alive
        /\ process'[p].state = process[p].state
    BY <1>9, FileSteps
  <2>2. /\ \A q \in Alive' : q = p
        /\ Readable
        /\ process[p].pc = "write" => process[p].handle = "tmp" /\ tmp = Empty
    BY <2>1 DEF Alone
  <2>3. \/ /\ process'[p].pc = "write" /\ process'[p].handle = "tmp"
           /\ tmp' = Empty /\ progress' = progress
        \/ /\ process'[p].pc = "rename" /\ progress' = progress
           /\ tmp' \in Overwritten(tmp, process[p].state) /\ tmp = Empty
    BY <1>9, <2>2, FileSteps
  <2>4. \/ /\ process'[p].pc = "write" /\ process'[p].handle = "tmp" /\ tmp' = Empty
        \/ process'[p].pc = "rename" /\ tmp' = process'[p].state
    BY <2>1, <2>3 DEF Overwritten
  <2>5. Readable'
    BY <2>2, <2>3 DEF Readable
  <2> QED BY <2>2, <2>4, <2>5 DEF Alone
<1>10. ASSUME NEW p \in Processes, RenameState(p)
       PROVE  Alone'
  <2>1. p \in Alive /\ process[p].pc = "rename" /\ \A q \in Alive' : q \in Alive
    BY <1>10, RenameEffect
  <2>2. UNCHANGED backend
    BY <1>10, RenameEffect
  <2>3. tmp = process[p].state /\ Readable /\ process[p].state \in Progress
    <3>1. process[p] \in Process
      BY <2>1, ProcessType
    <3> QED BY <2>1, <2>2, <3>1 DEF Alone, Process
  <2>4. Readable'
    <3>1. progress' \in {progress, tmp}
      BY <1>10, RenameEffect
    <3> QED BY <2>3, <3>1, FilesDiffer DEF Readable
  <2>5. p \in Alive' => process'[p].pc \notin {"write", "rename"}
    <3>1. tmp # NoFile
      BY <2>3, FilesDiffer
    <3> QED BY <1>10, <2>1, <3>1, RenameEffect
  <2>6. backend \notin Shared /\ \A q \in Alive' : q = p
    BY <2>1, <2>2 DEF Alone
  <2> QED BY <1>1, <2>4, <2>5, <2>6 DEF Alone
<1> QED BY <1>2, <1>3, <1>5, <1>6, <1>7, <1>8, <1>9, <1>10, StepKinds DEF Alone

(* Processes that do not overlap leave a progress file that can be read,   *)
(* wherever they are killed.                                               *)
THEOREM ProgressIsReadable == Spec => []ProgressStaysReadable
<1>1. Init => Alone
  <2>1. Init => Alive = {}
    BY DEF Init, Alive
  <2>2. Init => Readable
    BY FilesDiffer DEF Init, Readable
  <2> QED BY <2>1, <2>2 DEF Alone
<1>2. HookInv /\ Alone => ProgressStaysReadable
  BY DEF Alone, ProgressStaysReadable
<1> QED BY <1>1, <1>2, AloneStep, HooksHold, PTL DEF Spec

-----------------------------------------------------------------------------
(* Texts and claims.  Logs only grow, at their ends.                       *)
LogBooks == [Sessions -> Seq([role : {"user", "assistant"}, text : Texts])]
Extends(l, m) ==
  \A s \in Sessions : /\ Len(l[s]) <= Len(m[s])
                      /\ \A i \in 1 .. Len(l[s]) : m[s][i] = l[s][i]

(* What is below a progress state is some message's text.                  *)
LEMMA BelowMeans ==
  ASSUME NEW l, NEW state, NEW c
  PROVE  c \in TextsBelow(l, state) <=>
           c \in Memorable /\ \E s \in Sessions : \E i \in 1 .. state[s] : c = l[s][i].text
<1> DEFINE texts(s) == {l[s][i].text : i \in 1 .. state[s]}
<1>1. \A s \in Sessions : c \in texts(s) <=> \E i \in 1 .. state[s] : c = l[s][i].text
  OBVIOUS
<1>2. TextsBelow(l, state) = (UNION {texts(s) : s \in Sessions}) \cap Memorable
  BY DEF TextsBelow
<1> HIDE DEF texts
<1>3. c \in TextsBelow(l, state) <=> c \in Memorable /\ \E s \in Sessions : c \in texts(s)
  BY <1>2
<1> QED BY <1>1, <1>3

(* What is in the logs is some message's text.                             *)
LEMMA TextsMean ==
  ASSUME NEW l \in LogBooks, NEW c
  PROVE  c \in TextsOf(l) <=>
           c \in Memorable /\ \E s \in Sessions : \E i \in 1 .. Len(l[s]) : c = l[s][i].text
<1> DEFINE texts(s) == {l[s][i].text : i \in DOMAIN l[s]}
<1>1. \A s \in Sessions : DOMAIN l[s] = 1 .. Len(l[s])
  BY DEF LogBooks
<1>2. \A s \in Sessions : c \in texts(s) <=> \E i \in DOMAIN l[s] : c = l[s][i].text
  OBVIOUS
<1>3. \A s \in Sessions : c \in texts(s) <=> \E i \in 1 .. Len(l[s]) : c = l[s][i].text
  BY <1>1, <1>2
<1>4. TextsOf(l) = (UNION {texts(s) : s \in Sessions}) \cap Memorable
  BY DEF TextsOf
<1> HIDE DEF texts
<1>5. c \in TextsOf(l) <=> c \in Memorable /\ \E s \in Sessions : c \in texts(s)
  BY <1>4
<1> QED BY <1>3, <1>5

(* A state that fits the logs means the same when they have grown.         *)
LEMMA TextsStay ==
  ASSUME NEW l \in LogBooks, NEW m \in LogBooks, Extends(l, m), NEW state \in Progress, Fits(state, l)
  PROVE  Fits(state, m) /\ TextsBelow(m, state) = TextsBelow(l, state)
<1>1. \A s \in Sessions : /\ Len(l[s]) \in Nat /\ Len(m[s]) \in Nat /\ state[s] \in Nat
                          /\ state[s] <= Len(l[s]) /\ Len(l[s]) <= Len(m[s])
  BY Bounds DEF LogBooks, Progress, Fits, Extends
<1>2. \A s \in Sessions : \A i \in 1 .. state[s] : m[s][i] = l[s][i]
  BY <1>1 DEF Extends
<1>3. Fits(state, m)
  BY <1>1 DEF Fits
<1>4. ASSUME NEW c
      PROVE  c \in TextsBelow(m, state) <=> c \in TextsBelow(l, state)
  BY <1>2, BelowMeans
<1>5. TextsBelow(m, state) = TextsBelow(l, state)
  BY <1>4
<1> QED BY <1>3, <1>5

(* Texts of logs that grow stay.                                           *)
LEMMA TextsGrow ==
  ASSUME NEW l \in LogBooks, NEW m \in LogBooks, Extends(l, m)
  PROVE  TextsOf(l) \subseteq TextsOf(m)
<1>1. \A s \in Sessions : Len(l[s]) \in Nat /\ Len(m[s]) \in Nat /\ Len(l[s]) <= Len(m[s])
  BY DEF LogBooks, Extends
<1>2. \A s \in Sessions : \A i \in 1 .. Len(l[s]) : i \in 1 .. Len(m[s]) /\ m[s][i] = l[s][i]
  BY <1>1 DEF Extends
<1>3. ASSUME NEW c \in TextsOf(l)
      PROVE  c \in TextsOf(m)
  <2>1. c \in Memorable
    BY TextsMean
  <2>2. PICK s \in Sessions : \E i \in 1 .. Len(l[s]) : c = l[s][i].text
    BY TextsMean
  <2>3. PICK i \in 1 .. Len(l[s]) : c = l[s][i].text
    BY <2>2
  <2>4. i \in 1 .. Len(m[s]) /\ c = m[s][i].text
    BY <1>2, <2>3
  <2> QED BY <2>1, <2>4, TextsMean
<1> QED BY <1>3

(* The state before any message claims nothing.                            *)
LEMMA NothingBelow ==
  ASSUME NEW l \in LogBooks
  PROVE  Untouched \in Progress /\ Fits(Untouched, l) /\ TextsBelow(l, Untouched) = {}
<1>1. Untouched \in Progress /\ \A s \in Sessions : Untouched[s] = 0
  BY Bounds DEF Untouched, Progress
<1>2. Fits(Untouched, l)
  BY <1>1 DEF Fits, LogBooks
<1>3. \A s \in Sessions : 1 .. Untouched[s] = {}
  BY <1>1
<1>4. ASSUME NEW c
      PROVE  c \notin TextsBelow(l, Untouched)
  BY <1>3, BelowMeans
<1> QED BY <1>1, <1>2, <1>4

(* What a file claims stays true when the logs and the graph grow.         *)
LEMMA TrueStays ==
  ASSUME NEW file, NEW l \in LogBooks, NEW m \in LogBooks, Extends(l, m),
         NEW g, NEW h, g \subseteq h, TrueOf(file, l, g)
  PROVE  TrueOf(file, m, h)
BY TextsStay DEF TrueOf

(* What a process has in hand stays sound when they grow around it; the    *)
(* JSON store keeps the graph for a lone process.                          *)
LEMMA SoundStays ==
  ASSUME NEW l \in LogBooks, NEW m \in LogBooks, Extends(l, m),
         NEW g, NEW h, g \subseteq h, NEW b, b = "json" => h = g,
         NEW old \in Process, NEW new, Sound(old, b, l, g),
         new.state = old.state, new.memory = old.memory, new.dirty = old.dirty,
         new.pc # "store" => old.pc # "store"
  PROVE  Sound(new, b, m, h)
<1>1. old.state \in Progress
  BY DEF Process
<1>2. Fits(old.state, m) /\ TextsBelow(m, old.state) = TextsBelow(l, old.state)
  BY <1>1, TextsStay DEF Sound
<1>3. TextsOf(l) \subseteq TextsOf(m)
  BY TextsGrow
<1>4. /\ TextsBelow(l, old.state) \subseteq WouldSave(new, b, h)
      /\ h \subseteq WouldSave(new, b, h)
  <2>1. CASE b = "json"
    BY <2>1 DEF Sound, WouldSave
  <2>2. CASE b # "json"
    BY <2>2 DEF Sound, WouldSave
  <2> QED BY <2>1, <2>2
<1> QED BY <1>2, <1>3, <1>4 DEF Sound

(* A process is sound if its state claims only what is in the graph, and   *)
(* its memory or its changes keep the graph.                               *)
LEMMA SoundEnough ==
  ASSUME NEW l, NEW g, NEW b, NEW r,
         Fits(r.state, l), TextsBelow(l, r.state) \subseteq g,
         b = "json" => g \subseteq r.memory,
         r.memory \subseteq TextsOf(l), r.dirty \subseteq TextsOf(l)
  PROVE  Sound(r, b, l, g)
<1>1. g \subseteq WouldSave(r, b, g)
  BY DEF WouldSave
<1> QED BY <1>1 DEF Sound

(* The logs have their type, and only Says extends them.                   *)
LEMMA OldLogs ==
  ASSUME TypeOK
  PROVE  log \in LogBooks /\ Extends(log, log)
<1>1. log \in LogBooks
  BY DEF TypeOK, LogBooks
<1>2. \A s \in Sessions : Len(log[s]) \in Nat
  BY <1>1 DEF LogBooks
<1> QED BY <1>1, <1>2 DEF Extends

(* What the progress file is read as is true if the file is.               *)
LEMMA RecordedIsTrue ==
  ASSUME TypeOK, TrueOf(progress, log, graph)
  PROVE  Recorded \in Progress /\ Fits(Recorded, log) /\ TextsBelow(log, Recorded) \subseteq graph
<1>1. CASE progress = NoFile \/ ~Readable
  BY <1>1, OldLogs, NothingBelow DEF Recorded
<1>2. CASE ~(progress = NoFile \/ ~Readable)
  <2>1. progress \in Progress /\ Recorded = progress
    BY <1>2 DEF Recorded, Readable, TypeOK
  <2> QED BY <2>1 DEF TrueOf
<1> QED BY <1>1, <1>2

(* Steps that leave the progress files and let the graph grow keep every   *)
(* claim, if the processes they touch have sound ones.                     *)
LEMMA ClaimsStay ==
  ASSUME TypeOK, Claims, NEW p \in Processes, log' \in LogBooks, Extends(log, log'),
         UNCHANGED <<backend, progress, tmp>>, graph \subseteq graph', graph' \subseteq TextsOf(log'),
         \A q \in Alive' : q # p => q \in Alive /\ process'[q] = process[q],
         backend = "json" => graph' = graph \/ \A q \in Alive' : q = p,
         p \in Alive' => Sound(process'[p], backend, log', graph')
  PROVE  Claims'
<1>1. TrueOf(progress', log', graph') /\ TrueOf(tmp', log', graph')
  BY OldLogs, TrueStays DEF Claims
<1>2. ASSUME NEW q \in Alive'
      PROVE  Sound(process'[q], backend', log', graph')
  <2>1. CASE q = p
    BY <2>1
  <2>2. CASE q # p
    <3>1. q \in Alive /\ q \in Processes /\ process'[q] = process[q] /\ process[q] \in Process
      BY <2>2, ProcessType DEF Alive
    <3>2. Sound(process[q], backend, log, graph)
      BY <3>1 DEF Claims
    <3>3. backend = "json" => graph' = graph
      BY <2>2
    <3> QED BY <3>1, <3>2, <3>3, OldLogs, SoundStays
  <2> QED BY <2>1, <2>2
<1> QED BY <1>1, <1>2 DEF Claims

(* One session's new messages: what is below the new state was below the   *)
(* old one or is new.                                                      *)
LEMMA BelowCommit ==
  ASSUME TypeOK, NEW p \in Processes, p \in Alive, NEW s \in Sessions, NEW state \in Progress,
         Fits(process[p].state, log),
         \A q \in Sessions : state[q] = IF q = s THEN Len(log[s]) ELSE process[p].state[q]
  PROVE  /\ Fits(state, log)
         /\ TextsBelow(log, state) \subseteq TextsBelow(log, process[p].state) \cup NewTexts(p, s)
         /\ NewTexts(p, s) \subseteq TextsOf(log)
<1> DEFINE old == process[p].state
           fresh == {log[s][i].text : i \in old[s] + 1 .. Len(log[s])}
<1>1. old \in Progress
  BY ProcessType DEF Process
<1>2. \A q \in Sessions : old[q] \in Nat /\ Len(log[q]) \in Nat /\ old[q] <= Len(log[q])
  BY <1>1, Bounds DEF Progress, Fits, TypeOK
<1>3. Fits(state, log)
  BY <1>2 DEF Fits
<1>4. NewTexts(p, s) = fresh \cap Memorable
  BY DEF NewTexts
<1>5. ASSUME NEW c \in TextsBelow(log, state)
      PROVE  c \in TextsBelow(log, old) \cup NewTexts(p, s)
  <2>1. c \in Memorable
    BY BelowMeans
  <2>2. PICK q \in Sessions : \E i \in 1 .. state[q] : c = log[q][i].text
    BY BelowMeans
  <2>3. PICK i \in 1 .. state[q] : c = log[q][i].text
    BY <2>2
  <2>4. CASE i \in 1 .. old[q]
    BY <2>1, <2>3, <2>4, BelowMeans
  <2>5. CASE i \notin 1 .. old[q]
    <3>1. q = s /\ i \in old[s] + 1 .. Len(log[s])
      BY <1>2, <2>3, <2>5
    <3>2. c \in fresh
      BY <2>3, <3>1
    <3> QED BY <1>4, <2>1, <3>2
  <2> QED BY <2>4, <2>5
<1>6. ASSUME NEW c \in NewTexts(p, s)
      PROVE  c \in TextsOf(log)
  <2>1. c \in Memorable /\ \E i \in old[s] + 1 .. Len(log[s]) : c = log[s][i].text
    BY <1>4
  <2>2. \A i \in old[s] + 1 .. Len(log[s]) : i \in 1 .. Len(log[s])
    BY <1>2
  <2> QED BY <2>1, <2>2, OldLogs, TextsMean
<1> QED BY <1>3, <1>5, <1>6

(* Starting and logging keep the claims, as do the steps that idle.        *)
LEMMA QuietStepsKeepClaims ==
  ASSUME HookInv, Claims, NEW p \in Processes, Starts(p) \/ Says(p) \/ Idles(p)
  PROVE  Claims'
<1> USE DEF HookInv
<1>1. CASE Starts(p)
  <2>1. UNCHANGED <<backend, log, graph, progress, tmp>>
    BY <1>1 DEF Starts
  <2>2. Sound(process'[p], backend, log, graph)
    <3>1. process'[p].memory = graph /\ process'[p].dirty = {} /\ process'[p].state = Untouched
      BY <1>1 DEF Starts
    <3>2. Fits(process'[p].state, log) /\ TextsBelow(log, process'[p].state) = {}
      BY <3>1, OldLogs, NothingBelow
    <3> QED BY <3>1, <3>2, SoundEnough DEF Claims
  <2>3. \A q \in Alive' : q # p => q \in Alive /\ process'[q] = process[q]
    BY <1>1 DEF Starts
  <2>4. graph' \subseteq TextsOf(log')
    BY <2>1 DEF Claims
  <2> QED BY <2>1, <2>2, <2>3, <2>4, OldLogs, ClaimsStay
<1>2. CASE Says(p)
  <2>1. PICK role, t, pc : HasLogged(p, role, t, pc) /\ pc # "store"
    BY <1>2 DEF Says
  <2>2. /\ p \in Alive /\ process[p].pc \in {"log", "idle"}
        /\ UNCHANGED <<backend, graph, progress, tmp>> /\ log' \in LogBooks
    BY <1>2, <2>1 DEF Says, HasLogged, LogBooks
  <2>3. Extends(log, log')
    BY <2>1 DEF HasLogged, Extends
  <2>4. \A q \in Alive' : q # p => q \in Alive /\ process'[q] = process[q]
    BY <2>1 DEF HasLogged, Alive
  <2>5. graph' \subseteq TextsOf(log')
    BY <2>2, <2>3, OldLogs, TextsGrow DEF Claims
  <2>6. Sound(process'[p], backend, log', graph)
    <3>1. process[p] \in Process /\ Sound(process[p], backend, log, graph)
      BY <2>2, ProcessType DEF Claims
    <3>2. /\ process'[p].state = process[p].state /\ process'[p].memory = process[p].memory
          /\ process'[p].dirty = process[p].dirty
      BY <2>1 DEF HasLogged
    <3>3. process[p].pc # "store"
      BY <2>2
    <3> QED BY <2>2, <2>3, <3>1, <3>2, <3>3, OldLogs, SoundStays
  <2> QED BY <2>2, <2>3, <2>4, <2>5, <2>6, ClaimsStay
<1>3. CASE Idles(p)
  <2>1. /\ p \in Alive /\ UNCHANGED <<backend, log, graph, progress, tmp>>
        /\ \A q \in Alive' : q # p => q \in Alive /\ process'[q] = process[q]
    BY <1>3 DEF Idles
  <2>2. Sound(process[p], backend, log, graph) /\ graph \subseteq TextsOf(log)
    BY <2>1 DEF Claims
  <2>3. ASSUME p \in Alive'
        PROVE  Sound(process'[p], backend, log, graph)
    <3>1. /\ process'[p].memory = process[p].memory
          /\ process'[p].dirty \in {process[p].dirty} \cup (IF backend = "json" THEN {} ELSE {{}})
          /\ \/ process'[p].state \in {Untouched, Recorded}
             \/ process'[p].state = process[p].state /\ process[p].pc # "store"
      BY <1>3, <2>3 DEF Idles
    <3>2. process'[p].dirty = process[p].dirty \/ process'[p].dirty = {}
      BY <3>1
    <3>3. Fits(process'[p].state, log) /\ TextsBelow(log, process'[p].state) \subseteq graph
      <4>1. CASE process'[p].state = Untouched
        BY <4>1, OldLogs, NothingBelow
      <4>2. CASE process'[p].state = Recorded
        BY <4>2, RecordedIsTrue DEF Claims
      <4>3. CASE process'[p].state = process[p].state /\ process[p].pc # "store"
        BY <2>2, <4>3 DEF Sound
      <4> QED BY <3>1, <4>1, <4>2, <4>3
    <3>4. backend = "json" => graph \subseteq process'[p].memory
      BY <2>2, <3>1 DEF Sound, WouldSave
    <3>5. process'[p].memory \subseteq TextsOf(log) /\ process'[p].dirty \subseteq TextsOf(log)
      BY <2>2, <3>1, <3>2 DEF Sound
    <3> QED BY <3>3, <3>4, <3>5, SoundEnough
  <2> QED BY <2>1, <2>2, <2>3, OldLogs, ClaimsStay
<1> QED BY <1>1, <1>2, <1>3

(* A commit claims new messages and has their texts in hand.               *)
LEMMA CommitKeepsClaims ==
  ASSUME HookInv, Claims, NEW p \in Processes, NEW s \in Sessions, Commit(p, s)
  PROVE  Claims'
<1> USE DEF HookInv
<1> DEFINE old == process[p]
           fresh == NewTexts(p, s)
<1>1. p \in Alive /\ old.pc = "pick" /\ UNCHANGED <<backend, log, graph, progress, tmp>>
  BY DEF Commit, At, Alive, files
<1>2. PICK r \in Process :
        /\ Becomes(p, r)
        /\ \A q \in Sessions : r.state[q] = IF q = s THEN Len(log[s]) ELSE old.state[q]
        /\ \/ fresh = {} /\ r.pc = "open" /\ r.memory = old.memory /\ r.dirty = old.dirty
           \/ r.pc = "store" /\ r.memory = old.memory \cup fresh /\ r.dirty = old.memory \cup fresh
  BY <1>1, CommitType
<1>3. process'[p] = r /\ \A q \in Alive' : q # p => q \in Alive /\ process'[q] = process[q]
  BY <1>2, BecomesEffect DEF Alive
<1>4. Sound(old, backend, log, graph) /\ graph \subseteq TextsOf(log)
  BY <1>1 DEF Claims
<1>5. TextsBelow(log, old.state) \subseteq graph
  BY <1>1, <1>4 DEF Sound
<1>6. /\ Fits(r.state, log) /\ fresh \subseteq TextsOf(log)
      /\ TextsBelow(log, r.state) \subseteq graph \cup fresh
  <2>1. r.state \in Progress /\ Fits(old.state, log)
    BY <1>4 DEF Process, Sound
  <2> QED BY <1>1, <1>2, <1>5, <2>1, BelowCommit
<1>7. Sound(r, backend, log, graph)
  <2>1. backend = "json" => graph \subseteq old.memory
    BY <1>4 DEF Sound, WouldSave
  <2>2. old.memory \subseteq TextsOf(log) /\ old.dirty \subseteq TextsOf(log)
    BY <1>4 DEF Sound
  <2> HIDE DEF old, fresh
  <2>3. CASE fresh = {} /\ r.memory = old.memory /\ r.dirty = old.dirty
    BY <1>6, <2>1, <2>2, <2>3, SoundEnough
  <2>4. CASE r.pc = "store" /\ r.memory = old.memory \cup fresh /\ r.dirty = old.memory \cup fresh
    <3>1. graph \cup fresh \subseteq WouldSave(r, backend, graph)
      BY <2>1, <2>4 DEF WouldSave
    <3>2. r.memory \subseteq TextsOf(log) /\ r.dirty \subseteq TextsOf(log)
      BY <1>6, <2>2, <2>4
    <3> QED BY <1>6, <2>4, <3>1, <3>2 DEF Sound
  <2> QED BY <1>2, <2>3, <2>4
<1> QED BY <1>1, <1>3, <1>4, <1>7, OldLogs, ClaimsStay

(* A store makes claims true: the graph keeps what it had, since a process *)
(* of the JSON store has been alone since it loaded it.                    *)
LEMMA SavingKeepsClaims ==
  ASSUME HookInv, Alone, Claims, "json" \notin Shared, NEW p \in Processes, Store(p) \/ Suspend(p)
  PROVE  Claims' /\ graph \subseteq graph'
<1> USE DEF HookInv
<1> DEFINE old == process[p]
<1>1. /\ p \in Alive /\ old \in Process
      /\ UNCHANGED <<backend, log, progress, tmp>>
      /\ graph' = WouldSave(old, backend, graph)
      /\ \A q \in Alive' : q \in Alive
      /\ \A q \in Alive \ {p} : process'[q] = process[q]
  BY SavingSteps
<1>2. Sound(old, backend, log, graph) /\ graph \subseteq TextsOf(log)
  BY <1>1 DEF Claims
<1>3. graph \subseteq graph' /\ TextsBelow(log, old.state) \subseteq graph' /\ graph' \subseteq TextsOf(log)
  BY <1>1, <1>2 DEF Sound, WouldSave
<1>4. backend = "json" => \A q \in Alive' : q = p
  BY <1>1 DEF Alone
<1>5. ASSUME p \in Alive'
      PROVE  Sound(process'[p], backend, log, graph')
  <2>1. /\ process'[p].state = old.state /\ process'[p].memory = old.memory
        /\ process'[p].dirty \subseteq old.dirty
    BY <1>5, SavingSteps
  <2>2. backend = "json" => graph' \subseteq process'[p].memory
    BY <1>1, <2>1 DEF WouldSave
  <2>3. /\ Fits(process'[p].state, log) /\ process'[p].memory \subseteq TextsOf(log)
        /\ process'[p].dirty \subseteq TextsOf(log)
    BY <1>2, <2>1 DEF Sound
  <2> QED BY <1>3, <2>1, <2>2, <2>3, SoundEnough
<1> QED BY <1>1, <1>3, <1>4, <1>5, OldLogs, ClaimsStay

(* What is written to a file is a state whose claims are true.             *)
LEMMA WritingKeepsClaims ==
  ASSUME HookInv, Claims, NEW p \in Processes, OpenState(p) \/ WriteState(p)
  PROVE  Claims'
<1> USE DEF HookInv
<1> DEFINE old == process[p]
<1>1. /\ p \in Alive /\ old \in Process /\ UNCHANGED <<backend, log, graph>>
      /\ \A q \in Alive' : q \in Alive
      /\ \A q \in Alive \ {p} : process'[q] = process[q]
      /\ process'[p].state = old.state /\ process'[p].memory = old.memory
      /\ process'[p].dirty = old.dirty
      /\ old.pc \in {"open", "write"}
      /\ tmp' \in {tmp, Empty} \cup Overwritten(tmp, old.state)
      /\ progress' \in {progress} \cup Overwritten(progress, old.state)
  BY FileSteps
<1>2. Sound(old, backend, log, graph) /\ old.state \in Progress
  BY <1>1 DEF Claims, Process
<1>3. TextsBelow(log, old.state) \subseteq graph
  BY <1>1, <1>2 DEF Sound
<1>4. TrueOf(old.state, log, graph) /\ TrueOf(Garbled, log, graph) /\ TrueOf(Empty, log, graph)
  BY <1>2, <1>3, FilesDiffer DEF TrueOf, Sound
<1>5. TrueOf(tmp', log, graph) /\ TrueOf(progress', log, graph)
  <2>1. /\ tmp' \in {tmp, Empty, old.state, Garbled}
        /\ progress' \in {progress, old.state, Garbled}
    BY <1>1 DEF Overwritten
  <2> QED BY <1>4, <2>1 DEF Claims
<1>6. ASSUME NEW q \in Alive'
      PROVE  Sound(process'[q], backend, log, graph)
  <2>1. q \in Alive
    BY <1>1
  <2>2. CASE q = p
    <3>1. old.pc # "store"
      BY <1>1
    <3> QED BY <1>1, <1>2, <2>2, <3>1, OldLogs, SoundStays
  <2>3. CASE q # p
    BY <1>1, <2>1, <2>3 DEF Claims
  <2> QED BY <2>2, <2>3
<1> QED BY <1>1, <1>5, <1>6 DEF Claims

(* A rename publishes what the temporary file holds.                       *)
LEMMA RenamingKeepsClaims ==
  ASSUME HookInv, Claims, NEW p \in Processes, RenameState(p)
  PROVE  Claims'
<1> USE DEF HookInv
<1>1. /\ UNCHANGED <<backend, log, graph>> /\ p \in Alive /\ process[p].pc = "rename"
      /\ \A q \in Alive' : q \in Alive
  BY RenameEffect
<1>2. CASE Becomes(p, Leaves(p)) /\ UNCHANGED <<progress, tmp>>
  <2>1. process'[p] = Leaves(p) /\ \A q \in Alive' : q # p => q \in Alive /\ process'[q] = process[q]
    BY <1>1, <1>2, BecomesEffect DEF Alive
  <2>2. Sound(process'[p], backend, log, graph)
    <3>1. /\ process'[p].state = Untouched /\ process'[p].memory = process[p].memory
          /\ process'[p].dirty = process[p].dirty
      BY <1>1, <2>1, LeavesType
    <3>2. Fits(process'[p].state, log) /\ TextsBelow(log, process'[p].state) = {}
      BY <3>1, OldLogs, NothingBelow
    <3>3. Sound(process[p], backend, log, graph)
      BY <1>1 DEF Claims
    <3>4. /\ backend = "json" => graph \subseteq process'[p].memory
          /\ process'[p].memory \subseteq TextsOf(log) /\ process'[p].dirty \subseteq TextsOf(log)
      BY <3>1, <3>3 DEF Sound, WouldSave
    <3> QED BY <3>2, <3>4, SoundEnough
  <2>3. graph \subseteq TextsOf(log)
    BY DEF Claims
  <2> QED BY <1>1, <1>2, <2>1, <2>2, <2>3, OldLogs, ClaimsStay
<1>3. CASE progress' = tmp /\ tmp' = NoFile
           /\ \A q \in Alive :
                /\ process'[q] \in Process
                /\ process'[q].pc = (IF q = p THEN "pick" ELSE process[q].pc)
                /\ process'[q].memory = process[q].memory
                /\ process'[q].dirty = process[q].dirty
                /\ process'[q].state = process[q].state
  <2>1. TrueOf(progress', log, graph) /\ TrueOf(tmp', log, graph)
    BY <1>3, FilesDiffer DEF Claims, TrueOf
  <2>2. ASSUME NEW q \in Alive'
        PROVE  Sound(process'[q], backend, log, graph)
    <3>1. q \in Alive /\ q \in Processes
      BY <1>1 DEF Alive
    <3>2. process[q] \in Process /\ Sound(process[q], backend, log, graph)
      BY <3>1, ProcessType DEF Claims
    <3>3. process'[q].pc # "store" => process[q].pc # "store"
      BY <1>1, <1>3, <3>1
    <3> QED BY <1>3, <3>1, <3>2, <3>3, OldLogs, SoundStays
  <2> QED BY <1>1, <2>1, <2>2 DEF Claims
<1> QED BY <1>2, <1>3, RenameEffect

(* Every step keeps the claims, if no two processes share the JSON store.  *)
LEMMA ClaimsStep ==
  ASSUME "json" \notin Shared
  PROVE  HookInv /\ Alone /\ Claims /\ [Next]_vars => Claims'
<1> SUFFICES ASSUME HookInv, Alone, Claims, [Next]_vars PROVE Claims'
  OBVIOUS
<1>1. CASE UNCHANGED vars
  BY <1>1 DEF vars, Claims, TrueOf, Alive
<1>2. CASE ~UNCHANGED vars
  BY <1>2, StepKinds, QuietStepsKeepClaims, CommitKeepsClaims, SavingKeepsClaims,
     WritingKeepsClaims, RenamingKeepsClaims
<1> QED BY <1>1, <1>2

(* The claims speak of the graph: what was done is stored.                 *)
LEMMA ClaimsMean == TypeOK /\ Claims => ClaimsAreStored
<1> SUFFICES ASSUME TypeOK, Claims PROVE ClaimsAreStored
  OBVIOUS
<1>1. \A state : Below(state) = TextsBelow(log, state)
  BY DEF Below, TextsBelow
<1>2. Below(Recorded) \subseteq graph
  BY <1>1, RecordedIsTrue DEF Claims
<1>3. tmp \in Progress => Below(tmp) \subseteq graph
  BY <1>1 DEF Claims, TrueOf
<1>4. \A p \in Alive : process[p].pc # "store" => Below(process[p].state) \subseteq graph
  BY <1>1 DEF Claims, Sound
<1> QED BY <1>2, <1>3, <1>4 DEF ClaimsAreStored, SettledIsStored

(* At first there is nothing to claim.                                     *)
LEMMA ClaimsInit == Init => Alone /\ Claims
<1> SUFFICES ASSUME Init PROVE Alone /\ Claims
  OBVIOUS
<1>1. Alive = {}
  BY DEF Init, Alive
<1>2. Readable /\ progress \notin Progress /\ tmp \notin Progress
  BY FilesDiffer DEF Init, Readable
<1> QED BY <1>1, <1>2 DEF Init, Alone, Claims, TrueOf

(* All parts of the invariant hold together.                               *)
LEMMA ClaimsHold ==
  ASSUME "json" \notin Shared
  PROVE  Spec => []Claims
<1>1. HookInv /\ Alone /\ Claims /\ [Next]_vars => Claims'
  BY ClaimsStep
<1> QED BY <1>1, ClaimsInit, AloneStep, HooksHold, PTL DEF Spec

(* If no two processes share the JSON store, whatever the progress file    *)
(* says is done is in the stored graph, and no process can publish a claim *)
(* that is not true: whoever is killed, and however the processes that     *)
(* share the SQLite store overlap.                                         *)
THEOREM WhatIsDoneIsStored ==
  ASSUME "json" \notin Shared
  PROVE  Spec => []ClaimsAreStored
BY ClaimsHold, ClaimsMean, ProcessesKeepTheirShape, PTL

-----------------------------------------------------------------------------
(* The processes implement LastingMemory.  One more message says its text. *)
LEMMA SayingSays ==
  ASSUME HookInv, Claims, NEW p \in Processes, Says(p)
  PROVE  /\ Below(Recorded)' = Below(Recorded) /\ graph' = graph
         /\ Logged' = Logged \/ \E c \in Memorable : Logged' = Logged \cup {c}
<1> USE DEF HookInv
<1> DEFINE s == process[p].session
           last == Len(log[s]) + 1
<1>1. PICK role, t, pc : HasLogged(p, role, t, pc)
  BY DEF Says
<1>2. /\ s \in Sessions /\ log \in LogBooks /\ log' \in LogBooks /\ Len(log[s]) \in Nat
      /\ UNCHANGED <<graph, progress>>
      /\ Len(log'[s]) = last /\ log'[s][last] = Entry(role, t)
      /\ \A r \in Sessions : r # s => log'[r] = log[r]
      /\ \A i \in 1 .. Len(log[s]) : log'[s][i] = log[s][i]
  <2>1. s \in Sessions /\ log \in LogBooks /\ Len(log[s]) \in Nat
    <3>1. s \in Sessions
      BY DEF Says
    <3>2. log \in LogBooks
      BY OldLogs
    <3>3. \A r \in Sessions : Len(log[r]) \in Nat
      BY <3>2 DEF LogBooks
    <3> QED BY <3>1, <3>2, <3>3
  <2>2. log' \in LogBooks /\ UNCHANGED <<graph, progress>>
    BY <1>1 DEF HasLogged, LogBooks
  <2>3. Len(log'[s]) = last /\ log'[s][Len(log'[s])] = Entry(role, t)
    BY <1>1 DEF HasLogged
  <2>4. /\ \A r \in Sessions : r # s => log'[r] = log[r]
        /\ \A i \in 1 .. Len(log[s]) : log'[s][i] = log[s][i]
    BY <1>1, <2>1 DEF HasLogged
  <2> QED BY <2>1, <2>2, <2>3, <2>4
<1>3. Extends(log, log')
  BY <1>1 DEF HasLogged, Extends
<1>4. Below(Recorded)' = Below(Recorded)
  <2>1. Recorded' = Recorded
    BY <1>2 DEF Recorded, Readable
  <2>2. TextsBelow(log', Recorded) = TextsBelow(log, Recorded)
    BY <1>2, <1>3, RecordedIsTrue, TextsStay DEF Claims
  <2> QED BY <2>1, <2>2 DEF Below, TextsBelow
<1>5. ASSUME NEW c
      PROVE  c \in TextsOf(log') <=> c \in TextsOf(log) \/ (c \in Memorable /\ c = t)
  <2>1. c \in TextsOf(log') => c \in TextsOf(log) \/ (c \in Memorable /\ c = t)
    <3> SUFFICES ASSUME c \in TextsOf(log')
                 PROVE  c \in TextsOf(log) \/ (c \in Memorable /\ c = t)
      OBVIOUS
    <3>1. c \in Memorable
      BY <1>2, TextsMean
    <3>2. PICK r \in Sessions : \E i \in 1 .. Len(log'[r]) : c = log'[r][i].text
      BY <1>2, TextsMean
    <3>3. PICK i \in 1 .. Len(log'[r]) : c = log'[r][i].text
      BY <3>2
    <3>4. CASE r = s /\ i = last
      BY <1>2, <3>1, <3>3, <3>4 DEF Entry
    <3>5. CASE ~(r = s /\ i = last)
      <4>1. i \in 1 .. Len(log[r]) /\ log'[r][i] = log[r][i]
        BY <1>2, <3>3, <3>5
      <4> QED BY <1>2, <3>1, <3>3, <4>1, TextsMean
    <3> QED BY <3>4, <3>5
  <2>2. c \in TextsOf(log) => c \in TextsOf(log')
    BY <1>2, <1>3, TextsGrow
  <2>3. c \in Memorable /\ c = t => c \in TextsOf(log')
    <3>1. last \in 1 .. Len(log'[s]) /\ log'[s][last].text = t
      BY <1>2 DEF Entry
    <3> QED BY <1>2, <3>1, TextsMean
  <2> QED BY <2>1, <2>2, <2>3
<1>6. TextsOf(log') = TextsOf(log) \/ \E c \in Memorable : TextsOf(log') = TextsOf(log) \cup {c}
  <2>1. CASE t \in Memorable
    <3>1. TextsOf(log') = TextsOf(log) \cup {t}
      BY <1>5, <2>1
    <3> QED BY <2>1, <3>1
  <2>2. CASE t \notin Memorable
    <3>1. TextsOf(log') = TextsOf(log)
      BY <1>5, <2>2
    <3> QED BY <3>1
  <2> QED BY <2>1, <2>2
<1>7. Logged = TextsOf(log) /\ Logged' = TextsOf(log')
  BY DEF Logged, TextsOf
<1> QED BY <1>2, <1>4, <1>6, <1>7

(* Every step is a step of LastingMemory or none.                          *)
LEMMA MemoryStep ==
  ASSUME "json" \notin Shared
  PROVE  HookInv /\ Alone /\ Claims /\ ClaimsAreStored' /\ [Next]_vars
           => [Abstract!Next]_<<Logged, graph, Below(Recorded)>>
<1> SUFFICES ASSUME HookInv, Alone, Claims, ClaimsAreStored', [Next]_vars
             PROVE  [Abstract!Next]_<<Logged, graph, Below(Recorded)>>
  OBVIOUS
<1>1. ASSUME UNCHANGED <<log, graph, progress>>
      PROVE  UNCHANGED <<Logged, graph, Below(Recorded)>>
  BY <1>1 DEF Logged, Below, Recorded, Readable
<1>2. CASE UNCHANGED vars
  BY <1>1, <1>2 DEF vars
<1>3. ASSUME NEW p \in Processes, Starts(p) \/ Idles(p) \/ \E s \in Sessions : Commit(p, s)
      PROVE  UNCHANGED <<Logged, graph, Below(Recorded)>>
  BY <1>1, <1>3 DEF Starts, Idles, Commit, files
<1>4. ASSUME NEW p \in Processes, Says(p)
      PROVE  [Abstract!Next]_<<Logged, graph, Below(Recorded)>>
  <2>1. CASE Logged' = Logged
    BY <1>4, <2>1, SayingSays
  <2>2. CASE \E c \in Memorable : Logged' = Logged \cup {c}
    <3>1. \E c \in Memorable : Abstract!Say(c)
      BY <1>4, <2>2, SayingSays DEF Abstract!Say
    <3> QED BY <3>1 DEF Abstract!Next
  <2> QED BY <1>4, <2>1, <2>2, SayingSays
<1>5. ASSUME NEW p \in Processes, Store(p) \/ Suspend(p)
      PROVE  Abstract!Next
  <2>1. /\ graph \subseteq graph' /\ graph' \subseteq TextsOf(log')
        /\ UNCHANGED <<log, progress>>
    BY <1>5, SavingSteps, SavingKeepsClaims DEF Claims, HookInv
  <2>2. UNCHANGED <<Logged, Below(Recorded)>>
    BY <2>1 DEF Logged, Below, Recorded, Readable
  <2>3. graph' \in SUBSET Logged /\ graph' = graph \cup graph'
    BY <2>1 DEF Logged, TextsOf
  <2> QED BY <2>2, <2>3 DEF Abstract!Next, Abstract!Remember
<1>6. ASSUME NEW p \in Processes, OpenState(p) \/ WriteState(p) \/ RenameState(p)
      PROVE  Abstract!Next
  <2>1. UNCHANGED <<log, graph>>
    BY <1>6, FileSteps, RenameEffect DEF HookInv
  <2>2. UNCHANGED <<Logged, graph>>
    BY <2>1 DEF Logged
  <2>3. Below(Recorded)' \in SUBSET graph
    BY <2>1 DEF ClaimsAreStored, SettledIsStored
  <2> QED BY <2>2, <2>3 DEF Abstract!Next, Abstract!Settle
<1> QED BY <1>2, <1>3, <1>4, <1>5, <1>6, StepKinds

(* The first state is LastingMemory's.                                     *)
LEMMA MemoryInit == Init => Abstract!Init
<1> SUFFICES ASSUME Init PROVE Abstract!Init
  OBVIOUS
<1>1. log \in LogBooks /\ \A s \in Sessions : Len(log[s]) = 0
  BY DEF Init, LogBooks
<1>2. TextsOf(log) = {}
  <2>1. \A c : c \notin TextsOf(log)
    BY <1>1, TextsMean
  <2> QED BY <2>1
<1>3. Logged = {}
  BY <1>2 DEF Logged, TextsOf
<1>4. Below(Recorded) = {}
  BY <1>1, NothingBelow DEF Init, Recorded, Below, TextsBelow
<1> QED BY <1>3, <1>4 DEF Init, Abstract!Init

(* If no two processes share the JSON store, the hooks, the command and    *)
(* the server together implement LastingMemory: what is remembered was     *)
(* said, it stays remembered, and only what is remembered is called done.  *)
THEOREM ProcessesRemember ==
  ASSUME "json" \notin Shared
  PROVE  Spec => ImplementsLastingMemory
<1>1. HookInv /\ Alone /\ Claims /\ ClaimsAreStored' /\ [Next]_vars
        => [Abstract!Next]_<<Logged, graph, Below(Recorded)>>
  BY MemoryStep
<1>2. Spec => []Alone
  BY ClaimsInit, AloneStep, HooksHold, PTL DEF Spec
<1>3. Spec => []Claims /\ []ClaimsAreStored
  BY ClaimsHold, WhatIsDoneIsStored, PTL
<1> QED BY <1>1, <1>2, <1>3, MemoryInit, HooksHold, PTL
        DEF Spec, ImplementsLastingMemory, Abstract!Spec

=============================================================================
