-------------------------------- MODULE Hooks --------------------------------
(***************************************************************************)
(* The processes that share one data directory: the Claude Code hooks      *)
(* (hooks.py), each a short-lived process, the command `awhm consolidate`  *)
(* (cli/main.py) and the long-lived MCP server (mcp_server.py).  Each      *)
(* loads the whole graph into memory, works on its copy and stores it.     *)
(* They have no lock in common.                                            *)
(*                                                                         *)
(* Claude Code runs the hooks of one session one after the other and kills *)
(* a hook that takes too long; sessions overlap.  Which processes may be   *)
(* alive together is left to the user; Shared names the backends for which *)
(* this module lets them overlap.                                          *)
(*                                                                         *)
(* A memorable text is its own node content.  Ids, edges and statuses are  *)
(* left to Consolidation, the WAL's threads to SessionWal, and the change  *)
(* sets of the stores to GraphStore.  Log positions are 1-based.           *)
(***************************************************************************)
EXTENDS Naturals, FiniteSets, Sequences

CONSTANTS
  ClaudeSessions,  \* session ids of Claude Code
  ServerSessions,  \* the uuids the MCP server's sessions get
  HookProcesses, Commands, Servers,  \* process ids, by kind
  Prompts, Replies,
  Memorable,       \* the texts that extraction finds something in, whoever says them
  Buffered,        \* the texts that match a buffer pattern
  Backends,        \* the storage backends to look at
  Shared,          \* the backends with which processes may overlap
  MaxAlive,        \* bound: processes alive at a time
  MaxLog,          \* bound: messages in all logs together
  MaxFailures,     \* bound: kills and failed stores
  NoFile, Empty, Garbled,  \* of a file: absent, truncated, two writes mixed up
  NoText, NoProcess

Sessions == ClaudeSessions \cup ServerSessions
Processes == HookProcesses \cup Commands \cup Servers
Texts == Prompts \cup Replies

ASSUME Kinds == /\ ClaudeSessions \cap ServerSessions = {}
                /\ HookProcesses \cap (Commands \cup Servers) = {} /\ Commands \cap Servers = {}
ASSUME TextShape == Prompts \cap Replies = {} /\ NoText \notin Texts
ASSUME Worth == Memorable \subseteq Texts /\ Buffered \subseteq Prompts
ASSUME BackendNames == Shared \subseteq Backends /\ Backends \subseteq {"json", "sqlite"}
ASSUME Bounds == MaxAlive \in Nat /\ MaxLog \in Nat /\ MaxFailures \in Nat
(* A data directory has so many logs and no more.                          *)
ASSUME FiniteSessions == IsFiniteSet(Sessions)
(* None of these is a progress state or the content of a WAL.              *)
ASSUME Sentinels ==
  /\ {NoFile, Empty, Garbled} \cap [Sessions -> Nat] = {}
  /\ Cardinality({NoFile, Empty, Garbled}) = 3
  /\ \A entries \in SUBSET (Buffered \X (1 .. MaxLog)) : entries # NoFile

VARIABLES
  backend,   \* storage_backend
  log,       \* session -> its raw log, a sequence of [role, text]
  wal,       \* session -> its WAL file: NoFile or a set of <<text, position>>
  graph,     \* the contents of the nodes in the stored graph
  progress,  \* consolidated_sessions.json: session -> messages done, or not readable
  tmp,       \* consolidated_sessions.tmp
  process,   \* process id -> its state, or NoProcess
  turn,      \* session -> the turn's reply (NoText before it) and how often it was logged
  kept,      \* session -> positions of prompts whose hook returned, since the session ended
  failures   \* kills and failed stores so far

vars == <<backend, log, wal, graph, progress, tmp, process, turn, kept, failures>>

Progress == [Sessions -> 0 .. MaxLog]
Entry(role, text) == [role |-> role, text |-> text]
BufferEntry == Buffered \X (1 .. MaxLog)
Process ==
  [kind : {"prompt", "stop", "end", "consolidate", "server"},
   session : Sessions \cup {NoText}, text : Texts \cup {NoText},
   pc : {"log", "state", "pick", "store", "open", "write", "rename", "idle", "suspend", "clear"},
   memory : SUBSET Memorable,   \* the contents in MemoryGraph.nodes
   dirty : SUBSET Memorable,    \* what the next SQLite save writes
   buffer : SUBSET BufferEntry,
   index : 0 .. MaxLog,         \* RawLogger._msg_index
   state : Progress,            \* what _load_state returned, and since then did
   todo : SUBSET Sessions,      \* sessions that may still be consolidated
   handle : {"tmp", "published", "gone"}]  \* the name its open progress file has by now

Alive == {p \in Processes : process[p] # NoProcess}
At(p, pc) == process[p] # NoProcess /\ process[p].pc = pc
Readable == progress \notin {Empty, Garbled}
(* A hook looks for room when it starts.                                   *)
Room == Cardinality(UNION {{s} \X DOMAIN log[s] : s \in Sessions}) < MaxLog
Untouched == [s \in Sessions |-> 0]
Recorded == IF progress = NoFile \/ ~Readable THEN Untouched ELSE progress

Init ==
  /\ backend \in Backends
  /\ log = [s \in Sessions |-> <<>>] /\ wal = [s \in ClaudeSessions |-> NoFile]
  /\ graph = {}
  /\ progress = NoFile /\ tmp = NoFile
  /\ process = [p \in Processes |-> NoProcess]
  /\ turn = [s \in ClaudeSessions |-> [reply |-> NoText, answers |-> 0]]
  /\ kept = [s \in ClaudeSessions |-> {}]
  /\ failures = 0

files == <<backend, log, wal, graph, progress, tmp>>
history == <<turn, kept, failures>>

-----------------------------------------------------------------------------
(* Starting.  start_session loads the graph, counts the log's messages and *)
(* recovers the WAL; of those only the graph can change meanwhile.         *)
StartsEmpty(s) == {}  \* fault: the WAL is not recovered
Recovered(s) == IF s \notin ClaudeSessions \/ wal[s] = NoFile THEN {} ELSE wal[s]
CountsOpenLine(s) == IF s \in Sessions THEN Len(log[s]) + 1 ELSE 0  \* fault: the end of the file counts
CountExisting(s) == IF s \in Sessions THEN Len(log[s]) ELSE 0

StartSession(p, kind, s, text, pc) ==
  /\ p \notin Alive
  /\ Alive = {} \/ backend \in Shared
  /\ Cardinality(Alive) < MaxAlive
  /\ process' = [process EXCEPT ![p] =
       [kind |-> kind, session |-> s, text |-> text, pc |-> pc, memory |-> graph, dirty |-> {},
        buffer |-> Recovered(s), index |-> CountExisting(s), state |-> Untouched,
        todo |-> {}, handle |-> "gone"]]
  /\ UNCHANGED files

NoHook(s) == \A p \in Alive \cap HookProcesses : process[p].session # s
NoTurn(s) == turn' = [turn EXCEPT ![s] = [reply |-> NoText, answers |-> 0]]

(* UserPromptSubmit.  For an empty prompt or an empty reply a hook returns *)
(* before it starts a session.                                             *)
Prompt(p, s, t) ==
  /\ NoHook(s) /\ Room
  /\ NoTurn(s)
  /\ StartSession(p, "prompt", s, t, "log")
  /\ UNCHANGED <<kept, failures>>
(* Stop, perhaps more than once for the turn's reply.                      *)
Stop(p, s, t) ==
  /\ NoHook(s) /\ Room
  /\ turn[s].reply \in {NoText, t}
  /\ turn' = [turn EXCEPT ![s].reply = t]
  /\ StartSession(p, "stop", s, t, "log")
  /\ UNCHANGED <<kept, failures>>
(* SessionEnd.  The session may be resumed later.                          *)
SessionEnd(p, s) ==
  /\ NoHook(s)
  /\ kept' = [kept EXCEPT ![s] = {}]
  /\ NoTurn(s)
  /\ StartSession(p, "end", s, NoText, "state")
  /\ UNCHANGED failures
(* `awhm consolidate`, in a session of its own that logs nothing.          *)
ConsolidateCommand(p) == StartSession(p, "consolidate", NoText, NoText, "state") /\ UNCHANGED history
(* The server's session is created by the first tool call.                 *)
StartServer(p, s) ==
  /\ log[s] = <<>> /\ \A q \in Alive : process[q].session # s
  /\ StartSession(p, "server", s, NoText, "idle") /\ UNCHANGED history

-----------------------------------------------------------------------------
(* Logging.                                                                *)
Becomes(p, changed) == process' = [process EXCEPT ![p] = changed]
Goes(p, pc) == Becomes(p, [process[p] EXCEPT !.pc = pc])
Exits(p) == process' = [process EXCEPT ![p] = NoProcess]

(* log_message: one line is appended, and a prompt is matched against the  *)
(* buffer's patterns under the number the logger has counted.              *)
LogMessage(p, role, t, pc) ==
  LET s == process[p].session
      at == process[p].index + 1
  IN  /\ log' = [log EXCEPT ![s] = Append(@, Entry(role, t))]
      /\ Becomes(p, [process[p] EXCEPT !.index = at, !.pc = pc,
                       !.buffer = IF role = "user" /\ t \in Buffered THEN @ \cup {<<t, at>>} ELSE @])
      /\ UNCHANGED <<backend, wal, graph, progress, tmp>>

(* cmd_stop: the reply is not logged if the log ends with it already.  No  *)
(* other process writes this log meanwhile.                                *)
NeverLogged(p) == FALSE  \* fault: the log is not looked at
AlreadyLogged(p) ==
  LET messages == log[process[p].session]
  IN  messages # <<>> /\ messages[Len(messages)] = Entry("assistant", process[p].text)
SkipReply(p) ==
  /\ At(p, "log") /\ process[p].kind = "stop"
  /\ AlreadyLogged(p)
  /\ Goes(p, "suspend")
  /\ UNCHANGED files /\ UNCHANGED history
LogReply(p) ==
  /\ At(p, "log") /\ process[p].kind = "stop"
  /\ ~AlreadyLogged(p)
  /\ LogMessage(p, "assistant", process[p].text, "suspend")
  /\ turn' = [turn EXCEPT ![process[p].session].answers = @ + 1]
  /\ UNCHANGED <<kept, failures>>
(* The query that follows marks nodes as accessed, which no file tells     *)
(* from a node that is saved again.                                        *)
LogPrompt(p) ==
  /\ At(p, "log") /\ process[p].kind = "prompt"
  /\ LogMessage(p, "user", process[p].text, "suspend")
  /\ UNCHANGED history
MemoryLog(p, t) ==
  /\ At(p, "idle") /\ Room
  /\ LogMessage(p, "user", t, "idle")
  /\ UNCHANGED history
MemoryConsolidate(p) == At(p, "idle") /\ Goes(p, "state") /\ UNCHANGED files /\ UNCHANGED history

-----------------------------------------------------------------------------
(* Consolidation.  What comes after it, whether it returned or raised:     *)
(* `finally: end_session()` of a hook and of the command, the next tool    *)
(* call of the server.                                                     *)
After(p) ==
  CASE process[p].kind = "end" -> "suspend"
    [] process[p].kind = "consolidate" -> "suspend"
    [] OTHER -> "idle"
Leaves(p) == [process[p] EXCEPT !.pc = After(p), !.state = Untouched, !.todo = {}]

(* consolidate_current looks at one session, if it has a log;              *)
(* consolidate_all_pending at all that have one.  An unreadable progress   *)
(* file raises.                                                            *)
Wanted(p) ==
  {s \in Sessions : log[s] # <<>> /\ (process[p].kind = "end" => s = process[p].session)}
LoadState(p) ==
  /\ At(p, "state")
  /\ IF Readable /\ Wanted(p) # {}
     THEN Becomes(p, [process[p] EXCEPT !.pc = "pick", !.state = Recorded, !.todo = Wanted(p)])
     ELSE Becomes(p, Leaves(p))
  /\ UNCHANGED files /\ UNCHANGED history

PendingBefore(p) ==  \* fault: the last message is left for later
  {s \in process[p].todo : process[p].state[s] + 1 < Len(log[s])}
Pending(p) == {s \in process[p].todo : process[p].state[s] < Len(log[s])}
NewTexts(p, s) == {log[s][i].text : i \in process[p].state[s] + 1 .. Len(log[s])} \cap Memorable

(* One session's new messages are committed to the graph in memory, and    *)
(* update_all, which refreshes the strength of every node, marks them all. *)
(* Without candidates only the progress is saved.  The order of the        *)
(* sessions (by file time) is left open.                                   *)
MarksOnlyNew(p, texts) == process[p].dirty \cup (texts \ process[p].memory)  \* fault: only new nodes
Marked(p, texts) == process[p].memory \cup texts
Commit(p, s) ==
  /\ At(p, "pick") /\ s \in Pending(p)
  /\ LET texts == NewTexts(p, s)
         done == [process[p] EXCEPT !.state[s] = Len(log[s]), !.todo = @ \ {s}]
     IN  IF texts = {} THEN Becomes(p, [done EXCEPT !.pc = "open"])
         ELSE Becomes(p, [done EXCEPT !.pc = "store", !.memory = @ \cup texts,
                            !.dirty = Marked(p, texts)])
  /\ UNCHANGED files /\ UNCHANGED history
NothingPending(p) ==
  /\ At(p, "pick") /\ Pending(p) = {}
  /\ Becomes(p, Leaves(p))
  /\ UNCHANGED files /\ UNCHANGED history

(* save_graph: the JSON store writes the process's graph, the SQLite store *)
(* its dirty nodes.                                                        *)
SavedWhole(p) == process[p].memory  \* fault: rows of other processes are dropped
Saved(p) == IF backend = "json" THEN process[p].memory ELSE graph \cup process[p].dirty
Store(p) ==
  /\ At(p, "store")
  /\ graph' = Saved(p)
  /\ Becomes(p, [process[p] EXCEPT !.pc = "open", !.dirty = {}])
  /\ UNCHANGED <<backend, log, wal, progress, tmp>> /\ UNCHANGED history
(* The store raises: SQLite has consumed the change sets by then, and the  *)
(* nodes stay in memory.                                                   *)
StoreFails(p) ==
  /\ At(p, "store") /\ failures < MaxFailures
  /\ failures' = failures + 1
  /\ Becomes(p, [Leaves(p) EXCEPT !.dirty = IF backend = "json" THEN @ ELSE {}])
  /\ UNCHANGED files /\ UNCHANGED <<turn, kept>>

(* _save_state: open (and truncate) the temporary file, write, rename.     *)
(* Every process uses the same name.                                       *)
WritesBehindRename(p) == [process[p] EXCEPT !.pc = "rename", !.handle = "tmp"]  \* fault: not written yet
Opened(p) == [process[p] EXCEPT !.pc = "write", !.handle = "tmp"]
OpenState(p) ==
  /\ At(p, "open")
  /\ tmp' = Empty
  /\ Becomes(p, Opened(p))
  /\ UNCHANGED <<backend, log, wal, graph, progress>> /\ UNCHANGED history

(* Another process may have written since this one truncated the file: if  *)
(* that was longer, its end is still there.                                *)
Overwritten(old, new) == IF old \in {Empty, new} THEN {new} ELSE {new, Garbled}
WriteState(p) ==
  LET new == process[p].state
  IN  /\ At(p, "write")
      /\ CASE process[p].handle = "tmp" -> tmp' \in Overwritten(tmp, new) /\ UNCHANGED progress
           [] process[p].handle = "published" ->
                progress' \in Overwritten(progress, new) /\ UNCHANGED tmp
           [] OTHER -> UNCHANGED <<progress, tmp>>
      /\ Becomes(p, [process[p] EXCEPT !.pc = "rename", !.handle = "gone"])
      /\ UNCHANGED <<backend, log, wal, graph>> /\ UNCHANGED history

(* The rename publishes whatever has the name by now; files that others    *)
(* have open move along.  If another process was faster, it raises.        *)
Moved(handle) == IF handle = "tmp" THEN "published" ELSE "gone"
RenameState(p) ==
  /\ At(p, "rename")
  /\ IF tmp = NoFile
     THEN Becomes(p, Leaves(p)) /\ UNCHANGED <<progress, tmp>>
     ELSE /\ progress' = tmp /\ tmp' = NoFile
          /\ process' = [q \in Processes |->
               IF q \notin Alive THEN NoProcess
               ELSE [process[q] EXCEPT !.handle = Moved(@), !.pc = IF q = p THEN "pick" ELSE @]]
  /\ UNCHANGED <<backend, log, wal, graph>> /\ UNCHANGED history

-----------------------------------------------------------------------------
(* Ending.  suspend flushes the WAL and saves the graph, end_session clears*)
(* the WAL after that.  The command's own WAL is empty and left out.       *)
Flush(p) ==
  wal' = IF process[p].kind = "consolidate" THEN wal
         ELSE [wal EXCEPT ![process[p].session] = process[p].buffer]
Suspend(p) ==
  /\ At(p, "suspend")
  /\ Flush(p)
  /\ graph' = Saved(p)
  /\ IF process[p].kind = "end" THEN Goes(p, "clear") ELSE Exits(p)
  /\ kept' = IF process[p].kind # "prompt" THEN kept
             ELSE [kept EXCEPT ![process[p].session] = @ \cup {Len(log[process[p].session])}]
  /\ UNCHANGED <<backend, log, progress, tmp, turn, failures>>
(* The graph cannot be saved, or the process is killed before it is; the   *)
(* WAL is left as it was flushed.                                          *)
SuspendFails(p) ==
  /\ At(p, "suspend") /\ failures < MaxFailures
  /\ failures' = failures + 1
  /\ Flush(p)
  /\ Exits(p)
  /\ UNCHANGED <<backend, log, graph, progress, tmp, turn, kept>>
ClearWal(p) ==
  /\ At(p, "clear")
  /\ wal' = [wal EXCEPT ![process[p].session] = NoFile]
  /\ Exits(p)
  /\ UNCHANGED <<backend, log, graph, progress, tmp>> /\ UNCHANGED history
(* The server ends with Claude Code and saves nothing.                     *)
ServerExits(p) == At(p, "idle") /\ Exits(p) /\ UNCHANGED files /\ UNCHANGED history

(* A process is killed: a hook at its timeout, any other by its user.      *)
Kill(p) ==
  /\ p \in Alive /\ failures < MaxFailures
  /\ failures' = failures + 1
  /\ Exits(p)
  /\ UNCHANGED files /\ UNCHANGED <<turn, kept>>

-----------------------------------------------------------------------------
Event ==
  \/ \E p \in HookProcesses, s \in ClaudeSessions :
       \/ \E t \in Prompts : Prompt(p, s, t)
       \/ \E t \in Replies : Stop(p, s, t)
       \/ SessionEnd(p, s)
  \/ \E p \in Servers, s \in ServerSessions : StartServer(p, s)
  \/ \E p \in Servers, t \in Prompts : MemoryLog(p, t)
  \/ \E p \in Servers : MemoryConsolidate(p)
Commanded == \E p \in Commands : ConsolidateCommand(p)

Logging(p) == SkipReply(p) \/ LogReply(p) \/ LogPrompt(p)
Consolidating(p) ==
  \/ LoadState(p) \/ NothingPending(p) \/ Store(p)
  \/ \E s \in Sessions : Commit(p, s)
  \/ OpenState(p) \/ WriteState(p) \/ RenameState(p)
Ending(p) == Suspend(p) \/ ClearWal(p)
Step(p) == Logging(p) \/ Consolidating(p) \/ Ending(p)
Failure(p) == StoreFails(p) \/ SuspendFails(p) \/ Kill(p)

Next ==
  \/ Event \/ Commanded
  \/ \E p \in Processes : Step(p) \/ Failure(p)
  \/ \E p \in Servers : ServerExits(p)

Spec == Init /\ [][Next]_vars

(* A process that runs goes on; Claude Code ends some day, and its server  *)
(* with it; the command is run again and again.  Nobody has to prompt, and *)
(* no session has to end.                                                  *)
FairSpec ==
  /\ Spec
  /\ \A p \in Processes : WF_vars(Step(p))
  /\ \A p \in Servers : SF_vars(ServerExits(p))
  /\ SF_vars(Commanded)

-----------------------------------------------------------------------------
(* Properties *)

TypeOK ==
  /\ backend \in Backends
  /\ log \in [Sessions -> Seq([role : {"user", "assistant"}, text : Texts])]
  /\ wal \in [ClaudeSessions -> (SUBSET BufferEntry) \cup {NoFile}]
  /\ graph \in SUBSET Memorable
  /\ progress \in Progress \cup {NoFile, Empty, Garbled}
  /\ tmp \in Progress \cup {NoFile, Empty, Garbled}
  /\ process \in [Processes -> Process \cup {NoProcess}]
  /\ turn \in [ClaudeSessions -> [reply : Replies \cup {NoText}, answers : Nat]]
  /\ kept \in [ClaudeSessions -> SUBSET (1 .. MaxLog)]
  /\ failures \in 0 .. MaxFailures

(* "Consolidates the session into the graph" (README.md:152): the contents *)
(* of all messages below a progress index are in the stored graph.         *)
Below(state) == (UNION {{log[s][i].text : i \in 1 .. state[s]} : s \in Sessions}) \cap Memorable
SettledIsStored == Below(Recorded) \subseteq graph

(* No process can publish a claim that is not true: that holds for every   *)
(* progress state that a process has read or is about to write, and for    *)
(* what the temporary file holds, which another process may publish.       *)
ClaimsAreStored ==
  /\ SettledIsStored
  /\ tmp \in Progress => Below(tmp) \subseteq graph
  /\ \A p \in Alive : process[p].pc # "store" => Below(process[p].state) \subseteq graph

(* "the session buffer is resumed from its write-ahead log between them"   *)
(* (README.md:145) and "RawLogger continues message numbering"             *)
(* (CHANGELOG.md:12): what the prompts whose hook returned put in the      *)
(* buffer is in the WAL file, under the message's position in the log,     *)
(* whatever was killed since; until the session ends.                      *)
BufferIsResumed ==
  \A s \in ClaudeSessions :
    \A i \in kept[s] :
      log[s][i].text \in Buffered =>
        wal[s] # NoFile /\ <<log[s][i].text, i>> \in wal[s]

(* "hook fired twice for the same turn" (hooks.py:114): a turn's reply is  *)
(* logged once at most, also when a Stop hook was killed half way.         *)
RepliesAreLoggedOnce == \A s \in ClaudeSessions : turn[s].answers <= 1

(* Processes that do not overlap never leave an unreadable progress file,  *)
(* wherever they are killed: the rename protects it.                       *)
ProgressStaysReadable == backend \notin Shared => Readable

(* What was said is remembered in the end, though hooks are killed, stores *)
(* fail and sessions never end, as long as the progress file is readable:  *)
(* however often somebody speaks, there comes a moment at which all that   *)
(* was said until then is in the stored graph.                             *)
Logged == (UNION {{log[s][i].text : i \in DOMAIN log[s]} : s \in Sessions}) \cap Memorable
SaidIsRemembered == []<>(Logged \subseteq graph \/ ~Readable)

(* The processes keep what LastingMemory promises.                         *)
Abstract == INSTANCE LastingMemory WITH
  Contents <- Memorable, said <- Logged, remembered <- graph, done <- Below(Recorded)
ImplementsLastingMemory == Abstract!Spec

=============================================================================
