# awhm-lite in TLA+

`awhm` gives an assistant a memory: every message goes to a raw log, patterns in
it to a session buffer, and from time to time the logs are consolidated into a
graph of statements and entities that queries search. This directory models that
program in TLA+, model-checks it with TLC on small instances and proves its safety
properties with TLAPS for every value of the constants. Paths below are relative to
the repository; inside the modules they are relative to `src/awhm/`.

## The system

| Component | State it keeps | Operations | What is hard |
|---|---|---|---|
| Raw log (`raw_log/`) | one JSONL file per session | append, read, rewrite without some messages | other processes append at any moment; positions in the file are used as message names |
| Session buffer and WAL (`session_buffer/`) | entries and a version in memory, one WAL file | add, remove, clear, flush, recover, stop, clear the file | a timer thread flushes what the main thread changes without the lock |
| Consolidation (`consolidation/pipeline.py` and its helpers; Stage 2 in `stage2.py`) | progress index per session, the batch under way | gather by rules and by LLM, deduplicate, resolve entities, supersede, link, save, move progress | may fail or die anywhere; reprocessing meets its own half-done work; an LLM answers anything or nothing |
| Memory graph (`graph/memory_graph.py`) | nodes, edges, adjacency index, change sets, versions, embedding matrix | add, change in place, remove, link | derived state that must follow every change |
| Graph stores (`graph/store.py`, `serialization.py`) | the JSON file or the SQLite tables | load, import, save | the SQLite save is incremental |
| Retrieval (`retrieval/`) | a BM25 index cached by version | query, with history, as of a moment | three sources, two codes that decide what is superseded, validity windows, weights |
| Hard deletion (`deletion/hard_delete.py`) | tombstones and ledger | a cascade over graph, logs, buffer, snapshots | several files, one after the other |
| Snapshots (`snapshots/manager.py`) | snapshot files | create, restore | bring an old graph back next to newer logs |
| Session facade (`__init__.py`) | whether a session is open | start, suspend, end, log, query, consolidate, delete, snapshot, restore | order of the calls it makes |
| Hooks, MCP server, command line (`hooks.py`, `mcp_server.py`, `cli/`) | a graph, buffer and progress copy per process | processes that make the calls above | several processes without a common lock on the same files, killed at timeouts |
| Strength scores, evaluation, configuration | scores; none; none | | |

How they interact. The facade appends to the log and then to the buffer. `consolidate`
reads the log past the progress index, changes the graph in memory, saves it through the
store and then writes the progress file. A query reads buffer, graph and log, and writes
access counts to the graph. A hard deletion changes the graph, then rewrites the logs
that the node's `source_refs` name, scrubs buffer and snapshots, writes tombstone and ledger,
and saves the graph last. A restored snapshot replaces graph and buffer, not logs and
progress. Each hook, the MCP server and each command is a process with a facade of its own on the same directory.

What makes each part correct, in one line:

* consolidation: one current value per slot, no content twice, nothing processed is lost,
  references and successor links are true, whatever fails in between;
* WAL: a flush that is skipped would have changed nothing, a suspended session is whole on disk,
  a running one gets there;
* graph and store: a save that writes only what is marked equals a save of everything, and no
  cache is used that does not fit;
* deletion: what was deleted does not come back, and nothing else is deleted;
* processes: progress claims only what is stored, the buffer and the turn's reply survive from hook to hook, and what was
  said is remembered in the end;
* retrieval: windows tile the past, the present agrees with the status, past answers do not
  change, and corrections win in every source.

## The modules

| Module | Models | Composed with |
|---|---|---|
| `Consolidation` | `consolidate_session` and `_commit`, Stage 2, entity resolution, logs, progress file, graph file; aborts and crashes | |
| `HardDelete` | the deletion cascade, snapshots, tombstones | EXTENDS `Consolidation`: same graph, logs and progress index |
| `SessionWal` | buffer, WAL file, lock, timer chain, closing and restoring | |
| `DurableGraph` | the promise of a graph store: save, load, lose what was not saved | |
| `GraphStore` | `MemoryGraph` with its index, change sets and caches, JSON and SQLite store | implements `DurableGraph` (`INSTANCE ... WITH`) |
| `Retrieval` | buffer, consolidation in time, validity windows and the whole query | takes from `Consolidation` that no content has two nodes |
| `LastingMemory` | the promise of all processes together: say, remember, settle | |
| `Hooks` | hooks, MCP server and `awhm consolidate` as processes on one data directory, with kills and failing stores | implements `LastingMemory` (`INSTANCE ... WITH`); sees graph contents, where `Consolidation` sees nodes |
| `MC...` | the instances TLC checks | |
| `ConsolidationProofs`, `ConsolidationHistoryProofs`, `ConsolidationSourceProofs` | theorems and proofs about `Consolidation`: current values; one graph's history; graph, logs and progress | each EXTENDS the one before or the first |
| `SessionWalProofs`, `GraphStoreProofs`, `HardDeleteProofs`, `RetrievalProofs`, `HooksProofs` | theorems and proofs about the module named | `HardDeleteProofs` EXTENDS `ConsolidationSourceProofs` |

**`Consolidation`.** `log`, `progress`, `nodes`, `edges`, `saved` are the log files,
`consolidated_sessions.json`, the graph in memory and the graph file; `job` is the local state of
`consolidate_session`. Every candidate of a batch is committed in a step of its own, so an exception
(`Abort`) or a crash (`Crash`) can come between any two; the graph save and the progress save are two
steps (`pipeline.py:137-138`). Where the code computes from text or vectors, the model takes the result as a
constant: `Extract` (what NER and patterns find), `Answers` (what an LLM's answer parses to), `Near` (embedding similarity above the
threshold), `Linked` (the same between an entity's text and a node, with the guard on spelling), `Contained` (token containment of
normalised forms), `Mentions`. The assumptions about them are those the code forces: identical text has identical embedding
and key, NER candidates have no slot, any LLM call may come to nothing. Two statements may begin alike
(`prefix`): of a batch's matches with one beginning the code keeps the first and drops the rest (`FirstOfPrefix`,
`extraction.py:34-36`).

Stage 2 (`Proposed`, `stage2.py:284-364`): the new messages are cut into chunks, each is answered by any member of `Answers`, and a proposal
becomes a candidate if it is confident and cites messages of its chunk. Entity resolution (`Resolved`, `entities.py:112-151`) has
the three passes of the code: a known alias, an unambiguous containment, the closest embedding; `IsNew` is the case where all three
come to nothing. Aliases grow with every resolved form.

**`HardDelete`.** One variable, `deletion`, is the cascade under way. Log rewriting is split into the read and the
rename (`raw_log/reader.py:84-114`) because hooks append in between. `DeletionFails` is an exception with the process
alive, `Crash` its death. `ClampProgress`, the case of `consolidate_session` for a log shorter than its progress index, is
here because only a deletion shortens a log. The session buffer's part of the cascade (step 3 of the code) is left out, and so is
the fallback by content for nodes without references.

**`SessionWal`.** A thread's `flush()` is cut where another thread can see the difference: lock and read version, copy
entries, write and rename, record version and unlock. `add_entry` is cut between the list and the version. `timer` is the
chain of `threading.Timer` objects: waiting, flushing, looking at `_running`, creating the next, starting it.

**`GraphStore`.** Every mutator of `MemoryGraph` updates what the code updates with it: the adjacency lists, the
change sets, `content_version`, the staleness of the matrix. `Upserted` is the SQLite transaction. `json` and `db` are both
there because the first SQLite start imports the JSON file.

**`Hooks`.** `log`, `wal`, `graph`, `progress` and `tmp` are files; `process` maps a process id to the state that process has:
its copy of the graph (`memory`) and its change set (`dirty`), its buffer, `RawLogger._msg_index`, the progress state it read, and where it is. A hook is
started by Claude Code, which runs the hooks of one session one after the other and kills a hook at its timeout
(`hooks.py:140-155`); the Stop hook may be started again for the same turn. A consolidation is cut at every access to a
file: reading the progress, committing one session in memory, storing the graph, opening, writing and renaming the progress file,
whose temporary name all processes share (`pipeline.py:439-445`). `handle` says what has become of the file a process has open: it
may have been published under its hands by another's rename. `turn` and `kept` are history variables for the properties. A
memorable text stands for the node made of it: ids, slots and edges are in `Consolidation`.

**`Retrieval`.** `clock` moves with every message and consolidation. `memory` maps a candidate to what the graph says of
it: status, window, last reference, access count. `Ask` is `query()` in full: buffer hits, history filter, anchors by words
or meaning, neighbours, blend, raw-log fallback, deduplication, top *k*, reinforcement. Every message has a role: all are
logged and consolidated, only the user's and tool results reach the buffer (`__init__.py:200-202`). Scores are integers: features in hundredths,
results in ten-thousandths, so the weights of `config.py` appear as 55, 20, 15, 10, 10. Which nodes are linked, and how
strong they are, is arbitrary in every query.

Definitions with the comment `fault` are ways the code could have been wrong: a dropped guard, a missing reset, a swapped
order. No specification uses them. Replacing the definition each stands next to by it must make a run fail; this is how
every property was shown to depend on the code (`PROJECT.json`, "mutants").

## The runs

All end within four minutes. "Bounds" are the constants that make the state space finite; each action that raises a
counter has the bound as a guard, and three runs have a constraint besides, named below.

| Run | Bounds | What it shows |
|---|---|---|
| `MCFacts` | 2 sessions, 2 messages each, 3 ids; about a slot, about companies (3 messages in all) or about addresses that begin alike | with aborts and crashes anywhere: one value per slot, no content twice, nothing processed is lost but what an earlier match stands in for, one node per entity, true references, access counts equal to sessions |
| `MCSession` | 1 session, 3 messages of 9 kinds, 4 ids, window 2; or 3 of 3 kinds, 3 ids, refined by an LLM in chunks of 2 with 3 answers | true references, exactly one successor for everything superseded, temporal edges form chains, a corrected fact yields only to its own slot, a slot on disk keeps a value |
| `MCDelete` | 1 session, 2 messages, 2 ids | across restores, failures and crashes: what was deleted stays deleted, the erasure reaches every file |
| `MCWal` | 2 entries, 4 versions, 1 failed write | a skipped flush loses nothing, a suspend is complete, flushes do not undo each other, and entries reach the file unless a write failed |
| `MCStore` | 2 ids, 2 values, 1 link, 4 changes, both stores, with and without a JSON graph to import | both stores implement `DurableGraph`; edges, adjacency index, matrix and BM25 index fit the graph |
| `MCRetrieval` | 6 kinds of message, one of them dated, one that both sides say, one only the assistant; 4 said, clock 9, window 1, 3 queries, *k* = 3, access count 2 | windows tile the past, the present agrees with the status, the past is stable, buffer and graph differ only by what the assistant said, a buffer hit is above every graph result, nothing is dragged in by a node that does not match |
| `MCHooks` | 1 Claude Code session, 1 server session, 1 hook at a time, 1 server, 1 command, any 2 alive (SQLite) or 1 (JSON), 2 messages, of which a prompt and a reply are worth remembering, 1 kill or failure | progress claims only what is stored, the WAL hands the buffer on with the right numbers, a reply is logged once, the processes implement `LastingMemory`, and what either side said is remembered |

Why they are enough. A slot conflict needs two values and a third statement (correction or paraphrase) to be
restated by; both sessions are needed for merged references; an abort or crash and the reprocessing after it need no
more messages than the batch has. An aborted batch wastes ids: when none is left the
batch waits and only `Abort` and `Crash` go on, which is why those runs never deadlock. `MCSession` needs three messages in one
session: two for a supersession or an edge, one to be a wrong second successor or a branch. The second id in `MCDelete` is what
lets a content come back under another id after a restore, and its second message is what a deletion can shorten the log
before. A window of 2 (1 in `MCRetrieval`) puts statements
inside, on and beyond the boundary within the bound on the log. The WAL's two entries and four versions allow a change in each of the three
gaps of one flush. In `GraphStore` a change and its reversal between two saves need two ids and two values;
one link suffices because a removal treats the edges of a node as a set, and `GraphStoreProofs` covers any number of them.
In `Hooks` one memorable prompt in the logs of two sessions, and one reply, are enough for a node that one process has stored and another has not loaded,
and that a third reinforces; one failure is enough for a store that loses its marks or a process that dies between two
files. Three processes write the progress file no differently from two: what one finds there was put there by some other.

`MCFacts` tells three stories and `MCSession` two, which the constraints `OneStory` and `RulesOrRefined` keep apart: a slot, a company and two long
addresses have nothing to say to each other, and an LLM's proposals need few messages beside them. The addresses differ only beyond their hundredth
character; said in one batch, the second is cut, said in two, it is not. In `MCRetrieval` the dated and the plain statement about one name begin alike. In `MCRetrieval` queries are
asked within smaller bounds on clock and log than what is only said (`Early`, `AskedEarly`). One kind of message has dates, and
shows both ends of a window.

Ids and sessions are symmetric (`SYMMETRY` in the `Consolidation`, `HardDelete` and `MCWalEnd` runs): they are compared for equality
only. `MCWal` and `MCHooks`, which have liveness properties, use no symmetry. Deadlock is checked except where a run's own bounds end the behaviour:
the `MCRetrieval` run (clock, log and access bounds), and `MCNewest` and `MCDelIndexes`, whose specifications (`CalmSpec`, `QuietSpec`) leave
out crashes, so that full logs are the end.

**Fairness.** `SessionWal!FairSpec`, which `MCWal` runs: weak fairness of the main thread inside a call, of the timer chain
and of each thread's flush. A Python thread that can run eventually does, a `Timer` fires after its interval, and both threads
hold the lock only for a bounded stretch. Weak fairness is enough for the lock because the main thread takes it
once when closing and the timer once per interval. Nobody is assumed to log, delete, close or
crash. `Starts` of a new session is not fair: a process that died need not be started again.

`Hooks!FairSpec`, which `MCHooks` runs: weak fairness of each process's own steps, since no step of it waits for another process; strong
fairness of the server's exit, since Claude Code ends some day but only between two tool calls; strong fairness of `awhm consolidate`, only when there is room for a process. Prompts, replies, the end of a session and server calls are not fair, so
`SaidIsRemembered` does not lean on a SessionEnd hook that may never come. The last premise is about the user: nothing in `src/` schedules
`awhm consolidate` or the server's `memory_consolidate`, whose description only advises to run it "at the end of a conversation or periodically"
(`mcp_server.py:106-110`). `SaidIsRemembered` says what that advice buys: again and again, everything logged so far is in the stored graph, through kills and
failed stores, unless the progress file has become unreadable. Where nobody consolidates, nothing is promised.

## Where code and promises differ

Each of these is a run that states what the repository says and that TLC refutes with a behaviour of the code.

| Run | Property | What happens |
|---|---|---|
| `MCNewest` | `NewestStatementWins` | A, then B, then A again: the restatement is a duplicate of a superseded node (or of an earlier candidate of its batch), so B stays current (`pipeline.py:207`, `deduplication.py`) |
| `MCDelIndexes` | `DeletesOnlySources` | a deletion shifts the positions other nodes' references hold; the next deletion removes other messages (`hard_delete.py:83`) |
| `MCWalEnd` | `EndDiscardsWal` | a timer past cancellation writes after `clear_wal` (`wal.py:79`) |
| `MCSqliteRestore` | `RestoreIsDurable` | rows that the restored graph does not hold stay in the table (`store.py:153`) |
| `MCLostUpdate` | `SettledIsStored` | with the JSON store, a prompt hook (UserPromptSubmit) starts and loads the graph, `awhm consolidate` stores the memory of its prompt, the hook's suspend saves its older graph over it, and the command records the session as done; nothing consolidates the session again (`serialization.py:12`, `store.py:76`) |

Further behaviours of the code that a reader of the runs should know of; most are in the models, and no run states the opposite:

* of the matches of a batch whose type and first 100 characters are the same only the first is kept, so a long statement that differs further on has no node
  although the progress index passes it (`extraction.py:34`, whose docstring says "applied for completeness"); `ProcessedIsRemembered` says who stands in for it;
* the assistant's replies are consolidated but not buffered (`__init__.py:84`, `201`; `extraction.py:31`), so a statement of the assistant is in the graph, or supersedes
  one there, while the buffer answers with what the user said; `BufferAgreesWithGraph` says that nothing else makes the two differ;
* a near-duplicate entity candidate is skipped, so its node is not in the pool that statements attach to
  (`pipeline.py:271`); nor are the entities of a batch that aborted after they were added;
* the progress index is a position in a log that a deletion shortens, so later messages fall below it (`pipeline.py:119`);
* a statement said twice in one batch keeps one reference, so its other message survives the node's deletion (`pipeline.py:207`);
* a message appended between the read and the rename of a log rewrite is lost (`raw_log/reader.py:84`);
* tombstone and ledger are written before the graph is saved (`hard_delete.py:121`);
* an `OSError` in the timer thread ends the periodic flushes (`wal.py:94`), hence the exception in `EntriesReachDisk`;
* the SQLite save consumes the change sets before its transaction commits (`store.py:153`), and a process that dies in
  the first import leaves an empty database that later starts read (`store.py:115`);
* a fact whose `valid_until` has passed stays in default answers (`engine.py:190`), and superseding it moves its end to now (`pipeline.py:371`);
* of two messages in a batch that name the same date only the first keeps it (`temporal.py:98`);
* the filter of superseded buffer entries sees only the entries that match the query (`engine.py:140`);
* a statement valid from a moment before its consolidation overlaps the one it supersedes, whose window closes at consolidation
  (`pipeline.py:349`, `371`); `OneValueAtATime` is checked with dates from now on;
* all of a batch's LLM proposals are committed after all of its rule candidates, so a proposal from an early message supersedes a newer
  statement of its slot (`pipeline.py:213`), and a chunk whose call fails is never put to the LLM again (`stage2.py:304`);
* two processes that write the shared temporary progress file at once can publish it half-written or mixed up; from then on
  every consolidation raises until the file is removed (`pipeline.py:403`, `443`), hence the exception in `SaidIsRemembered`;
* with SQLite a save that has edges replaces the whole edge table by this process's (`store.py:174`); nodes of other processes stay;
* the message numbers of a buffer are off once a deletion has shortened the log of a running session (`logger.py:24`);
* the best raw-log hit scores 0.5, a graph node found by words alone at most 0.45 (`engine.py:320`).

The SQLite ones decide the shape of `GraphStore!Next`: failing saves and restores (`Whole`) are in it for the JSON store only, because the
promise holds for SQLite without them; `AnyNext` has them, and the dying import, for both. `MCHooks` lets processes overlap with SQLite only, because with JSON
not even `SettledIsStored` holds then; its JSON part, one process at a time, is where `ProgressStaysReadable` is about every kill.

## The proofs

Every invariant and every action property that a passing run checks is also a theorem, for every value of the constants; so are both
refinements. What stays with TLC is named at the end of this section. An invariant is seldom inductive as it stands; each list below says what it
was strengthened by, and why that is needed.

**`ConsolidationProofs`**, for any sessions, messages, candidates, extraction, LLM answers, chunk size, similarity, alias relation and window:

* `TypeCorrect`: `TypeOK` is inductive as it stands; the conjuncts on the batch (pool, fresh nodes and previous
  episode are nodes of the graph) are what keeps edges inside the graph.
* `OneActiveStatementPerSlot`: a candidate is committed only after everything active in its slot with another
  statement was superseded in the same step, and the graph file is only ever a copy of memory. The invariant needs each
  node's slot to be its candidate's, and nodes in use to have been issued.
* `ReprocessingIsIdempotent`: no content has two nodes. Deduplication looks at the graph once, before the batch; the
  strengthening says what keeps this true during the commit: no candidate still to do has the content of a
  node in memory, and no two of them have the same content.

**`ConsolidationHistoryProofs`**, what one graph says of its past:

* `EverySupersededHasOneSuccessor` and `FactsAreReplacedInTheirSlot` (`SuccessionInv`): lists name nodes of their graph, which is what makes the new
  node, in no list so far, the only successor; what is listed is superseded and never superseded again; a listed fact has its successor's slot.
* `FactsNeverLoseTheirValue` (`ValueInv`), an action property: every value of a fact slot on disk has one in memory, because the commit that takes a value
  away brings the next. This needs that a slot belongs to one family (`FamilyOfKey`).
* `TemporalEdgesAreChains` (`ChainInv`): the episode that the next one will be linked from leads nowhere yet.
* `AnAliasNamesOneEntity` (`NameInv`): a form is registered only with the node that its alias resolves to, and the pass by containment or
  embedding is taken only if no node has the alias.

**`ConsolidationSourceProofs`**, which relates the graph to the logs:

* `EverySessionIsCountedOnce` (`CountInv`): the session sets are finite, without which a cardinality says nothing.
* `ReferencesPointAtTheirSource` (`RefInv`): the references of what waits to be committed name messages of the session that is consolidated,
  and the log below them does not change while they wait.
* `ProcessedMessagesAreRemembered` (`KeptInv`): for every match of a processed message, it or an earlier match of the session that begins alike (`StandIns`)
  is remembered; the cut keeps the first of those that begin alike, so each match of a batch has a stand-in that is gathered. What the progress index has passed is remembered in memory and on disk, since a crash makes the one of
  the other; what the batch in hand has read is remembered or waits; nothing waits once the edges are made; and the graph is on disk when the progress is
  written. It uses that the first occurrence of a statement stands for the others, and that a graph that grows forgets nothing.
* `DistinctMessagesAreRemembered` is the corollary for logs that the cut does no harm to: if the first hundred characters tell statements apart
  (`PrefixesTellApart`), every match of every processed message is itself remembered.

**`SessionWalProofs`**, for any entries, versions and number of failures:

* `SkippedFlushLosesNothing` and `SuspendIsComplete` follow from `WalInv`: one thread flushes and holds the lock
  (`OneFlusher`); no flush has a version ahead of the buffer (`NotAhead`); a copy made for the current version is the buffer
  unless a change has not raised the version yet (`CopyIsCurrent`); what was written is the copy (`WroteCopy`); a
  recorded version that is the buffer's means a saved buffer (`SavedIfFlushed`); after `stop` nothing is left to write (`StopFlushed`),
  because the main thread waits for the lock (`MainWaits`). The argument is that `version` is read before the entries: a change in
  between makes the copy newer than its version, never older.
* `FlushesNeverCross` (`CoverInv`), an action property: a copy that waits to be written covers what file and buffer share. Between copy and write only entries of new
  messages come in, and those no file holds.
* `ThreadsKeepTheirShape`: `TypeOK`.

**`GraphStoreProofs`**, for any ids, values, links and either store:

* `IndexIsRight` (under `AnySpec`: failing saves, restores and the dying import of either store): `RemoveNode` finds its edges in the index, so the index being
  right is what makes its removal complete.
* `CachesNeverLag` (`CacheInv`, under `AnySpec`): a version that an index has seen does not come again, because it only grows while the index lives.
* `StoresKeepTheirShape` (`ShapeInv`, under `AnySpec`): every id in any graph, table or snapshot has been issued.
* `NothingUnmarkedDiffers` and `StoreIsDurable` (under `Spec`: the JSON store with failing saves and restores, the SQLite store without): every difference between graph and
  table is in a change set, hence `Upserted` of the change sets is the graph; then every step of the store maps to a step or a stutter of
  `DurableGraph`.
* `EdgesNeverDangle` (`SaneInv`, under `Spec`): memory, both files and all snapshots together, since each may become the other.

**`HardDeleteProofs`**, on top of the consolidation's proofs, whose steps are steps here:

* `DeletedNodesStayAway` (`AwayInv`): a deletion under way has taken its node out of memory already, and from its recording on out of the snapshots too. Only
  the file may still hold the node, and a crash that brings it back ends a deletion that has not returned.
* `CompletedDeletionsErase` (`ErasureInv`), an action property: the content too is gone from memory and then from the snapshots. That no second node
  carries it is `NoContentTwice`, which has to hold of snapshots as well, since a restore makes one the graph.
* `DeletionsKeepTheirShape`: `DeletionTypeOK`.

The first two are about snapshots that are scrubbed (`ScrubSnapshots`, the setting `delete_snapshots_on_hard_delete`, `hard_delete.py:115`): as a condition inside
`DeletedStaysDeleted`, as a hypothesis of `CompletedDeletionsErase`. Without it a restore brings the node back, as the setting says.

**`RetrievalProofs`**, for any messages, matches, queries, scores, links and window, and logs of any length:

* `TypeCorrect` (`ShapeInv`): what a batch is about to commit was said since the last one, hence is in the log; memory is finite, so a query has a best score.
* `AtMostOneValueAtATime` and `StatusAndWindowAgree` (`WindowInv`): what is superseded has ended by now; one statement of a slot is active; without
  dates the windows of two statements of a slot do not overlap at all (`Sequential`); and what waits to be committed has no node yet, else a
  commit would reopen a window.
* `ThePastIsStable`, an action property, from the same: what is active without a date ends never so far, so closing it now changes no moment before.
* `BufferAndGraphAgree` (`LedgerInv`): the buffer's filter compares all matches of a log, while the graph commits only the first match of a
  statement and looks at what is active at that moment. What connects them: as long as nothing is said twice and nothing is cut (then what begins alike is one statement), memory is exactly the first occurrences committed so
  far, whoever said them, each with the index it was said at, and one is active unless a later committed one contradicts it (`Yields`). The rest is that a statement's first match
  yields if and only if its last match is hidden among all matches of the log. The buffer holds some of these, the user's, so its filter hides less, and every
  difference has a match of the assistant to show for it.
* `BufferComesFirst` and `NoSupersededAnchors` (`AnswerInv`): the lexical score is a share of the best one, each feature is at most 1.0, and association
  is only given to nodes that match too weakly to be anchors, so that the weights, which add up to 1.1, never reach more than 1.0 together.

**`HooksProofs`**, for any sessions, processes, texts, failures and either backend:

* `ProcessesKeepTheirShape`, `BuffersAreResumed` and `TurnsHaveOneReply` need each other. `HookInv` has: what kind of process is where (`Roles`);
  that a log has one writer at a time, which therefore counts right (`Logs`); that a hook's buffer has what earlier prompts left (`Buffers`); that a reply logged in
  this turn is the last entry (`Turns`), which is what a Stop hook that fires again compares with.
* `ProgressIsReadable` (`Alone`): a backend whose processes do not overlap has one writer of the temporary file, which holds its state when it is renamed.
* `WhatIsDoneIsStored` (`Claims`): of every progress state that a process has read or prepared, of the temporary file and of the progress file, what it claims
  is stored or, before the process's own store, about to be. What a process would store contains the whole stored graph: with SQLite because only changes are
  written, with JSON because the process has been alone since it loaded the graph.
* `ProcessesRemember`: each step maps to a step or a stutter of `LastingMemory`. Settling is the step that needs `WhatIsDoneIsStored`: a progress file is published
  only when what it claims is in the graph.

The last two assume `"json" \notin Shared`, that processes with the JSON store do not overlap. The code does not enforce it; that both fail
without it is the finding of `MCLostUpdate`. With SQLite any number of processes overlap.

**Assumptions.** Only the named `ASSUME`s of the modules, which TLC evaluates on the instances:

| Assumption | Why the code justifies it |
|---|---|
| `CandidateShape`, `AnswerShape`, `Shape`, `Kinds`, `TextShape`, `Worth`, `BackendNames`, `BackendsKnown`, `ScrubIsSet` | shapes of the data; NER candidates have no slot, LLM proposals are statements |
| `Sentinels`, `Sentinel` | a mark for "none" is not a value |
| `Bounds`, `MaxChangesIsNat`, `FiniteEntries`, `FiniteSessions` | counters are numbers, a run has finitely many entries and sessions |
| `SameContent` | identical text has the same embedding, key and statement |
| `FamilyOfKey` | the family is the part of the key before the colon (`canonical.py:110`) |
| `LinksJoinIds`, `LegacyGraphs` | an edge joins two different nodes; a JSON graph to import is one that the JSON store could have saved |
| `Hundredths`, `Scored` | features lie in [0, 1], and BM25 scores every document, with an idf that is never negative (`bm25.py:74`) |
| `Matching` | statement and key are functions of the text without its correction prefix; `match_message` tries corrections first and takes one match of a category, and the categories start with different words (`patterns.py:14-63`) |

**What proving changed in the models.** The steps that end a call in `SessionWal` had overlapping `CASE` guards, of which TLC took the first and a
prover may take none; they are disjoint now. `FamilyOfKey`, `LegacyGraphs`, `Scored` and `Matching` were silently true of the
instances and are stated now.

**Only model-checked.** Liveness (`EntriesReachDisk`, `SaidIsRemembered`): weak and strong fairness speak of `ENABLED`, which is out of
the prover's reach. What a fold or recursive function computes for every input (the chunks of Stage 2): induction needs an operator as a parameter. The five properties that the
code violates have counterexamples instead.

## Not modelled

* Regular expressions, date recognition, embeddings and BM25 arithmetic: given as data, as named above.
* Strength scores: real-valued arithmetic over clock times. Queries may meet any score; that their refresh marks every node
  for the next save is in `Hooks`.
* Stage 2's clients (`subprocess`, API), prompt text and JSON parsing: an answer is any member of `Answers`, a failure an empty one.
* An interrupt (Ctrl-C) within the commit of one statement: each is one step, `Abort` and `Crash` come between them.
* NER, and how the text of an entity normalises: each entity candidate comes with its alias and label.
* The buffer's part of a hard deletion (step 3 of `hard_delete.py`) and its fallback by content for nodes without references.
* A deletion, a snapshot or a restore next to other processes with the graph: `HardDelete` has one such process, whose logs others append to;
  `Hooks` has no deletions. Queries of other processes only mark nodes as accessed.
* Two session ids that share a WAL file name (`config.py:140`); progress files of version 1; the exact dates of `temporal.py`.
* The other commands of the command line and the server: one facade call each. Evaluation harness, configuration: no state of their own.

## Plan

Done, in this order: consolidation with its failures, since everything else stands on it; WAL; graph and stores; deletion over
consolidation; retrieval; the processes around them; Stage 2 and the passes of entity resolution; proofs of all safety properties and both refinements.

Next:

1. What holds where the code misses its promise: `NewestStatementWins` as long as nothing is restated, `DeletesOnlySources` up to the first deletion, `RestoreIsDurable` for JSON,
   each as a theorem, so that the boundary of each finding is exact.
2. The buffer's part of a hard deletion, with the stale message numbers it leaves behind, and deletions next to other processes.
3. For liveness, the safety part: a process or flush that is under way is never stuck, as an invariant in place of `ENABLED`.
