----------------------------- MODULE SessionWal -----------------------------
(***************************************************************************)
(* The session buffer and its write-ahead log (session_buffer/buffer.py,   *)
(* session_buffer/wal.py) with the session calls that drive them           *)
(* (__init__.py).  Two threads: "main" mutates the buffer, restores        *)
(* snapshots and closes the session; "timer" is the chain of               *)
(* threading.Timer objects that flushes periodically.  Only flush and the  *)
(* timer handle are under WALManager._lock; the buffer and clear_wal are   *)
(* not.  The process may die at any point; only the WAL file survives.     *)
(*                                                                         *)
(* Buffer contents are sets: entries are told apart by the message they    *)
(* come from, their order does not matter here.                            *)
(***************************************************************************)
EXTENDS Naturals, FiniteSets

CONSTANTS
  Entries,       \* buffer entries, one per logged message that matches a pattern
  MaxVersion,    \* bound: buffer mutations in one process
  MaxFailures,   \* bound: flushes that fail with an OSError
  Free, NoVersion

ASSUME Sentinels == NoVersion \notin Nat /\ Free \notin {"main", "timer"}
ASSUME FiniteEntries == IsFiniteSet(Entries)
ASSUME Bounds == MaxVersion \in Nat /\ MaxFailures \in Nat

VARIABLES
  logged,    \* entries whose message is in the raw log
  entries,   \* SessionBuffer._entries
  version,   \* SessionBuffer.version
  file,      \* the WAL file: {} when there is none, else {its entries}
  flushed,   \* WALManager._last_flushed_version
  running,   \* WALManager._running
  lock,      \* holder of WALManager._lock, or Free
  flush,     \* thread -> its flush() call: [at, version, data]
  main,      \* what the main thread does next
  timer,     \* what the timer chain does next
  plan,      \* restore in progress: {}, or {the entries still to add}
  closing,   \* "suspend" or "end": how the session is being closed
  failures   \* flushes that failed so far

bufferVars == <<logged, entries, version>>
flushVars == <<file, flushed, lock, flush, failures>>
vars == <<logged, entries, version, file, flushed, running, lock, flush, main, timer,
          plan, closing, failures>>

Threads == {"main", "timer"}
NoFlush == [at |-> "out", version |-> 0, data |-> {}]

(* No process: nothing in memory.                                          *)
Down ==
  /\ entries' = {} /\ version' = 0 /\ flushed' = NoVersion
  /\ running' = FALSE /\ lock' = Free /\ flush' = [t \in Threads |-> NoFlush]
  /\ main' = "down" /\ timer' = "none" /\ plan' = {} /\ closing' = "suspend"

Init ==
  /\ logged = {} /\ entries = {} /\ version = 0
  /\ file = {} /\ flushed = NoVersion
  /\ running = FALSE /\ lock = Free /\ flush = [t \in Threads |-> NoFlush]
  /\ main = "down" /\ timer = "none" /\ plan = {} /\ closing = "suspend"
  /\ failures = 0

-----------------------------------------------------------------------------
(* start_session: recover the WAL file into the empty buffer, one          *)
(* add_entry and one version each, then start the timer.                   *)
Start ==
  /\ main = "down"
  /\ entries' = UNION file
  /\ version' = Cardinality(entries')
  /\ running' = TRUE /\ timer' = "waiting" /\ main' = "idle"
  /\ UNCHANGED <<logged, plan, closing>> /\ UNCHANGED flushVars

(* log_message: the message is in the raw log, then the buffer is extended;*)
(* the version is raised by a later instruction (Bump).                    *)
Remember(e) ==
  /\ main = "idle" /\ version < MaxVersion
  /\ e \notin logged
  /\ logged' = logged \cup {e}
  /\ entries' = entries \cup {e}
  /\ main' = "bump"
  /\ UNCHANGED <<version, running, timer, plan, closing>> /\ UNCHANGED flushVars

(* remove_where, called by a hard delete: the list is replaced.            *)
Forget(e) ==
  /\ main = "idle" /\ version < MaxVersion
  /\ e \in entries
  /\ entries' = entries \ {e}
  /\ main' = "bump"
  /\ UNCHANGED <<logged, version, running, timer, plan, closing>> /\ UNCHANGED flushVars

Bump ==
  /\ main = "bump"
  /\ version' = version + 1
  /\ main' = IF plan = {} THEN "idle" ELSE "restore"
  /\ UNCHANGED <<logged, entries, running, timer, plan, closing>> /\ UNCHANGED flushVars

(* restore_snapshot: clear the buffer, add the snapshot's entries one by   *)
(* one, then flush with force=True.                                        *)
Restore(snapshot) ==
  /\ main = "idle"
  /\ version + Cardinality(snapshot) < MaxVersion
  /\ entries' = {}
  /\ main' = IF entries = {} THEN "restore" ELSE "bump"
  /\ plan' = {snapshot}
  /\ UNCHANGED <<logged, version, running, timer, closing>> /\ UNCHANGED flushVars
RestoreAdd ==
  /\ main = "restore"
  /\ \E e \in UNION plan : entries' = entries \cup {e} /\ plan' = {(UNION plan) \ {e}}
  /\ main' = "bump"
  /\ UNCHANGED <<logged, version, running, timer, closing>> /\ UNCHANGED flushVars
RestoreDone ==
  /\ main = "restore" /\ UNION plan = {}
  /\ plan' = {} /\ main' = "restoreFlush"
  /\ UNCHANGED <<running, timer, closing>> /\ UNCHANGED bufferVars /\ UNCHANGED flushVars

-----------------------------------------------------------------------------
(* flush(): version, copy of the buffer, write and rename, bookkeeping.    *)
CallsFlush(t) ==
  \/ t = "main" /\ main \in {"restoreFlush", "stopFlush"}
  \/ t = "timer" /\ timer = "flush"
Forced(t) == t = "main" /\ main = "restoreFlush"

(* What the caller does after flush() returns.                             *)
Return(t) ==
  /\ timer' = IF t = "timer" THEN "schedule" ELSE timer
  /\ main' = CASE t = "timer" -> main
               [] Forced(t) -> "idle"
               [] OTHER -> IF closing = "end" THEN "clear" ELSE "ended"

(* Nothing to write: the version is the one of the last flush.             *)
UnchangedOrStopping(t) == ~Forced(t) /\ (version = flushed \/ ~running)  \* fault: stop() skips its flush
Unchanged(t) == ~Forced(t) /\ version = flushed

FlushSkips(t) ==
  /\ CallsFlush(t) /\ flush[t].at = "out" /\ lock = Free
  /\ Unchanged(t)
  /\ Return(t)
  /\ UNCHANGED <<running, plan, closing>> /\ UNCHANGED bufferVars /\ UNCHANGED flushVars

TakesNoLock(t) == flush[t].at = "out"  \* fault: flushes are not exclusive
TakesLock(t) == flush[t].at = "out" /\ lock = Free
FlushReads(t) ==
  /\ CallsFlush(t) /\ TakesLock(t)
  /\ ~Unchanged(t)
  /\ lock' = t
  /\ flush' = [flush EXCEPT ![t] = [at |-> "read", version |-> version, data |-> {}]]
  /\ UNCHANGED <<file, flushed, failures, running, main, timer, plan, closing>>
  /\ UNCHANGED bufferVars
FlushCopies(t) ==
  /\ flush[t].at = "read"
  /\ flush' = [flush EXCEPT ![t] = [@ EXCEPT !.at = "copied", !.data = entries]]
  /\ UNCHANGED <<file, flushed, lock, failures, running, main, timer, plan, closing>>
  /\ UNCHANGED bufferVars
AddsFile(t) == file' = file \cup {flush[t].data}  \* fault: a second file
ReplacesFile(t) == file' = {flush[t].data}
FlushWrites(t) ==
  /\ flush[t].at = "copied"
  /\ ReplacesFile(t)
  /\ flush' = [flush EXCEPT ![t].at = "written"]
  /\ UNCHANGED <<flushed, lock, failures, running, main, timer, plan, closing>>
  /\ UNCHANGED bufferVars
(* The version recorded is the one read before the copy was made.          *)
RecordsLatest(t) == flushed' = version  \* fault: the version is read after the write
Records(t) == flushed' = flush[t].version
FlushEnds(t) ==
  /\ flush[t].at = "written"
  /\ Records(t)
  /\ lock' = Free
  /\ flush' = [flush EXCEPT ![t] = NoFlush]
  /\ Return(t)
  /\ UNCHANGED <<file, failures, running, plan, closing>> /\ UNCHANGED bufferVars

(* Writing fails with an OSError.  The lock is released; a timer thread    *)
(* ends without scheduling the next, the main thread leaves the call.      *)
FlushFails(t) ==
  /\ flush[t].at = "copied" /\ failures < MaxFailures
  /\ failures' = failures + 1
  /\ lock' = Free
  /\ flush' = [flush EXCEPT ![t] = NoFlush]
  /\ timer' = IF t = "timer" THEN "none" ELSE timer
  /\ main' = CASE t = "timer" -> main
               [] Forced(t) -> "idle"
               [] OTHER -> "broken"
  /\ UNCHANGED <<file, flushed, running, plan, closing>> /\ UNCHANGED bufferVars

Flush(t) ==
  FlushSkips(t) \/ FlushReads(t) \/ FlushCopies(t) \/ FlushWrites(t) \/ FlushEnds(t)

-----------------------------------------------------------------------------
(* The timer chain: _periodic_flush flushes, then _schedule_flush looks at *)
(* _running, stores a new Timer under the lock and starts it.              *)
TimerStep(from, to) ==
  /\ timer = from /\ timer' = to
  /\ UNCHANGED <<running, main, plan, closing>> /\ UNCHANGED bufferVars /\ UNCHANGED flushVars
Fires == TimerStep("waiting", "flush")
OneShot == TimerStep("schedule", "none")  \* fault: the timer is not rescheduled
Reschedules == TimerStep("schedule", IF running THEN "checked" ELSE "none")
Stores == lock = Free /\ TimerStep("checked", "stored")
Starts == TimerStep("stored", "waiting")

Timer == Fires \/ Reschedules \/ Stores \/ Starts

(* suspend / end_session: stop() clears _running, cancels the timer under  *)
(* the lock and flushes; end_session then clears the WAL without the lock. *)
Close(how) ==
  /\ main = "idle"
  /\ closing' = how /\ running' = FALSE /\ main' = "cancel"
  /\ UNCHANGED <<timer, plan>> /\ UNCHANGED bufferVars /\ UNCHANGED flushVars
(* Only a timer that waits or is about to can be cancelled.                *)
Cancel ==
  /\ main = "cancel" /\ lock = Free
  /\ timer' = IF timer \in {"waiting", "stored"} THEN "none" ELSE timer
  /\ main' = "stopFlush"
  /\ UNCHANGED <<running, plan, closing>> /\ UNCHANGED bufferVars /\ UNCHANGED flushVars
ClearFile ==
  /\ main = "clear"
  /\ file' = {} /\ main' = "forget"
  /\ UNCHANGED <<flushed, lock, flush, failures, running, timer, plan, closing>>
  /\ UNCHANGED bufferVars
ClearVersion ==
  /\ main = "forget"
  /\ flushed' = NoVersion /\ main' = "ended"
  /\ UNCHANGED <<file, lock, flush, failures, running, timer, plan, closing>>
  /\ UNCHANGED bufferVars

(* The process exits or is killed, daemon threads with it.                 *)
Dies ==
  /\ main # "down"
  /\ Down
  /\ UNCHANGED <<logged, file, failures>>

Main == Bump \/ RestoreAdd \/ RestoreDone \/ Cancel \/ ClearFile \/ ClearVersion

Next ==
  \/ Start \/ Main \/ Timer
  \/ \E e \in Entries : Remember(e) \/ Forget(e)
  \/ \E snapshot \in SUBSET logged : Restore(snapshot)
  \/ \E how \in {"suspend", "end"} : Close(how)
  \/ \E t \in Threads : Flush(t) \/ FlushFails(t)
  \/ Dies

Spec == Init /\ [][Next]_vars

(* A thread that can go on does: Python's scheduler starves none, a Timer  *)
(* fires after its interval, and both threads hold the lock only for a     *)
(* bounded stretch of code.  Nobody has to log, delete or close.           *)
FairSpec ==
  /\ Spec /\ WF_vars(Main) /\ WF_vars(Timer)
  /\ \A t \in Threads : WF_vars(Flush(t))

-----------------------------------------------------------------------------
(* Properties *)

TypeOK ==
  /\ logged \in SUBSET Entries /\ entries \in SUBSET Entries
  /\ version \in Nat /\ flushed \in Nat \cup {NoVersion}
  /\ file \in SUBSET SUBSET Entries /\ Cardinality(file) <= 1
  /\ running \in BOOLEAN /\ lock \in Threads \cup {Free}
  /\ flush \in [Threads -> [at : {"out", "read", "copied", "written"}, version : Nat,
                            data : SUBSET Entries]]
  /\ main \in {"down", "idle", "bump", "restore", "restoreFlush", "cancel", "stopFlush",
               "clear", "forget", "ended", "broken"}
  /\ timer \in {"none", "waiting", "flush", "schedule", "checked", "stored"}
  /\ plan \in SUBSET SUBSET Entries
  /\ closing \in {"suspend", "end"}
  /\ failures \in 0 .. MaxFailures

(* "Flushes are skipped when the buffer has not changed since the last     *)
(* write" (wal.py:18) loses nothing: whenever a flush would be skipped,    *)
(* the WAL file holds exactly the buffer, although the buffer is changed   *)
(* and its version raised without the lock.                                *)
Discarded == main = "forget" \/ (main = "ended" /\ closing = "end")
FlushedIsSaved ==
  (lock = Free /\ flushed = version /\ main # "bump" /\ ~Discarded) => file = {entries}

(* "Persist everything but keep the session resumable" (__init__.py:164):  *)
(* after a suspend the WAL file is the whole buffer, whatever flush was    *)
(* under way in the timer thread.                                          *)
SuspendKeepsBuffer == (main = "ended" /\ closing = "suspend") => file = {entries}

(* Two flushes never cross: outside a snapshot restore, no write takes an  *)
(* entry out of the WAL file that the buffer still holds.                  *)
Held == UNION file
WritesDropNothing ==
  [][(file' # {} /\ plan = {} /\ main # "restoreFlush") =>
        Held \cap entries \subseteq Held']_file

(* The buffer is "persisted via per-session write-ahead logs (30s flush    *)
(* interval, ...)" (README.md:217): an entry of a running session reaches  *)
(* the WAL file unless it is removed or the session ends first, or a flush *)
(* has failed: a timer whose flush raises OSError schedules no other       *)
(* (wal.py:94-96).                                                         *)
EntriesReachDisk ==
  \A e \in Entries :
    (running /\ e \in entries) ~> (~running \/ e \notin entries \/ e \in Held \/ failures > 0)

(* "End the session: persist, then discard the WAL" (__init__.py:178): a   *)
(* session that has ended leaves no WAL file.                              *)
EndDiscardsWal == (main = "ended" /\ closing = "end") => file = {}

=============================================================================
