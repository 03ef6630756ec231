-------------------------- MODULE SessionWalProofs --------------------------
(***************************************************************************)
(* Theorems about SessionWal for any set of entries, any number of buffer  *)
(* mutations and any number of failed flushes.                             *)
(***************************************************************************)
EXTENDS SessionWal, FiniteSetTheorems, TLAPS

(* The types a proof needs; TypeOK also bounds the number of WAL files.    *)
Types ==
  /\ entries \in SUBSET Entries /\ version \in Nat /\ flushed \in Nat \cup {NoVersion}
  /\ flush \in [Threads -> [at : {"out", "read", "copied", "written"}, version : Nat,
                            data : SUBSET Entries]]
  /\ file \in SUBSET SUBSET Entries
  /\ logged \in SUBSET Entries /\ plan \in SUBSET SUBSET Entries

(* FlushedIsSaved is not inductive: it says nothing of a flush under way.  *)
(* While a thread flushes, the version it read is not ahead of the buffer, *)
(* its copy is the buffer if that version is still current, and what it    *)
(* wrote is what it copied.                                                *)
OneFlusher == \A t \in Threads : flush[t].at # "out" => lock = t
NotAhead ==
  /\ flushed # NoVersion => flushed <= version
  /\ \A t \in Threads : flush[t].at # "out" => flush[t].version <= version
CopyIsCurrent ==
  \A t \in Threads :
    flush[t].at \in {"copied", "written"} /\ flush[t].version = version /\ main # "bump"
      => flush[t].data = entries
WroteCopy == \A t \in Threads : flush[t].at = "written" /\ ~Discarded => file = {flush[t].data}
NoneWritten == \A t \in Threads : flush[t].at # "written"
SavedIfFlushed ==
  NoneWritten /\ flushed = version /\ main # "bump" /\ ~Discarded => file = {entries}

(* After the flush of stop() the buffer is saved and no flush can begin.   *)
StopFlushed ==
  (main = "clear" \/ (main = "ended" /\ closing = "suspend")) =>
     flushed = version /\ \A t \in Threads : flush[t].at = "out"

(* The main thread stays in its call while it flushes, so the version it   *)
(* read is current; without a process nothing was flushed and no timer is  *)
(* there; only end_session gets to clear_wal.                              *)
MainWaits ==
  /\ flush["main"].at # "out" =>
       main \in {"restoreFlush", "stopFlush"} /\ flush["main"].version = version
  /\ main = "down" => /\ flushed = NoVersion /\ timer = "none"
                      /\ \A t \in Threads : flush[t].at = "out"
  /\ main \in {"clear", "forget"} => closing = "end"

WalInv == /\ Types /\ OneFlusher /\ NotAhead /\ CopyIsCurrent /\ WroteCopy
          /\ SavedIfFlushed /\ StopFlushed /\ MainWaits

(* The invariant at the start.                                             *)
LEMMA WalInit == Init => WalInv
BY Sentinels DEF Init, WalInv, Types, OneFlusher, NotAhead, CopyIsCurrent, WroteCopy, NoneWritten,
                 SavedIfFlushed, StopFlushed, MainWaits, Discarded, NoFlush, Threads

(* What it gives.                                                          *)
LEMMA WalInvImplies == WalInv => FlushedIsSaved /\ SuspendKeepsBuffer
<1> SUFFICES ASSUME WalInv PROVE FlushedIsSaved /\ SuspendKeepsBuffer
  OBVIOUS
<1>1. ASSUME lock = Free
      PROVE  NoneWritten
  BY <1>1, Sentinels DEF WalInv, OneFlusher, NoneWritten, Threads
<1>2. FlushedIsSaved
  BY <1>1 DEF WalInv, SavedIfFlushed, FlushedIsSaved
<1>3. SuspendKeepsBuffer
  BY DEF WalInv, StopFlushed, SavedIfFlushed, NoneWritten, SuspendKeepsBuffer, Discarded
<1> QED BY <1>2, <1>3

(* Recovery numbers the entries it adds: the version is a natural number.  *)
LEMMA RecoveredIsFinite ==
  ASSUME Types PROVE UNION file \in SUBSET Entries /\ Cardinality(UNION file) \in Nat
<1>1. UNION file \in SUBSET Entries
  BY DEF Types
<1>2. IsFiniteSet(UNION file)
  BY <1>1, FiniteEntries, FS_Subset
<1> QED BY <1>1, <1>2, FS_CardinalityType

(* No step of a flush or of anything that runs beside it breaks WalInv.    *)
LEMMA WalStep == WalInv /\ [Next]_vars => WalInv'
<1> SUFFICES ASSUME WalInv, [Next]_vars PROVE WalInv'
  OBVIOUS
<1> USE Sentinels DEF WalInv, Types, OneFlusher, NotAhead, CopyIsCurrent, WroteCopy, NoneWritten,
                      SavedIfFlushed, StopFlushed, MainWaits, Discarded, Threads, flushVars,
                      bufferVars
<1>1. CASE Start
  BY <1>1, RecoveredIsFinite DEF Start
<1>2. ASSUME NEW e \in Entries, Remember(e) PROVE WalInv'
  BY <1>2 DEF Remember
<1>3. ASSUME NEW e \in Entries, Forget(e) PROVE WalInv'
  BY <1>3 DEF Forget
<1>4. CASE Bump
  BY <1>4 DEF Bump
<1>5. ASSUME NEW snapshot \in SUBSET logged, Restore(snapshot) PROVE WalInv'
  <2>1. plan' \in SUBSET SUBSET Entries
    <3>1. snapshot \in SUBSET Entries
      OBVIOUS
    <3> QED BY ONLY <1>5, <3>1 DEF Restore
  <2>2. main' \in {"restore", "bump"} /\ main = "idle" /\ entries' = {}
    BY <1>5 DEF Restore
  <2>3. main' = "restore" => entries' = entries
    BY <1>5 DEF Restore
  <2>4. Types'
    BY <1>5, <2>1, <2>2 DEF Restore
  <2>5. SavedIfFlushed'
    BY <1>5, <2>2, <2>3 DEF Restore
  <2>6. CopyIsCurrent'
    BY <1>5, <2>2, <2>3 DEF Restore
  <2> QED BY <1>5, <2>2, <2>4, <2>5, <2>6 DEF Restore
<1>6. CASE RestoreAdd
  <2>1. PICK e \in UNION plan : entries' = entries \cup {e} /\ plan' = {(UNION plan) \ {e}}
    BY <1>6 DEF RestoreAdd
  <2>2. Types'
    <3>1. e \in Entries /\ UNION plan \subseteq Entries
      BY <2>1
    <3>2. entries' \in SUBSET Entries /\ plan' \in SUBSET SUBSET Entries
      BY <2>1, <3>1
    <3> QED BY <1>6, <3>2 DEF RestoreAdd
  <2> QED BY <1>6, <2>2 DEF RestoreAdd
<1>7. CASE RestoreDone
  BY <1>7 DEF RestoreDone
<1>8. ASSUME NEW t \in Threads, FlushSkips(t) PROVE WalInv'
  BY <1>8 DEF FlushSkips, CallsFlush, Return, Unchanged, Forced
<1>9. ASSUME NEW t \in Threads, FlushReads(t) PROVE WalInv'
  BY <1>9 DEF FlushReads, CallsFlush, TakesLock, Unchanged, Forced
<1>10. ASSUME NEW t \in Threads, FlushCopies(t) PROVE WalInv'
  BY <1>10 DEF FlushCopies
<1>11. ASSUME NEW t \in Threads, FlushWrites(t) PROVE WalInv'
  BY <1>11 DEF FlushWrites, ReplacesFile
<1>12. ASSUME NEW t \in Threads, FlushEnds(t) PROVE WalInv'
  BY <1>12 DEF FlushEnds, Records, Return, Forced, NoFlush
<1>13. ASSUME NEW t \in Threads, FlushFails(t) PROVE WalInv'
  BY <1>13 DEF FlushFails, Forced, NoFlush
<1>14. CASE Timer
  BY <1>14 DEF Timer, Fires, Reschedules, Stores, Starts, TimerStep
<1>15. ASSUME NEW how \in {"suspend", "end"}, Close(how) PROVE WalInv'
  BY <1>15 DEF Close
<1>16. CASE Cancel
  BY <1>16 DEF Cancel
<1>17. CASE ClearFile
  BY <1>17 DEF ClearFile
<1>18. CASE ClearVersion
  BY <1>18 DEF ClearVersion
<1>19. CASE Dies
  BY <1>19 DEF Dies, Down, NoFlush
<1>20. CASE UNCHANGED vars
  BY <1>20 DEF vars
<1> QED BY ONLY <1>1, <1>2, <1>3, <1>4, <1>5, <1>6, <1>7, <1>8, <1>9, <1>10, <1>11, <1>12, <1>13,
           <1>14, <1>15, <1>16, <1>17, <1>18, <1>19, <1>20, [Next]_vars DEF Next, Main, Flush

(* Nothing is lost by a skipped flush (FlushedIsSaved), for any number of  *)
(* entries, buffer changes, failed flushes, suspends and crashes.          *)
THEOREM SkippedFlushLosesNothing == Spec => []FlushedIsSaved
<1>1. Spec => []WalInv
  BY WalInit, WalStep, PTL DEF Spec
<1> QED BY <1>1, WalInvImplies, PTL

(* A suspended session is resumable with its whole buffer                  *)
(* (SuspendKeepsBuffer), whatever the timer thread was doing.              *)
THEOREM SuspendIsComplete == Spec => []SuspendKeepsBuffer
<1>1. Spec => []WalInv
  BY WalInit, WalStep, PTL DEF Spec
<1> QED BY <1>1, WalInvImplies, PTL


-----------------------------------------------------------------------------
(* The whole type invariant needs no more than itself.                     *)
LEMMA TypeStep == TypeOK /\ [Next]_vars => TypeOK'
<1> SUFFICES ASSUME TypeOK, [Next]_vars PROVE TypeOK'
  OBVIOUS
<1> USE DEF TypeOK, Threads, flushVars, bufferVars
<1>1. CASE Start
  <2>1. Types
    BY DEF Types
  <2> QED BY <1>1, <2>1, RecoveredIsFinite DEF Start
<1>2. ASSUME NEW e \in Entries, Remember(e) \/ Forget(e) PROVE TypeOK'
  BY <1>2 DEF Remember, Forget
<1>3. CASE Bump
  BY <1>3 DEF Bump
<1>4. ASSUME NEW snapshot \in SUBSET logged, Restore(snapshot) PROVE TypeOK'
  <2>1. plan' \in SUBSET SUBSET Entries
    <3>1. snapshot \in SUBSET Entries
      OBVIOUS
    <3> QED BY ONLY <1>4, <3>1 DEF Restore
  <2>2. main' \in {"restore", "bump"} /\ entries' = {}
    BY <1>4 DEF Restore
  <2> QED BY <1>4, <2>1, <2>2 DEF Restore
<1>5. CASE RestoreAdd
  <2>1. PICK e \in UNION plan : entries' = entries \cup {e} /\ plan' = {(UNION plan) \ {e}}
    BY <1>5 DEF RestoreAdd
  <2>2. e \in Entries /\ UNION plan \subseteq Entries
    BY <2>1
  <2>3. entries' \in SUBSET Entries /\ plan' \in SUBSET SUBSET Entries
    BY <2>1, <2>2
  <2> QED BY <1>5, <2>3 DEF RestoreAdd
<1>6. CASE RestoreDone
  BY <1>6 DEF RestoreDone
<1>7. ASSUME NEW t \in Threads, FlushSkips(t) PROVE TypeOK'
  BY <1>7 DEF FlushSkips, Return, Forced
<1>8. ASSUME NEW t \in Threads, FlushReads(t) PROVE TypeOK'
  BY <1>8 DEF FlushReads
<1>9. ASSUME NEW t \in Threads, FlushCopies(t) PROVE TypeOK'
  <2> DEFINE r == [flush[t] EXCEPT !.at = "copied", !.data = entries]
  <2>1. r \in [at : {"out", "read", "copied", "written"}, version : Nat, data : SUBSET Entries]
    <3>1. /\ flush[t] \in [at : {"out", "read", "copied", "written"}, version : Nat,
                            data : SUBSET Entries]
          /\ entries \in SUBSET Entries
      OBVIOUS
    <3> QED BY ONLY <3>1
  <2>2. flush' = [flush EXCEPT ![t] = r]
    BY <1>9 DEF FlushCopies
  <2> HIDE DEF r
  <2> QED BY <1>9, <2>1, <2>2 DEF FlushCopies
<1>10. ASSUME NEW t \in Threads, FlushWrites(t) PROVE TypeOK'
  <2>1. file' \in SUBSET SUBSET Entries /\ Cardinality(file') <= 1
    <3>1. file' = {flush[t].data} /\ flush[t].data \in SUBSET Entries
      BY <1>10 DEF FlushWrites, ReplacesFile
    <3>2. Cardinality({flush[t].data}) = 1
      BY FS_Singleton
    <3> QED BY <3>1, <3>2
  <2> QED BY <1>10, <2>1 DEF FlushWrites
<1>11. ASSUME NEW t \in Threads, FlushEnds(t) PROVE TypeOK'
  BY <1>11 DEF FlushEnds, Records, Return, Forced, NoFlush
<1>12. ASSUME NEW t \in Threads, FlushFails(t) PROVE TypeOK'
  BY <1>12, Bounds DEF FlushFails, Forced, NoFlush
<1>13. CASE Timer
  BY <1>13 DEF Timer, Fires, Reschedules, Stores, Starts, TimerStep
<1>14. ASSUME NEW how \in {"suspend", "end"}, Close(how) PROVE TypeOK'
  BY <1>14 DEF Close
<1>15. CASE Cancel
  BY <1>15 DEF Cancel
<1>16. CASE ClearFile \/ ClearVersion
  <2>1. file' = {} \/ file' = file
    BY <1>16 DEF ClearFile, ClearVersion
  <2>2. file' \in SUBSET SUBSET Entries /\ Cardinality(file') <= 1
    <3>1. CASE file' = {}
      BY <3>1, FS_EmptySet
    <3> QED BY <2>1, <3>1
  <2> QED BY <1>16, <2>2 DEF ClearFile, ClearVersion
<1>17. CASE Dies
  BY <1>17 DEF Dies, Down, NoFlush
<1>18. CASE UNCHANGED vars
  BY <1>18 DEF vars
<1> QED BY ONLY <1>1, <1>2, <1>3, <1>4, <1>5, <1>6, <1>7, <1>8, <1>9, <1>10, <1>11, <1>12, <1>13,
           <1>14, <1>15, <1>16, <1>17, <1>18, [Next]_vars DEF Next, Main, Flush

(* Every variable keeps its shape; in particular there is never a second   *)
(* WAL file (TypeOK).                                                      *)
THEOREM ThreadsKeepTheirShape == Spec => []TypeOK
<1>1. Init => TypeOK
  <2> SUFFICES ASSUME Init PROVE TypeOK
    OBVIOUS
  <2>1. file \in SUBSET SUBSET Entries /\ Cardinality(file) <= 1
    <3>1. file = {}
      BY DEF Init
    <3> QED BY <3>1, FS_EmptySet
  <2>2. /\ logged \in SUBSET Entries /\ entries \in SUBSET Entries
        /\ version \in Nat /\ flushed \in Nat \cup {NoVersion}
        /\ running \in BOOLEAN /\ lock \in Threads \cup {Free}
        /\ main = "down" /\ timer = "none" /\ plan \in SUBSET SUBSET Entries
        /\ closing = "suspend"
    BY DEF Init
  <2>3. flush \in [Threads -> [at : {"out", "read", "copied", "written"}, version : Nat,
                              data : SUBSET Entries]]
    BY DEF Init, NoFlush
  <2>4. failures \in 0 .. MaxFailures
    BY Bounds DEF Init
  <2> QED BY <2>1, <2>2, <2>3, <2>4 DEF TypeOK
<1> QED BY <1>1, TypeStep, PTL DEF Spec

-----------------------------------------------------------------------------
(* What is written drops nothing.  A copy of the buffer may be written     *)
(* long after it was made; meanwhile only entries of new messages came in, *)
(* which no file holds, unless a snapshot is being restored.  Everything   *)
(* that was ever in the buffer or in the file comes from a logged message. *)
AllLogged ==
  /\ entries \subseteq logged /\ UNION file \subseteq logged /\ UNION plan \subseteq logged
  /\ \A t \in Threads : flush[t].data \subseteq logged
CopyCovers ==
  plan = {} /\ main # "restoreFlush" =>
    \A t \in Threads :
      flush[t].at \in {"copied", "written"} => (UNION file) \cap entries \subseteq flush[t].data
CoverInv == AllLogged /\ CopyCovers

(* Every step keeps it.                                                    *)
LEMMA CoverStep == WalInv /\ CoverInv /\ [Next]_vars => CoverInv'
<1> SUFFICES ASSUME WalInv, CoverInv, [Next]_vars PROVE CoverInv'
  OBVIOUS
<1> DEFINE held == UNION file
<1>a. Types /\ OneFlusher /\ MainWaits
  BY DEF WalInv
<1> USE <1>a DEF CoverInv, AllLogged, CopyCovers, Threads, flushVars, bufferVars
<1>1. CASE Start
  BY <1>1 DEF Start, MainWaits
<1>2. ASSUME NEW e \in Entries, Remember(e) PROVE CoverInv'
  BY <1>2 DEF Remember
<1>3. ASSUME NEW e \in Entries, Forget(e) PROVE CoverInv'
  BY <1>3 DEF Forget
<1>4. CASE Bump
  BY <1>4 DEF Bump
<1>5. ASSUME NEW snapshot \in SUBSET logged, Restore(snapshot) PROVE CoverInv'
  BY <1>5 DEF Restore
<1>6. CASE RestoreAdd
  BY <1>6 DEF RestoreAdd
<1>7. CASE RestoreDone
  BY <1>7 DEF RestoreDone
<1>8. ASSUME NEW t \in Threads, FlushSkips(t) PROVE CoverInv'
  <2>1. main = "restoreFlush" => main' = main
    BY <1>8 DEF FlushSkips, Return, Unchanged, Forced
  <2> QED BY <1>8, <2>1 DEF FlushSkips
<1>9. ASSUME NEW t \in Threads, FlushReads(t) PROVE CoverInv'
  BY <1>9 DEF FlushReads, Types
<1>10. ASSUME NEW t \in Threads, FlushCopies(t) PROVE CoverInv'
  BY <1>10 DEF FlushCopies, Types
<1>11. ASSUME NEW t \in Threads, FlushWrites(t) PROVE CoverInv'
  BY <1>11, Sentinels DEF FlushWrites, ReplacesFile, Types, OneFlusher
<1>12. ASSUME NEW t \in Threads, FlushEnds(t) PROVE CoverInv'
  BY <1>12, Sentinels DEF FlushEnds, Return, Forced, NoFlush, Types, OneFlusher
<1>13. ASSUME NEW t \in Threads, FlushFails(t) PROVE CoverInv'
  BY <1>13, Sentinels DEF FlushFails, Forced, NoFlush, Types, OneFlusher
<1>14. CASE Timer
  BY <1>14 DEF Timer, Fires, Reschedules, Stores, Starts, TimerStep
<1>15. ASSUME NEW how \in {"suspend", "end"}, Close(how) PROVE CoverInv'
  BY <1>15 DEF Close
<1>16. CASE Cancel
  BY <1>16 DEF Cancel
<1>17. CASE ClearFile \/ ClearVersion
  BY <1>17 DEF ClearFile, ClearVersion
<1>18. CASE Dies
  BY <1>18 DEF Dies, Down, NoFlush
<1>19. CASE UNCHANGED vars
  BY <1>19 DEF vars
<1> QED BY ONLY <1>1, <1>2, <1>3, <1>4, <1>5, <1>6, <1>7, <1>8, <1>9, <1>10, <1>11, <1>12, <1>13,
           <1>14, <1>15, <1>16, <1>17, <1>18, <1>19, [Next]_vars DEF Next, Main, Flush

(* Only a flush and clear_wal change the file.                             *)
LEMMA WhoWrites ==
  ASSUME WalInv, [Next]_vars
  PROVE  file' = file \/ file' = {} \/ \E t \in Threads : FlushWrites(t)
BY DEF Next, Main, Timer, Flush, Start, Remember, Forget, Bump, Restore, RestoreAdd, RestoreDone,
       FlushSkips, FlushReads, FlushCopies, FlushEnds, FlushFails, Fires, Reschedules, Stores,
       Starts, TimerStep, Close, Cancel, ClearFile, ClearVersion, Dies, vars, flushVars

(* Two flushes never cross: outside a restore, no write takes an entry out *)
(* of the WAL file that the buffer still holds (WritesDropNothing).        *)
THEOREM FlushesNeverCross == Spec => WritesDropNothing
<1>1. Init => CoverInv
  BY DEF Init, CoverInv, AllLogged, CopyCovers, NoFlush, Threads
<1>2. WalInv /\ CoverInv /\ [Next]_vars =>
        [(file' # {} /\ plan = {} /\ main # "restoreFlush") => Held \cap entries \subseteq Held']_file
  <2> SUFFICES ASSUME WalInv, CoverInv, [Next]_vars, file' # file, file' # {}, plan = {},
                      main # "restoreFlush"
               PROVE  Held \cap entries \subseteq Held'
    OBVIOUS
  <2>1. PICK t \in Threads : FlushWrites(t)
    BY WhoWrites
  <2>2. file' = {flush[t].data} /\ flush[t].at = "copied"
    BY <2>1 DEF FlushWrites, ReplacesFile
  <2>3. (UNION file) \cap entries \subseteq flush[t].data
    BY <2>2 DEF CoverInv, CopyCovers
  <2> QED BY <2>2, <2>3 DEF Held
<1>3. Spec => []WalInv
  BY WalInit, WalStep, PTL DEF Spec
<1> QED BY <1>1, <1>2, <1>3, CoverStep, PTL DEF Spec, WritesDropNothing

=============================================================================
