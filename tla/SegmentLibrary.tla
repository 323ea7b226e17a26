---------------------------- MODULE SegmentLibrary ----------------------------
(***************************************************************************)
(* The Dart side of the background recordings, recording_service.dart, and *)
(* the table of recordings it fills (database_service.dart).               *)
(*                                                                         *)
(* Segments reach the table in two ways. A handler takes a SEGMENT_SAVED   *)
(* broadcast; a scanner reads the manifest and then lists the directory.   *)
(* initialize() is not awaited, the home screen scans on every load and a  *)
(* timer scans every 30 seconds, so several scans run at once. Dart runs   *)
(* one task at a time and switches at every await: a step here is the code *)
(* between two awaits that touch the files or the table. The recorder is   *)
(* the environment, any SegmentSource. Left out: the position, the title   *)
(* and the duration of a recording, its transcription, and directories     *)
(* with more than the 10000 recordings of the orphan scan's query.         *)
(***************************************************************************)
EXTENDS SegmentSource

CONSTANTS
  Scanners,    \* runs of scanAndProcessBackgroundSegments; scanOrphanRecordings
  Handlers,    \* runs of the onSegmentSaved handler
  Deleters,    \* runs of deleteRecording and deleteRecordings
  MaxPending,  \* bound: undelivered broadcasts of a segment
  MaxRows,     \* bound: a handler takes no broadcast when the table has as many rows
  MaxErrors    \* bound: queries, inserts and deletes of the table that fail

ASSUME LibraryAssumption ==
  /\ Scanners \cap Handlers = {}
  /\ (Scanners \cup Handlers) \cap Deleters = {}
  /\ IsFiniteSet(Deleters)
  /\ {MaxPending, MaxRows, MaxErrors} \subseteq Nat

VARIABLES
  app,         \* the activity and its Dart isolate exist
  timer,       \* _backgroundStatusTimer is active
  rows,        \* the table: rows with their file, the task that added them and a number
  pc,
  work,        \* segments a scanner still has to handle
  read,        \* the entries a scanner read
  processed,   \* processedPaths of a scanner
  current,     \* the segment a task handles, as a set of at most one
  chosen,      \* the rows a deleter was asked to delete
  left,        \* those whose file it has not looked at
  errors       \* history: how many failed

Ingesters == Scanners \cup Handlers
Tasks     == Ingesters \cup Deleters

screen   == <<app, timer>>
scan     == <<work, read, processed>>
deletion == <<chosen, left>>
tasks    == <<pc, scan, current, deletion>>
vars     == <<interface, screen, rows, tasks, errors>>

EntryPcs   == {"entries", "lookup", "checkEntry", "insertEntry"}
FilePcs    == {"files", "checkFile", "insertFile"}
SavedPcs   == {"checkSaved", "insertSaved"}
ScannerPcs == EntryPcs \cup FilePcs \cup
              {"idle", "manifest", "discard", "write", "list", "snapshot"}
HandlerPcs == SavedPcs \cup {"idle"}
DeleterPcs == {"idle", "deleteFiles", "deleteRows"}
CheckPcs   == {"checkEntry", "checkFile", "checkSaved"}
InsertPcs  == {"insertEntry", "insertFile", "insertSaved"}

Goto(t, label) == pc' = [pc EXCEPT ![t] = label]

OnDisk(s)     == wav[s] \in {"partial", "complete"}
RowsOf(s)     == {r \in rows : r.segment = s}
RowsBy(t, s)  == {r \in RowsOf(s) : r.by = t}
InDb(s)       == RowsOf(s) # {}

Row       == [segment : Segments, by : Ingesters, number : Nat]
UsedRows  == rows \cup UNION {chosen[t] : t \in Deleters}

\* AUTOINCREMENT: a row that the table has not and no deleter holds. Its number
\* only tells apart the rows of one segment that one task adds.
NewRow(s, t) ==
  [segment |-> s, by |-> t,
   number |-> CHOOSE n \in 0..Cardinality(UsedRows) :
                [segment |-> s, by |-> t, number |-> n] \notin UsedRows]

\* Bound: MaxErrors failures in all.
Fails == errors < MaxErrors /\ errors' = errors + 1

Init ==
  /\ SourceInit
  /\ app = FALSE
  /\ timer = FALSE
  /\ rows = {}
  /\ pc = [t \in Tasks |-> "idle"]
  /\ work = [t \in Scanners |-> {}]
  /\ read = [t \in Scanners |-> {}]
  /\ processed = [t \in Scanners |-> {}]
  /\ current = [t \in Ingesters |-> {}]
  /\ chosen = [t \in Deleters |-> {}]
  /\ left = [t \in Deleters |-> {}]
  /\ errors = 0

-----------------------------------------------------------------------------
(* The application.                                                        *)

AppStarts ==
  /\ ~app
  /\ app' = TRUE
  /\ UNCHANGED <<interface, timer, rows, tasks, errors>>

\* The activity is destroyed, or the process dies: the isolate ends in the
\* middle of every task, and no receiver is registered any more.
AppStops ==
  /\ app
  /\ LoseBroadcasts
  /\ app' = FALSE
  /\ timer' = FALSE
  /\ pc' = [t \in Tasks |-> "idle"]
  /\ work' = [t \in Scanners |-> {}]
  /\ read' = [t \in Scanners |-> {}]
  /\ processed' = [t \in Scanners |-> {}]
  /\ current' = [t \in Ingesters |-> {}]
  /\ chosen' = [t \in Deleters |-> {}]
  /\ left' = [t \in Deleters |-> {}]
  /\ UNCHANGED <<rows, errors>>

\* startBackgroundRecording
StartTimer ==
  /\ app
  /\ timer' = TRUE
  /\ UNCHANGED <<interface, app, rows, tasks, errors>>

\* stopBackgroundRecording
CancelTimer ==
  /\ timer
  /\ timer' = FALSE
  /\ UNCHANGED <<interface, app, rows, tasks, errors>>

\* A broadcast sent while there is no receiver reaches nobody.
Recorder ==
  /\ \/ \E s \in Segments : WriteWav(s) \/ FinishWav(s)
     \/ \E s \in Segments : app /\ broadcasts[s] < MaxPending /\ Announce(s)
     \/ ReplaceManifest
     \/ RemoveOld
  /\ UNCHANGED <<screen, rows, tasks, errors>>

-----------------------------------------------------------------------------
(* scanAndProcessBackgroundSegments, then scanOrphanRecordings.            *)

StartScan(t) ==
  /\ app
  /\ pc[t] = "idle"
  /\ Goto(t, "manifest")
  /\ UNCHANGED <<interface, app, rows, scan, current, deletion, errors>>

\* initialize() and the home screen
HomeScan(t) == StartScan(t) /\ UNCHANGED timer

\* The timer scans, and cancels itself when the service does not run.
TimerScan(t) ==
  /\ timer
  /\ StartScan(t)
  /\ timer' \in BOOLEAN

\* Mutant: without a manifest the orphan scan is skipped too.
ReadOrReturn(t) ==
  /\ pc[t] = "manifest"
  /\ Goto(t, CASE manifest = NoFile -> "idle"
               [] manifest = Torn   -> "discard"
               [] OTHER             -> "entries")
  /\ read' = [read EXCEPT ![t] = Entries(manifest)]
  /\ work' = [work EXCEPT ![t] = Entries(manifest)]
  /\ UNCHANGED <<interface, screen, rows, processed, current, deletion, errors>>

ReadManifest(t) ==
  /\ pc[t] = "manifest"
  /\ Goto(t, CASE manifest = NoFile -> "list"
               [] manifest = Torn   -> "discard"
               [] OTHER             -> "entries")
  /\ read' = [read EXCEPT ![t] = Entries(manifest)]
  /\ work' = [work EXCEPT ![t] = Entries(manifest)]
  /\ UNCHANGED <<interface, screen, rows, processed, current, deletion, errors>>

\* The manifest that did not parse is deleted, or the one that replaced it.
DiscardManifest(t) ==
  /\ pc[t] = "discard"
  /\ manifest' = NoFile
  /\ Goto(t, "list")
  /\ UNCHANGED <<wav, broadcasts, screen, rows, scan, current, deletion, errors>>

\* An entry whose file is gone is skipped, and stays in the manifest.
NextEntry(t) ==
  /\ pc[t] = "entries"
  /\ \E s \in work[t] :
       /\ work' = [work EXCEPT ![t] = @ \ {s}]
       /\ IF OnDisk(s) THEN current' = [current EXCEPT ![t] = {s}] /\ Goto(t, "lookup")
                       ELSE UNCHANGED <<pc, current>>
  /\ UNCHANGED <<interface, screen, rows, read, processed, deletion, errors>>

\* The end of an entry: it counts as processed, whatever became of it.
EntryDone(t) ==
  /\ processed' = [processed EXCEPT ![t] = @ \cup current[t]]
  /\ current' = [current EXCEPT ![t] = {}]
  /\ Goto(t, "entries")

\* Mutant: the table is not asked.
LookupNothing(t) ==
  /\ pc[t] = "lookup"
  /\ Goto(t, "checkEntry")
  /\ UNCHANGED <<interface, screen, rows, scan, current, deletion, errors>>

\* getRecordingByFilePath; a query that fails counts as not found.
LookupEntry(t) ==
  /\ pc[t] = "lookup"
  /\ \/ /\ \A s \in current[t] : InDb(s)
        /\ EntryDone(t)
        /\ UNCHANGED errors
     \/ /\ \/ UNCHANGED errors /\ \E s \in current[t] : ~InDb(s)
           \/ Fails
        /\ Goto(t, "checkEntry")
        /\ UNCHANGED <<processed, current>>
  /\ UNCHANGED <<interface, screen, rows, work, read, deletion>>

\* The manifest is deleted when every entry was processed, and rewritten
\* otherwise: opening it for that truncates it.
RewriteManifest(t) ==
  /\ pc[t] = "entries"
  /\ work[t] = {}
  /\ IF read[t] \subseteq processed[t]
       THEN manifest' = NoFile /\ Goto(t, "list")
       ELSE manifest' = Torn /\ Goto(t, "write")
  /\ UNCHANGED <<wav, broadcasts, screen, rows, scan, current, deletion, errors>>

\* The remaining entries are written, into a file that the recorder may have
\* replaced or removed and that another scan may be writing.
WriteManifest(t) ==
  /\ pc[t] = "write"
  /\ manifest' \in {manifest} \cup
                   IF manifest = NoFile THEN {} ELSE {Torn, read[t] \ processed[t]}
  /\ Goto(t, "list")
  /\ UNCHANGED <<wav, broadcasts, screen, rows, scan, current, deletion, errors>>

\* scanOrphanRecordings begins; the locals of the first scan are gone.
ListFiles(t) ==
  /\ pc[t] = "list"
  /\ read' = [read EXCEPT ![t] = {}]
  /\ processed' = [processed EXCEPT ![t] = {}]
  /\ LET files == {s \in Segments : OnDisk(s)} IN
       /\ work' = [work EXCEPT ![t] = files]
       /\ Goto(t, IF files = {} THEN "idle" ELSE "snapshot")
  /\ UNCHANGED <<interface, screen, rows, current, deletion, errors>>

\* Files whose path the table had when it was asked are no orphans; a query
\* that fails returns no path at all.
SnapshotDb(t) ==
  /\ pc[t] = "snapshot"
  /\ \/ work' = [work EXCEPT ![t] = {s \in @ : ~InDb(s)}] /\ UNCHANGED errors
     \/ Fails /\ UNCHANGED work
  /\ Goto(t, "files")
  /\ UNCHANGED <<interface, screen, rows, read, processed, current, deletion>>

\* file.length() of a file that is gone throws, and ends the scan.
NextFile(t) ==
  /\ pc[t] = "files"
  /\ \E s \in work[t] :
       IF OnDisk(s) THEN /\ work' = [work EXCEPT ![t] = @ \ {s}]
                         /\ current' = [current EXCEPT ![t] = {s}]
                         /\ Goto(t, "checkFile")
                    ELSE /\ work' = [work EXCEPT ![t] = {}]
                         /\ Goto(t, "idle")
                         /\ UNCHANGED current
  /\ UNCHANGED <<interface, screen, rows, read, processed, deletion, errors>>

FileDone(t) ==
  /\ current' = [current EXCEPT ![t] = {}]
  /\ Goto(t, "files")
  /\ UNCHANGED processed

ScanEnds(t) ==
  /\ pc[t] = "files"
  /\ work[t] = {}
  /\ Goto(t, "idle")
  /\ UNCHANGED <<interface, screen, rows, scan, current, deletion, errors>>

-----------------------------------------------------------------------------
(* onSegmentSaved.                                                         *)

OnSegmentSaved(t) ==
  /\ app
  /\ pc[t] = "idle"
  /\ Cardinality(rows) < MaxRows
  /\ \E s \in Segments :
       /\ broadcasts[s] > 0
       /\ broadcasts' = [broadcasts EXCEPT ![s] = @ - 1]
       /\ current' = [current EXCEPT ![t] = {s}]
  /\ Goto(t, "checkSaved")
  /\ UNCHANGED <<wav, manifest, screen, rows, scan, deletion, errors>>

SavedDone(t) ==
  /\ current' = [current EXCEPT ![t] = {}]
  /\ Goto(t, "idle")
  /\ UNCHANGED processed

-----------------------------------------------------------------------------
(* _processSegment, called from three places.                              *)

\* Control returns to the caller.
Done(t) ==
  \/ pc[t] \in EntryPcs /\ EntryDone(t)
  \/ pc[t] \in FilePcs /\ FileDone(t)
  \/ pc[t] \in SavedPcs /\ SavedDone(t)

\* The file must be there and have 1 KB, which a complete one has and one that
\* is being written may have. The table is not asked.
CheckFile(t) ==
  /\ pc[t] \in CheckPcs
  /\ \/ /\ \A s \in current[t] : OnDisk(s)
        /\ Goto(t, CASE pc[t] = "checkEntry" -> "insertEntry"
                     [] pc[t] = "checkFile"  -> "insertFile"
                     [] pc[t] = "checkSaved" -> "insertSaved")
        /\ UNCHANGED <<current, processed>>
     \/ /\ \E s \in current[t] : wav[s] # "complete"
        /\ Done(t)
  /\ UNCHANGED <<interface, screen, rows, work, read, deletion, errors>>

\* insertRecording, after up to five seconds of waiting for the position.
InsertRow(t) ==
  /\ pc[t] \in InsertPcs
  /\ \/ /\ rows' = rows \cup {NewRow(s, t) : s \in current[t]}
        /\ UNCHANGED errors
     \/ Fails /\ UNCHANGED rows
  /\ Done(t)
  /\ UNCHANGED <<interface, screen, work, read, deletion>>

-----------------------------------------------------------------------------
(* Deletion.                                                               *)

\* Mutant: the list deletes rows only, as the detail screen does.
BeginDeleteRows(t) ==
  /\ app
  /\ pc[t] = "idle"
  /\ \E some \in (SUBSET rows) \ {{}} : chosen' = [chosen EXCEPT ![t] = some]
  /\ Goto(t, "deleteRows")
  /\ UNCHANGED <<interface, screen, rows, scan, current, left, errors>>

\* The recording list: deleteRecording for one row, deleteRecordings for several.
BeginDelete(t) ==
  /\ app
  /\ pc[t] = "idle"
  /\ \E some \in (SUBSET rows) \ {{}} :
       /\ chosen' = [chosen EXCEPT ![t] = some]
       /\ left' = [left EXCEPT ![t] = some]
  /\ Goto(t, "deleteFiles")
  /\ UNCHANGED <<interface, screen, rows, scan, current, errors>>

DeletionEnds(t) ==
  /\ chosen' = [chosen EXCEPT ![t] = {}]
  /\ left' = [left EXCEPT ![t] = {}]
  /\ Goto(t, "idle")

\* The file is deleted if the row and the file are still there.
DeleteFile(t) ==
  /\ pc[t] = "deleteFiles"
  /\ \E r \in left[t] :
       /\ left' = [left EXCEPT ![t] = @ \ {r}]
       /\ wav' = IF r \in rows /\ OnDisk(r.segment) THEN [wav EXCEPT ![r.segment] = "gone"]
                                                    ELSE wav
       /\ Goto(t, IF left[t] = {r} THEN "deleteRows" ELSE "deleteFiles")
  /\ UNCHANGED <<manifest, broadcasts, screen, rows, scan, current, chosen, errors>>

DeleteRows(t) ==
  /\ pc[t] = "deleteRows"
  /\ rows' = rows \ chosen[t]
  /\ DeletionEnds(t)
  /\ UNCHANGED <<interface, screen, scan, current, errors>>

\* A query or the delete throws: what has not been deleted stays.
DeletionFails(t) ==
  /\ pc[t] \in {"deleteFiles", "deleteRows"}
  /\ Fails
  /\ DeletionEnds(t)
  /\ UNCHANGED <<interface, screen, rows, scan, current>>

\* The detail screen and the agent delete the row, and only the row.
DeleteRowOnly(r) ==
  /\ app
  /\ rows' = rows \ {r}
  /\ UNCHANGED <<interface, screen, tasks, errors>>

-----------------------------------------------------------------------------
ScanStep(t) ==
  \/ ReadManifest(t) \/ DiscardManifest(t) \/ NextEntry(t) \/ LookupEntry(t)
  \/ RewriteManifest(t) \/ WriteManifest(t) \/ ListFiles(t) \/ SnapshotDb(t)
  \/ NextFile(t) \/ ScanEnds(t)

ProcessSegment(t) == CheckFile(t) \/ InsertRow(t)

DeleteStep(t) == DeleteFile(t) \/ DeleteRows(t) \/ DeletionFails(t)

Next ==
  \/ AppStarts \/ AppStops \/ StartTimer \/ CancelTimer
  \/ Recorder
  \/ \E t \in Scanners : HomeScan(t) \/ TimerScan(t) \/ ScanStep(t) \/ ProcessSegment(t)
  \/ \E t \in Handlers : OnSegmentSaved(t) \/ ProcessSegment(t)
  \/ \E t \in Deleters : BeginDelete(t) \/ DeleteStep(t)
  \/ \E r \in rows : DeleteRowOnly(r)

Spec == Init /\ [][Next]_vars

\* The isolate runs every task that can run, and an active timer fires. Nothing
\* makes the user open the home screen, or the recorder do anything.
Fairness ==
  /\ \A t \in Scanners : WF_vars(ScanStep(t) \/ ProcessSegment(t)) /\ WF_vars(TimerScan(t))
  /\ \A t \in Handlers : WF_vars(ProcessSegment(t))
  /\ \A t \in Deleters : WF_vars(DeleteStep(t))

FairSpec == Spec /\ Fairness

-----------------------------------------------------------------------------
(* Properties.                                                             *)

\* Every variable has its type, and a task holds what its step needs: a segment
\* exactly while it handles one, rows to delete exactly while it deletes.
TypeOK ==
  /\ InterfaceTypeOK
  /\ app \in BOOLEAN /\ timer \in BOOLEAN /\ (timer => app)
  /\ rows \subseteq Row
  /\ pc \in [Tasks -> ScannerPcs \cup HandlerPcs \cup DeleterPcs]
  /\ \A t \in Scanners : pc[t] \in ScannerPcs
  /\ \A t \in Handlers : pc[t] \in HandlerPcs
  /\ \A t \in Deleters : pc[t] \in DeleterPcs
  /\ {work, read, processed} \subseteq [Scanners -> SUBSET Segments]
  /\ current \in [Ingesters -> SUBSET Segments]
  /\ \A t \in Ingesters :
       IF pc[t] \in {"lookup"} \cup CheckPcs \cup InsertPcs
         THEN \E s \in Segments : current[t] = {s}
         ELSE current[t] = {}
  /\ {chosen, left} \subseteq [Deleters -> SUBSET Row]
  /\ \A t \in Deleters : /\ left[t] \subseteq chosen[t]
                         /\ left[t] # {} <=> pc[t] = "deleteFiles"
                         /\ chosen[t] # {} <=> pc[t] # "idle"
  /\ errors \in 0..MaxErrors

\* However the scans overlap the handlers, the deletions and each other, a
\* task that scans again does not add a second row for a file that still has
\* the first one, unless a query failed: the scans ask the table, so each row
\* too many belongs to another scan, to a broadcast or to a failure.
AtMostOneRowPerScanner ==
  \A t \in Scanners, s \in Segments :
    Cardinality(RowsBy(t, s)) <= 1 + errors

\* Deletion in the recording list does not leave a file without its row, which
\* the next orphan scan would bring back: whatever happens between the steps of
\* deleteRecordings, a row goes only when its file is no longer there.
ListDeletionRemovesFile ==
  [][\A t \in Deleters, r \in rows :
       pc[t] = "deleteRows" /\ pc'[t] = "idle" /\ app' /\ r \notin rows'
         => ~OnDisk(r.segment)]_vars

\* While the background recording's timer stays active, a complete segment is
\* in the table again and again, whatever the manifest loses and the broadcasts
\* miss: the orphan scan finds it (recording_service.dart:690).
EventuallyInLibrary ==
  \A s \in Segments :
    <>[](wav[s] = "complete" /\ app /\ timer) => []<>InDb(s)

-----------------------------------------------------------------------------
(* The inductive invariants behind the safety properties.                  *)

\* The table is finite, and so is what a deletion was asked to delete.
Finite ==
  /\ IsFiniteSet(rows)
  /\ \A t \in Deleters : IsFiniteSet(chosen[t])

\* Segments that a scanner may add without asking the table again.
MayAdd(t) ==
  {s \in current[t] : pc[t] \in {"checkEntry", "insertEntry", "checkFile", "insertFile"}}
    \cup {s \in work[t] : pc[t] \in FilePcs}

\* A scanner that may add a segment has no row of it, failures aside: nobody
\* else adds rows in its name since it asked.
LookedUp ==
  \A t \in Scanners : \A s \in MayAdd(t) : Cardinality(RowsBy(t, s)) <= errors

\* The orphan scan takes each file once.
TakenOnce ==
  \A t \in Scanners : pc[t] \in FilePcs => current[t] \cap work[t] = {}

ScansInv == TypeOK /\ Finite /\ LookedUp /\ TakenOnce /\ AtMostOneRowPerScanner

\* Rows are about files that were created.
RowsOfCreated ==
  /\ \A r \in rows : r.segment \in Created
  /\ \A t \in Ingesters : pc[t] \in InsertPcs => current[t] \subseteq Created

\* What a deletion has looked at is gone, and no file comes back.
LookedAt ==
  \A t \in Deleters : \A r \in rows \cap (chosen[t] \ left[t]) : wav[r.segment] = "gone"

DeletionInv == TypeOK /\ Finite /\ RowsOfCreated /\ LookedAt

=============================================================================
