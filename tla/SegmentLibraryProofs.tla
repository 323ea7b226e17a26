------------------------- MODULE SegmentLibraryProofs -------------------------
(***************************************************************************)
(* Theorems about SegmentLibrary, for any number of segments, scans,       *)
(* handlers and deletions, and any number of failures.                     *)
(***************************************************************************)
EXTENDS SegmentLibrary, FiniteSetTheorems, TLAPS

-----------------------------------------------------------------------------
(* New rows.                                                               *)

\* What is in the table or held by a deletion is a finite set.
LEMMA UsedRowsFinite ==
  ASSUME TypeOK, Finite
  PROVE  IsFiniteSet(UsedRows)
<1> DEFINE Held == {chosen[t] : t \in Deleters}
           f == [t \in Deleters |-> chosen[t]]
<1>1. f \in Surjection(Deleters, Held)
  BY DEF Surjection
<1>2. IsFiniteSet(Held)
  BY <1>1, FS_Surjection, LibraryAssumption DEF LibraryAssumption
<1>3. \A h \in Held : IsFiniteSet(h)
  BY DEF Finite
<1>4. IsFiniteSet(UNION Held)
  BY <1>2, <1>3, FS_UNION
<1> QED
  BY <1>4, FS_Union DEF Finite, UsedRows

\* A new row differs from every other: some number of the interval is free,
\* which has one number more than there are rows.
LEMMA NewRowIsNew ==
  ASSUME TypeOK, Finite, NEW s \in Segments, NEW t \in Ingesters
  PROVE  NewRow(s, t) \in Row \ UsedRows
<1> DEFINE C == Cardinality(UsedRows)
           row(n) == [segment |-> s, by |-> t, number |-> n]
           f == [n \in 0..C |-> row(n)]
<1>1. IsFiniteSet(UsedRows) /\ C \in Nat
  BY UsedRowsFinite, FS_CardinalityType
<1>2. \E n \in 0..C : row(n) \notin UsedRows
  <2> SUFFICES ASSUME \A n \in 0..C : row(n) \in UsedRows PROVE FALSE
    OBVIOUS
  <2>1. f \in [0..C -> UsedRows]
    OBVIOUS
  <2>2. \A m, n \in 0..C : f[m] = f[n] => m = n
    <3> SUFFICES ASSUME NEW m \in 0..C, NEW n \in 0..C, f[m] = f[n] PROVE m = n
      OBVIOUS
    <3>1. row(m).number = row(n).number
      OBVIOUS
    <3> QED
      BY <3>1
  <2>3. f \in Injection(0..C, UsedRows)
    <3> HIDE DEF f
    <3> QED
      BY <2>1, <2>2 DEF Injection, IsInjective
  <2>4. Cardinality(0..C) <= C
    BY <1>1, <2>3, FS_Injection
  <2>5. Cardinality(0..C) = C + 1
    BY <1>1, FS_Interval
  <2> QED
    BY <1>1, <2>4, <2>5
<1>3. PICK n \in 0..C : NewRow(s, t) = row(n) /\ row(n) \notin UsedRows
  <2> DEFINE n == CHOOSE k \in 0..C : row(k) \notin UsedRows
  <2>1. n \in 0..C /\ row(n) \notin UsedRows
    BY <1>2
  <2>2. NewRow(s, t) = row(n)
    BY DEF NewRow
  <2> QED
    BY <2>1, <2>2
<1> QED
  BY <1>1, <1>3 DEF Row

-----------------------------------------------------------------------------
(* Type correctness.                                                       *)

\* Where an ingester can be, and what it then keeps of the segment it works on.
MayBeAt(t, l) == (t \in Scanners => l \in ScannerPcs) /\ (t \in Handlers => l \in HandlerPcs)
KeepsAt(l, c) ==
  IF l \in {"lookup"} \cup CheckPcs \cup InsertPcs THEN \E s \in Segments : c = {s} ELSE c = {}
ScansTyped == {work, read, processed} \subseteq [Scanners -> SUBSET Segments]
TheRestStays == UNCHANGED <<interface, screen, rows, deletion, errors>>

\* An ingester goes on, and keeps a segment exactly while it works on one.
LEMMA IngesterKeepsTypes ==
  ASSUME TypeOK, NEW t \in Ingesters, NEW l, TheRestStays, ScansTyped',
         NEW c \in SUBSET Segments, current' = [current EXCEPT ![t] = c], Goto(t, l),
         MayBeAt(t, l), KeepsAt(l, c)
  PROVE  TypeOK'
<1>1. /\ pc \in [Tasks -> ScannerPcs \cup HandlerPcs \cup DeleterPcs]
      /\ current \in [Ingesters -> SUBSET Segments]
  BY DEF TypeOK
<1>2. t \in Tasks /\ t \notin Deleters /\ l \in ScannerPcs \cup HandlerPcs
  BY LibraryAssumption DEF Tasks, Ingesters, MayBeAt
<1>3. /\ pc' \in [Tasks -> ScannerPcs \cup HandlerPcs \cup DeleterPcs]
      /\ \A u \in Tasks : pc'[u] = IF u = t THEN l ELSE pc[u]
  BY <1>1, <1>2 DEF Goto
<1>4. /\ current' \in [Ingesters -> SUBSET Segments]
      /\ \A u \in Ingesters : current'[u] = IF u = t THEN c ELSE current[u]
  BY <1>1
<1>5. Scanners \subseteq Tasks /\ Handlers \subseteq Tasks /\ Deleters \subseteq Tasks
  BY DEF Tasks, Ingesters
<1>6. /\ \A u \in Scanners : pc'[u] \in ScannerPcs
      /\ \A u \in Handlers : pc'[u] \in HandlerPcs
      /\ \A u \in Deleters : pc'[u] = pc[u] /\ pc'[u] \in DeleterPcs
  BY <1>2, <1>3, <1>5 DEF TypeOK, MayBeAt
<1>7. ASSUME NEW u \in Ingesters
      PROVE  IF pc'[u] \in {"lookup"} \cup CheckPcs \cup InsertPcs
             THEN \E s \in Segments : current'[u] = {s} ELSE current'[u] = {}
  <2>1. u \in Tasks
    BY DEF Tasks
  <2>2. IF pc[u] \in {"lookup"} \cup CheckPcs \cup InsertPcs
        THEN \E s \in Segments : current[u] = {s} ELSE current[u] = {}
    BY DEF TypeOK
  <2> QED
    BY <1>3, <1>4, <2>1, <2>2, Zenon DEF KeepsAt
<1>8. UNCHANGED <<chosen, left, app, timer, rows, errors>> /\ InterfaceTypeOK'
  BY DEF TypeOK, InterfaceTypeOK, interface, screen, deletion, TheRestStays
<1> QED
  BY <1>3, <1>4, <1>6, <1>7, <1>8 DEF TypeOK, ScansTyped

LEMMA IngesterLabels ==
  ASSUME TypeOK, NEW t \in Ingesters
  PROVE  /\ work \in [Scanners -> SUBSET Segments] /\ processed \in [Scanners -> SUBSET Segments]
         /\ read \in [Scanners -> SUBSET Segments] /\ current[t] \in SUBSET Segments
         /\ t \in Scanners => pc[t] \in ScannerPcs
         /\ t \in Handlers => pc[t] \in HandlerPcs
         /\ t \in Scanners \/ t \in Handlers
         /\ current \in [Ingesters -> SUBSET Segments]
         /\ IF pc[t] \in {"lookup"} \cup CheckPcs \cup InsertPcs
            THEN \E s \in Segments : current[t] = {s} ELSE current[t] = {}
BY DEF TypeOK, Ingesters

LEMMA NextEntryKeepsTypes ==
  ASSUME TypeOK, NEW t \in Scanners, NextEntry(t)
  PROVE  TypeOK'
<1>1. PICK s \in work[t] :
        /\ work' = [work EXCEPT ![t] = @ \ {s}]
        /\ IF OnDisk(s) THEN current' = [current EXCEPT ![t] = {s}] /\ Goto(t, "lookup")
                        ELSE UNCHANGED <<pc, current>>
  BY Zenon DEF NextEntry
<1>2. UNCHANGED <<interface, screen, rows, read, processed, deletion, errors>>
  BY Zenon DEF NextEntry
<1>3. t \in Ingesters /\ t \notin Handlers
  BY LibraryAssumption DEF Ingesters
<1>4. s \in Segments /\ ScansTyped' /\ TheRestStays
  BY <1>1, <1>2, <1>3, IngesterLabels DEF ScansTyped, TheRestStays
<1>5. CASE OnDisk(s)
  <2>1. MayBeAt(t, "lookup") /\ KeepsAt("lookup", {s})
    BY <1>3, <1>4 DEF MayBeAt, KeepsAt, ScannerPcs, EntryPcs
  <2>2. {s} \in SUBSET Segments /\ current' = [current EXCEPT ![t] = {s}] /\ Goto(t, "lookup")
    BY <1>1, <1>4, <1>5
  <2> QED
    BY <1>3, <1>4, <2>1, <2>2, IngesterKeepsTypes, Zenon
<1>6. CASE ~OnDisk(s)
  <2>1. UNCHANGED <<pc, current>>
    BY <1>1, <1>6
  <2> QED
    BY <1>4, <2>1
    DEF TypeOK, InterfaceTypeOK, interface, screen, deletion, ScansTyped, TheRestStays
<1> QED
  BY <1>5, <1>6

LEMMA NextFileKeepsTypes ==
  ASSUME TypeOK, NEW t \in Scanners, NextFile(t)
  PROVE  TypeOK'
<1>1. PICK s \in work[t] :
        \/ /\ work' = [work EXCEPT ![t] = @ \ {s}]
           /\ current' = [current EXCEPT ![t] = {s}]
           /\ Goto(t, "checkFile")
        \/ /\ work' = [work EXCEPT ![t] = {}]
           /\ Goto(t, "idle")
           /\ UNCHANGED current
  BY Zenon DEF NextFile
<1>2. pc[t] = "files" /\ UNCHANGED <<interface, screen, rows, read, processed, deletion, errors>>
  BY Zenon DEF NextFile
<1>3. t \in Ingesters /\ t \notin Handlers
  BY LibraryAssumption DEF Ingesters
<1>4. s \in Segments /\ ScansTyped' /\ TheRestStays
  BY <1>1, <1>2, <1>3, IngesterLabels DEF ScansTyped, TheRestStays
<1>5. CASE current' = [current EXCEPT ![t] = {s}] /\ Goto(t, "checkFile")
  <2>1. MayBeAt(t, "checkFile") /\ KeepsAt("checkFile", {s}) /\ {s} \in SUBSET Segments
    BY <1>3, <1>4 DEF MayBeAt, KeepsAt, ScannerPcs, FilePcs, CheckPcs
  <2> QED
    BY <1>3, <1>4, <1>5, <2>1, IngesterKeepsTypes, Zenon
<1>6. CASE UNCHANGED current /\ Goto(t, "idle")
  <2>1. current[t] = {}
    BY <1>2, <1>3, IngesterLabels DEF CheckPcs, InsertPcs
  <2>2. current' = [current EXCEPT ![t] = {}] /\ {} \in SUBSET Segments
    BY <1>3, <1>6, <2>1, IngesterLabels
  <2>3. MayBeAt(t, "idle") /\ KeepsAt("idle", {})
    BY <1>3 DEF MayBeAt, KeepsAt, ScannerPcs, CheckPcs, InsertPcs
  <2> QED
    BY <1>3, <1>4, <1>6, <2>2, <2>3, IngesterKeepsTypes, Zenon
<1> QED
  BY <1>1, <1>5, <1>6

LEMMA CheckFileKeepsTypes ==
  ASSUME TypeOK, NEW t \in Ingesters, CheckFile(t)
  PROVE  TypeOK'
<1>1. pc[t] \in CheckPcs /\ UNCHANGED <<interface, screen, rows, work, read, deletion, errors>>
  BY Zenon DEF CheckFile
<1>a. TheRestStays
  BY <1>1 DEF TheRestStays
<1>2. /\ t \in Scanners => pc[t] \in {"checkEntry", "checkFile"} /\ t \notin Handlers
      /\ t \in Handlers => pc[t] = "checkSaved" /\ t \notin Scanners
      /\ t \in Scanners \/ t \in Handlers
  BY <1>1, IngesterLabels, LibraryAssumption
  DEF CheckPcs, ScannerPcs, HandlerPcs, EntryPcs, FilePcs, SavedPcs
<1>3. ASSUME NEW l \in {"insertEntry", "insertFile", "insertSaved"}, Goto(t, l),
             UNCHANGED <<current, processed>>,
             l = "insertSaved" <=> pc[t] = "checkSaved"
      PROVE  TypeOK'
  <2>1. MayBeAt(t, l)
    BY <1>2, <1>3 DEF MayBeAt, ScannerPcs, HandlerPcs, EntryPcs, FilePcs, SavedPcs
  <2>2. PICK s \in Segments : current[t] = {s}
    BY <1>1, IngesterLabels
  <2>3. current' = [current EXCEPT ![t] = {s}] /\ {s} \in SUBSET Segments
    BY <1>3, <2>2, IngesterLabels
  <2>4. KeepsAt(l, {s}) /\ ScansTyped'
    BY <1>1, <1>3, IngesterLabels DEF KeepsAt, ScansTyped, InsertPcs
  <2> QED
    BY <1>a, <1>3, <2>1, <2>3, <2>4, IngesterKeepsTypes, Zenon
<1>4. ASSUME NEW l \in {"entries", "files", "idle"}, Goto(t, l),
             current' = [current EXCEPT ![t] = {}],
             \/ UNCHANGED processed
             \/ processed' = [processed EXCEPT ![t] = @ \cup current[t]],
             l = "idle" <=> pc[t] = "checkSaved"
      PROVE  TypeOK'
  <2>1. MayBeAt(t, l)
    BY <1>2, <1>4 DEF MayBeAt, ScannerPcs, HandlerPcs, EntryPcs, FilePcs
  <2>2. processed' \in [Scanners -> SUBSET Segments]
    BY <1>4, IngesterLabels
  <2>3. ScansTyped' /\ {} \in SUBSET Segments
    BY <1>1, <2>2, IngesterLabels DEF ScansTyped
  <2>4. KeepsAt(l, {})
    BY <1>4 DEF KeepsAt, CheckPcs, InsertPcs
  <2> QED
    BY <1>a, <1>4, <2>1, <2>3, <2>4, IngesterKeepsTypes, Zenon
<1>5. CASE /\ Goto(t, CASE pc[t] = "checkEntry" -> "insertEntry"
                         [] pc[t] = "checkFile"  -> "insertFile"
                         [] pc[t] = "checkSaved" -> "insertSaved")
           /\ UNCHANGED <<current, processed>>
  BY <1>1, <1>3, <1>5 DEF CheckPcs
<1>6. CASE pc[t] \in EntryPcs /\ EntryDone(t)
  BY <1>4, <1>6 DEF EntryDone, EntryPcs
<1>7. CASE pc[t] \in FilePcs /\ FileDone(t)
  BY <1>4, <1>7 DEF FileDone, FilePcs
<1>8. CASE pc[t] \in SavedPcs /\ SavedDone(t)
  <2>1. pc[t] = "checkSaved"
    BY <1>1, <1>8 DEF SavedPcs, CheckPcs
  <2>2. Goto(t, "idle") /\ current' = [current EXCEPT ![t] = {}] /\ UNCHANGED processed
    BY <1>8 DEF SavedDone
  <2> QED
    BY <1>4, <2>1, <2>2
<1> QED
  BY <1>5, <1>6, <1>7, <1>8, Zenon DEF CheckFile, Done

\* Every step keeps the types.
LEMMA TypeNext == TypeOK /\ Finite /\ [Next]_vars => TypeOK'
<1> SUFFICES ASSUME TypeOK, Finite, [Next]_vars PROVE TypeOK'
  OBVIOUS
<1> USE LibraryAssumption, ManifestValues
    DEF TypeOK, InterfaceTypeOK, WavStates, Tasks, Ingesters, vars, interface,
        screen, scan, deletion, tasks, Goto, EntryPcs, FilePcs, SavedPcs, ScannerPcs,
        HandlerPcs, DeleterPcs, CheckPcs, InsertPcs
<1>1. ASSUME AppStarts PROVE TypeOK'
  BY <1>1 DEF AppStarts
<1>2. ASSUME AppStops PROVE TypeOK'
  BY <1>2 DEF AppStops, LoseBroadcasts
<1>3. ASSUME StartTimer PROVE TypeOK'
  BY <1>3 DEF StartTimer
<1>4. ASSUME CancelTimer PROVE TypeOK'
  BY <1>4 DEF CancelTimer
<1>5. ASSUME Recorder PROVE TypeOK'
  BY <1>5 DEF Recorder, WriteWav, FinishWav, Announce, ReplaceManifest, RemoveOld, Created
<1>6. ASSUME NEW t \in Scanners, HomeScan(t) PROVE TypeOK'
  BY <1>6 DEF HomeScan, StartScan
<1>7. ASSUME NEW t \in Scanners, TimerScan(t) PROVE TypeOK'
  BY <1>7 DEF TimerScan, StartScan
<1>8. ASSUME NEW t \in Scanners, ReadManifest(t) PROVE TypeOK'
  BY <1>8 DEF ReadManifest, Entries
<1>9. ASSUME NEW t \in Scanners, DiscardManifest(t) PROVE TypeOK'
  BY <1>9 DEF DiscardManifest
<1>10. ASSUME NEW t \in Scanners, NextEntry(t) PROVE TypeOK'
  BY <1>10, NextEntryKeepsTypes, Zenon
<1>11. ASSUME NEW t \in Scanners, LookupEntry(t) PROVE TypeOK'
  <2>1. /\ pc[t] = "lookup"
        /\ UNCHANGED <<interface, screen, rows, work, read, deletion>>
    BY <1>11, Zenon DEF LookupEntry
  <2>2. CASE EntryDone(t) /\ UNCHANGED errors
    BY <2>1, <2>2 DEF EntryDone
  <2>3. CASE Goto(t, "checkEntry") /\ UNCHANGED <<processed, current>> /\ errors' \in 0..MaxErrors
    BY <2>1, <2>3
  <2>4. errors' \in 0..MaxErrors
    BY <1>11 DEF LookupEntry, Fails
  <2> QED
    BY <1>11, <2>2, <2>3, <2>4, Zenon DEF LookupEntry
<1>12. ASSUME NEW t \in Scanners, RewriteManifest(t) PROVE TypeOK'
  BY <1>12 DEF RewriteManifest
<1>13. ASSUME NEW t \in Scanners, WriteManifest(t) PROVE TypeOK'
  BY <1>13 DEF WriteManifest
<1>14. ASSUME NEW t \in Scanners, ListFiles(t) PROVE TypeOK'
  BY <1>14 DEF ListFiles
<1>15. ASSUME NEW t \in Scanners, SnapshotDb(t) PROVE TypeOK'
  BY <1>15 DEF SnapshotDb, Fails
<1>16. ASSUME NEW t \in Scanners, NextFile(t) PROVE TypeOK'
  BY <1>16, NextFileKeepsTypes, Zenon
<1>17. ASSUME NEW t \in Scanners, ScanEnds(t) PROVE TypeOK'
  BY <1>17 DEF ScanEnds
<1>18. ASSUME NEW t \in Handlers, OnSegmentSaved(t) PROVE TypeOK'
  BY <1>18 DEF OnSegmentSaved
<1>19. ASSUME NEW t \in Ingesters, CheckFile(t) PROVE TypeOK'
  BY <1>19, CheckFileKeepsTypes, Zenon
<1>20. ASSUME NEW t \in Ingesters, InsertRow(t) PROVE TypeOK'
  <2>1. \A s \in current[t] : NewRow(s, t) \in Row
    BY NewRowIsNew
  <2>2. rows' \subseteq Row
    BY <1>20, <2>1 DEF InsertRow
  <2>3. errors' \in 0..MaxErrors
    BY <1>20 DEF InsertRow, Fails
  <2>4. CASE EntryDone(t) /\ pc[t] \in EntryPcs
    BY <1>20, <2>2, <2>3, <2>4 DEF InsertRow, EntryDone
  <2>5. CASE FileDone(t) /\ pc[t] \in FilePcs
    BY <1>20, <2>2, <2>3, <2>5 DEF InsertRow, FileDone
  <2>6. CASE SavedDone(t) /\ pc[t] \in SavedPcs
    BY <1>20, <2>2, <2>3, <2>6 DEF InsertRow, SavedDone
  <2> QED
    BY <1>20, <2>4, <2>5, <2>6 DEF InsertRow, Done
<1>21. ASSUME NEW t \in Deleters, BeginDelete(t) PROVE TypeOK'
  <2>1. PICK some \in (SUBSET rows) \ {{}} :
          /\ chosen' = [chosen EXCEPT ![t] = some]
          /\ left' = [left EXCEPT ![t] = some]
    BY <1>21 DEF BeginDelete
  <2>2. some \in SUBSET Row /\ some # {}
    <3>1. rows \subseteq Row
      OBVIOUS
    <3> QED
      BY <2>1, <3>1 DEF Row
  <2>3. {chosen', left'} \subseteq [Deleters -> SUBSET Row]
    BY <2>1, <2>2
  <2>4. \A u \in Deleters : /\ left'[u] \subseteq chosen'[u]
                            /\ left'[u] # {} <=> pc'[u] = "deleteFiles"
                            /\ chosen'[u] # {} <=> pc'[u] # "idle"
    BY <1>21, <2>1, <2>2 DEF BeginDelete
  <2> QED
    BY <1>21, <2>3, <2>4 DEF BeginDelete
<1>22. ASSUME NEW t \in Deleters, DeleteFile(t) PROVE TypeOK'
  <2>1. PICK r \in left[t] :
          /\ left' = [left EXCEPT ![t] = @ \ {r}]
          /\ wav' = IF r \in rows /\ OnDisk(r.segment) THEN [wav EXCEPT ![r.segment] = "gone"]
                                                       ELSE wav
          /\ pc' = [pc EXCEPT ![t] = IF left[t] = {r} THEN "deleteRows" ELSE "deleteFiles"]
    BY <1>22 DEF DeleteFile
  <2>2. wav' \in [Segments -> {"absent", "partial", "complete", "gone"}]
    BY <2>1
  <2>3. left' \in [Deleters -> SUBSET Row]
    BY <2>1
  <2>4. \A u \in Deleters : /\ left'[u] \subseteq chosen[u]
                            /\ left'[u] # {} <=> pc'[u] = "deleteFiles"
                            /\ chosen[u] # {} <=> pc'[u] # "idle"
    BY <1>22, <2>1 DEF DeleteFile
  <2> QED
    BY <1>22, <2>1, <2>2, <2>3, <2>4 DEF DeleteFile
<1>23. ASSUME NEW t \in Deleters, DeleteRows(t) PROVE TypeOK'
  BY <1>23 DEF DeleteRows, DeletionEnds
<1>24. ASSUME NEW t \in Deleters, DeletionFails(t) PROVE TypeOK'
  BY <1>24 DEF DeletionFails, DeletionEnds, Fails
<1>25. ASSUME NEW r \in rows, DeleteRowOnly(r) PROVE TypeOK'
  BY <1>25 DEF DeleteRowOnly
<1>26. ASSUME UNCHANGED vars PROVE TypeOK'
  BY <1>26
<1> QED
  BY <1>1, <1>2, <1>3, <1>4, <1>5, <1>6, <1>7, <1>8, <1>9, <1>10, <1>11, <1>12,
     <1>13, <1>14, <1>15, <1>16, <1>17, <1>18, <1>19, <1>20, <1>21, <1>22, <1>23, <1>24,
     <1>25, <1>26, Zenon
     DEF Next, ScanStep, ProcessSegment, DeleteStep, Ingesters

\* The table stays finite.
LEMMA FiniteNext == TypeOK /\ Finite /\ [Next]_vars => Finite'
<1> SUFFICES ASSUME TypeOK, Finite, [Next]_vars PROVE Finite'
  OBVIOUS
<1>1. ASSUME NEW r \in Row PROVE IsFiniteSet(rows \cup {r})
  BY FS_AddElement DEF Finite
<1>2. ASSUME NEW some PROVE IsFiniteSet(rows \ some)
  BY FS_Subset DEF Finite
<1>3. CASE UNCHANGED <<rows, chosen>>
  BY <1>3 DEF Finite
<1>4. ASSUME NEW t \in Ingesters, InsertRow(t) PROVE Finite'
  <2>1. PICK s \in Segments : current[t] = {s}
    BY <1>4 DEF InsertRow, TypeOK, Ingesters, Tasks
  <2>2. NewRow(s, t) \in Row
    BY NewRowIsNew
  <2>3. rows' = rows \/ rows' = rows \cup {NewRow(s, t)}
    BY <1>4, <2>1 DEF InsertRow
  <2>4. chosen' = chosen
    BY <1>4 DEF InsertRow, deletion
  <2> QED
    BY <1>1, <2>2, <2>3, <2>4 DEF Finite
<1>5. ASSUME NEW t \in Deleters, BeginDelete(t) PROVE Finite'
  <2>1. PICK some \in SUBSET rows : chosen' = [chosen EXCEPT ![t] = some]
    BY <1>5 DEF BeginDelete
  <2>2. IsFiniteSet(some)
    BY FS_Subset DEF Finite
  <2> QED
    BY <1>5, <2>1, <2>2 DEF BeginDelete, Finite, TypeOK
<1>6. ASSUME NEW t \in Deleters, DeleteRows(t) \/ DeletionFails(t) PROVE Finite'
  <2>1. chosen' = [chosen EXCEPT ![t] = {}]
    BY <1>6 DEF DeleteRows, DeletionFails, DeletionEnds
  <2>2. IsFiniteSet(rows')
    BY <1>6, <1>2 DEF DeleteRows, DeletionFails, Finite
  <2>3. IsFiniteSet({})
    BY FS_EmptySet
  <2> QED
    BY <2>1, <2>2, <2>3 DEF Finite, TypeOK
<1>7. ASSUME NEW r \in rows, DeleteRowOnly(r) PROVE Finite'
  BY <1>7, <1>2 DEF DeleteRowOnly, tasks, deletion, Finite
<1>8. ASSUME AppStops PROVE Finite'
  BY <1>8, FS_EmptySet DEF AppStops, Finite
<1> QED
  BY <1>3, <1>4, <1>5, <1>6, <1>7, <1>8
  DEF Next, vars, tasks, deletion, ScanStep, ProcessSegment, DeleteStep, Ingesters,
      AppStarts, StartTimer, CancelTimer, Recorder, HomeScan, TimerScan, StartScan,
      ReadManifest, DiscardManifest, NextEntry, LookupEntry, RewriteManifest,
      WriteManifest, ListFiles, SnapshotDb, NextFile, ScanEnds, OnSegmentSaved,
      CheckFile, DeleteFile

-----------------------------------------------------------------------------
(* Scans.                                                                  *)

\* A step lets a scanner add a segment that it could not add before only after
\* the table has said that there is no row, or has failed.
Asks ==
  \A t \in Scanners : \A s \in MayAdd(t)' :
    \/ s \in MayAdd(t)
    \/ rows' = rows /\ (RowsOf(s) = {} \/ errors' = errors + 1)

\* A step adds at most one row in the name of a scanner, of a segment that the
\* scanner might add and may not add again.
Adds ==
  \A t \in Scanners, s \in Segments :
    \/ RowsBy(t, s)' \subseteq RowsBy(t, s)
    \/ /\ s \in MayAdd(t) /\ s \notin MayAdd(t)'
       /\ errors' = errors
       /\ \E r : RowsBy(t, s)' = RowsBy(t, s) \cup {r}

\* A file a scanner took is not taken again.
LEMMA TakenOnceNext == TypeOK /\ TakenOnce /\ [Next]_vars => TakenOnce'
<1> SUFFICES ASSUME TypeOK, TakenOnce, [Next]_vars PROVE TakenOnce'
  OBVIOUS
<1> USE LibraryAssumption
    DEF TypeOK, TakenOnce, MayAdd, Tasks, Ingesters, vars, interface,
        screen, scan, deletion, tasks, Goto, EntryPcs, FilePcs, SavedPcs, ScannerPcs,
        HandlerPcs, DeleterPcs, CheckPcs, InsertPcs
<1>1. ASSUME AppStarts PROVE TakenOnce'
  BY <1>1 DEF AppStarts
<1>2. ASSUME AppStops PROVE TakenOnce'
  BY <1>2 DEF AppStops, LoseBroadcasts
<1>3. ASSUME StartTimer PROVE TakenOnce'
  BY <1>3 DEF StartTimer
<1>4. ASSUME CancelTimer PROVE TakenOnce'
  BY <1>4 DEF CancelTimer
<1>5. ASSUME Recorder PROVE TakenOnce'
  BY <1>5 DEF Recorder
<1>6. ASSUME NEW t \in Scanners, HomeScan(t) PROVE TakenOnce'
  BY <1>6 DEF HomeScan, StartScan
<1>7. ASSUME NEW t \in Scanners, TimerScan(t) PROVE TakenOnce'
  BY <1>7 DEF TimerScan, StartScan
<1>8. ASSUME NEW t \in Scanners, ReadManifest(t) PROVE TakenOnce'
  BY <1>8 DEF ReadManifest, Entries
<1>9. ASSUME NEW t \in Scanners, DiscardManifest(t) PROVE TakenOnce'
  BY <1>9 DEF DiscardManifest
<1>10. ASSUME NEW t \in Scanners, NextEntry(t) PROVE TakenOnce'
  BY <1>10 DEF NextEntry
<1>11. ASSUME NEW t \in Scanners, LookupEntry(t) PROVE TakenOnce'
  BY <1>11 DEF LookupEntry, EntryDone, Fails
<1>12. ASSUME NEW t \in Scanners, RewriteManifest(t) PROVE TakenOnce'
  BY <1>12 DEF RewriteManifest
<1>13. ASSUME NEW t \in Scanners, WriteManifest(t) PROVE TakenOnce'
  BY <1>13 DEF WriteManifest
<1>14. ASSUME NEW t \in Scanners, ListFiles(t) PROVE TakenOnce'
  BY <1>14 DEF ListFiles
<1>15. ASSUME NEW t \in Scanners, SnapshotDb(t) PROVE TakenOnce'
  BY <1>15 DEF SnapshotDb, Fails
<1>16. ASSUME NEW t \in Scanners, NextFile(t) PROVE TakenOnce'
  BY <1>16 DEF NextFile
<1>17. ASSUME NEW t \in Scanners, ScanEnds(t) PROVE TakenOnce'
  BY <1>17 DEF ScanEnds
<1>18. ASSUME NEW t \in Handlers, OnSegmentSaved(t) PROVE TakenOnce'
  BY <1>18 DEF OnSegmentSaved
<1>19. ASSUME NEW t \in Ingesters, CheckFile(t) PROVE TakenOnce'
  BY <1>19 DEF CheckFile, Done, EntryDone, FileDone, SavedDone
<1>20. ASSUME NEW t \in Ingesters, InsertRow(t) PROVE TakenOnce'
  BY <1>20 DEF InsertRow, Done, EntryDone, FileDone, SavedDone
<1>21. ASSUME NEW t \in Deleters, BeginDelete(t) PROVE TakenOnce'
  BY <1>21 DEF BeginDelete
<1>22. ASSUME NEW t \in Deleters, DeleteFile(t) PROVE TakenOnce'
  BY <1>22 DEF DeleteFile
<1>23. ASSUME NEW t \in Deleters, DeleteRows(t) PROVE TakenOnce'
  BY <1>23 DEF DeleteRows, DeletionEnds
<1>24. ASSUME NEW t \in Deleters, DeletionFails(t) PROVE TakenOnce'
  BY <1>24 DEF DeletionFails, DeletionEnds, Fails
<1>25. ASSUME NEW r \in rows, DeleteRowOnly(r) PROVE TakenOnce'
  BY <1>25 DEF DeleteRowOnly
<1>26. ASSUME UNCHANGED vars PROVE TakenOnce'
  BY <1>26
<1> QED
  BY <1>1, <1>2, <1>3, <1>4, <1>5, <1>6, <1>7, <1>8, <1>9, <1>10, <1>11, <1>12,
     <1>13, <1>14, <1>15, <1>16, <1>17, <1>18, <1>19, <1>20, <1>21, <1>22, <1>23, <1>24,
     <1>25, <1>26, Zenon
     DEF Next, ScanStep, ProcessSegment, DeleteStep, Ingesters

\* Every step asks before it adds.
LEMMA AsksNext == TypeOK /\ TakenOnce /\ [Next]_vars => Asks
<1> SUFFICES ASSUME TypeOK, TakenOnce, [Next]_vars PROVE Asks
  OBVIOUS
<1> USE LibraryAssumption
    DEF Asks, TypeOK, TakenOnce, MayAdd, Tasks, Ingesters, vars, interface,
        screen, scan, deletion, tasks, Goto, EntryPcs, FilePcs, SavedPcs, ScannerPcs,
        HandlerPcs, DeleterPcs, CheckPcs, InsertPcs
<1>1. ASSUME AppStarts PROVE Asks
  BY <1>1 DEF AppStarts
<1>2. ASSUME AppStops PROVE Asks
  BY <1>2 DEF AppStops, LoseBroadcasts
<1>3. ASSUME StartTimer PROVE Asks
  BY <1>3 DEF StartTimer
<1>4. ASSUME CancelTimer PROVE Asks
  BY <1>4 DEF CancelTimer
<1>5. ASSUME Recorder PROVE Asks
  BY <1>5 DEF Recorder
<1>6. ASSUME NEW t \in Scanners, HomeScan(t) PROVE Asks
  BY <1>6 DEF HomeScan, StartScan
<1>7. ASSUME NEW t \in Scanners, TimerScan(t) PROVE Asks
  BY <1>7 DEF TimerScan, StartScan
<1>8. ASSUME NEW t \in Scanners, ReadManifest(t) PROVE Asks
  BY <1>8 DEF ReadManifest, Entries
<1>9. ASSUME NEW t \in Scanners, DiscardManifest(t) PROVE Asks
  BY <1>9 DEF DiscardManifest
<1>10. ASSUME NEW t \in Scanners, NextEntry(t) PROVE Asks
  BY <1>10 DEF NextEntry
<1>11. ASSUME NEW t \in Scanners, LookupEntry(t) PROVE Asks
  BY <1>11 DEF LookupEntry, EntryDone, Fails, InDb
<1>12. ASSUME NEW t \in Scanners, RewriteManifest(t) PROVE Asks
  BY <1>12 DEF RewriteManifest
<1>13. ASSUME NEW t \in Scanners, WriteManifest(t) PROVE Asks
  BY <1>13 DEF WriteManifest
<1>14. ASSUME NEW t \in Scanners, ListFiles(t) PROVE Asks
  BY <1>14 DEF ListFiles
<1>15. ASSUME NEW t \in Scanners, SnapshotDb(t) PROVE Asks
  BY <1>15 DEF SnapshotDb, Fails, InDb
<1>16. ASSUME NEW t \in Scanners, NextFile(t) PROVE Asks
  BY <1>16 DEF NextFile
<1>17. ASSUME NEW t \in Scanners, ScanEnds(t) PROVE Asks
  BY <1>17 DEF ScanEnds
<1>18. ASSUME NEW t \in Handlers, OnSegmentSaved(t) PROVE Asks
  BY <1>18 DEF OnSegmentSaved
<1>19. ASSUME NEW t \in Ingesters, CheckFile(t) PROVE Asks
  BY <1>19 DEF CheckFile, Done, EntryDone, FileDone, SavedDone
<1>20. ASSUME NEW t \in Ingesters, InsertRow(t) PROVE Asks
  BY <1>20 DEF InsertRow, Done, EntryDone, FileDone, SavedDone
<1>21. ASSUME NEW t \in Deleters, BeginDelete(t) PROVE Asks
  BY <1>21 DEF BeginDelete
<1>22. ASSUME NEW t \in Deleters, DeleteFile(t) PROVE Asks
  BY <1>22 DEF DeleteFile
<1>23. ASSUME NEW t \in Deleters, DeleteRows(t) PROVE Asks
  BY <1>23 DEF DeleteRows, DeletionEnds
<1>24. ASSUME NEW t \in Deleters, DeletionFails(t) PROVE Asks
  BY <1>24 DEF DeletionFails, DeletionEnds, Fails
<1>25. ASSUME NEW r \in rows, DeleteRowOnly(r) PROVE Asks
  BY <1>25 DEF DeleteRowOnly
<1>26. ASSUME UNCHANGED vars PROVE Asks
  BY <1>26
<1> QED
  BY <1>1, <1>2, <1>3, <1>4, <1>5, <1>6, <1>7, <1>8, <1>9, <1>10, <1>11, <1>12,
     <1>13, <1>14, <1>15, <1>16, <1>17, <1>18, <1>19, <1>20, <1>21, <1>22, <1>23, <1>24,
     <1>25, <1>26, Zenon
     DEF Next, ScanStep, ProcessSegment, DeleteStep, Ingesters

\* Failures are only counted up.
LEMMA ErrorsNext == TypeOK /\ [Next]_vars => errors' \in Nat /\ errors' \in {errors, errors + 1}
<1> SUFFICES ASSUME TypeOK, [Next]_vars PROVE errors' \in Nat /\ errors' \in {errors, errors + 1}
  OBVIOUS
<1> USE LibraryAssumption DEF LibraryAssumption, TypeOK,
        screen, scan, deletion, tasks, vars, interface
<1>1. ASSUME AppStarts PROVE errors' \in Nat /\ errors' \in {errors, errors + 1}
  BY <1>1 DEF AppStarts
<1>2. ASSUME AppStops PROVE errors' \in Nat /\ errors' \in {errors, errors + 1}
  BY <1>2 DEF AppStops
<1>3. ASSUME StartTimer PROVE errors' \in Nat /\ errors' \in {errors, errors + 1}
  BY <1>3 DEF StartTimer
<1>4. ASSUME CancelTimer PROVE errors' \in Nat /\ errors' \in {errors, errors + 1}
  BY <1>4 DEF CancelTimer
<1>5. ASSUME Recorder PROVE errors' \in Nat /\ errors' \in {errors, errors + 1}
  BY <1>5 DEF Recorder
<1>6. ASSUME NEW t \in Scanners, HomeScan(t) PROVE errors' \in Nat /\ errors' \in {errors, errors + 1}
  BY <1>6 DEF HomeScan, StartScan
<1>7. ASSUME NEW t \in Scanners, TimerScan(t) PROVE errors' \in Nat /\ errors' \in {errors, errors + 1}
  BY <1>7 DEF TimerScan, StartScan
<1>8. ASSUME NEW t \in Scanners, ReadManifest(t) PROVE errors' \in Nat /\ errors' \in {errors, errors + 1}
  BY <1>8 DEF ReadManifest
<1>9. ASSUME NEW t \in Scanners, DiscardManifest(t) PROVE errors' \in Nat /\ errors' \in {errors, errors + 1}
  BY <1>9 DEF DiscardManifest
<1>10. ASSUME NEW t \in Scanners, NextEntry(t) PROVE errors' \in Nat /\ errors' \in {errors, errors + 1}
  BY <1>10 DEF NextEntry
<1>11. ASSUME NEW t \in Scanners, LookupEntry(t) PROVE errors' \in Nat /\ errors' \in {errors, errors + 1}
  BY <1>11 DEF LookupEntry, Fails
<1>12. ASSUME NEW t \in Scanners, RewriteManifest(t) PROVE errors' \in Nat /\ errors' \in {errors, errors + 1}
  BY <1>12 DEF RewriteManifest
<1>13. ASSUME NEW t \in Scanners, WriteManifest(t) PROVE errors' \in Nat /\ errors' \in {errors, errors + 1}
  BY <1>13 DEF WriteManifest
<1>14. ASSUME NEW t \in Scanners, ListFiles(t) PROVE errors' \in Nat /\ errors' \in {errors, errors + 1}
  BY <1>14 DEF ListFiles
<1>15. ASSUME NEW t \in Scanners, SnapshotDb(t) PROVE errors' \in Nat /\ errors' \in {errors, errors + 1}
  BY <1>15 DEF SnapshotDb, Fails
<1>16. ASSUME NEW t \in Scanners, NextFile(t) PROVE errors' \in Nat /\ errors' \in {errors, errors + 1}
  BY <1>16 DEF NextFile
<1>17. ASSUME NEW t \in Scanners, ScanEnds(t) PROVE errors' \in Nat /\ errors' \in {errors, errors + 1}
  BY <1>17 DEF ScanEnds
<1>18. ASSUME NEW t \in Handlers, OnSegmentSaved(t) PROVE errors' \in Nat /\ errors' \in {errors, errors + 1}
  BY <1>18 DEF OnSegmentSaved
<1>19. ASSUME NEW t \in Ingesters, CheckFile(t) PROVE errors' \in Nat /\ errors' \in {errors, errors + 1}
  BY <1>19 DEF CheckFile
<1>20. ASSUME NEW t \in Ingesters, InsertRow(t) PROVE errors' \in Nat /\ errors' \in {errors, errors + 1}
  BY <1>20 DEF InsertRow, Fails
<1>21. ASSUME NEW t \in Deleters, BeginDelete(t) PROVE errors' \in Nat /\ errors' \in {errors, errors + 1}
  BY <1>21 DEF BeginDelete
<1>22. ASSUME NEW t \in Deleters, DeleteFile(t) PROVE errors' \in Nat /\ errors' \in {errors, errors + 1}
  BY <1>22 DEF DeleteFile
<1>23. ASSUME NEW t \in Deleters, DeleteRows(t) PROVE errors' \in Nat /\ errors' \in {errors, errors + 1}
  BY <1>23 DEF DeleteRows
<1>24. ASSUME NEW t \in Deleters, DeletionFails(t) PROVE errors' \in Nat /\ errors' \in {errors, errors + 1}
  BY <1>24 DEF DeletionFails, Fails
<1>25. ASSUME NEW r \in rows, DeleteRowOnly(r) PROVE errors' \in Nat /\ errors' \in {errors, errors + 1}
  BY <1>25 DEF DeleteRowOnly
<1>26. ASSUME UNCHANGED vars PROVE errors' \in Nat /\ errors' \in {errors, errors + 1}
  BY <1>26
<1> QED
  BY <1>1, <1>2, <1>3, <1>4, <1>5, <1>6, <1>7, <1>8, <1>9, <1>10, <1>11, <1>12,
     <1>13, <1>14, <1>15, <1>16, <1>17, <1>18, <1>19, <1>20, <1>21, <1>22, <1>23, <1>24,
     <1>25, <1>26, Zenon
     DEF Next, ScanStep, ProcessSegment, DeleteStep, Ingesters

\* Every step adds no more than that.
LEMMA AddsNext == TypeOK /\ TakenOnce /\ [Next]_vars => Adds
<1> SUFFICES ASSUME TypeOK, TakenOnce, [Next]_vars PROVE Adds
  OBVIOUS
<1>1. ASSUME rows' \subseteq rows PROVE Adds
  BY <1>1 DEF Adds, RowsBy, RowsOf
<1>2. ASSUME NEW t \in Ingesters, InsertRow(t) PROVE Adds
  <2>1. PICK s \in Segments : current[t] = {s}
    BY <1>2 DEF InsertRow, TypeOK
  <2>2. CASE UNCHANGED rows
    BY <1>1, <2>2
  <2>3. CASE rows' = rows \cup {NewRow(s, t)} /\ errors' = errors
    <3> DEFINE r == NewRow(s, t)
    <3>1. r.segment = s /\ r.by = t
      BY DEF NewRow
    <3>2. ASSUME NEW u \in Scanners, NEW x \in Segments, u # t \/ x # s
          PROVE  RowsBy(u, x)' \subseteq RowsBy(u, x)
      <4> HIDE DEF r
      <4> QED
        BY <2>3, <3>1, <3>2 DEF r, RowsBy, RowsOf
    <3>3. ASSUME t \in Scanners
          PROVE  /\ s \in MayAdd(t) /\ s \notin MayAdd(t)'
                 /\ RowsBy(t, s)' = RowsBy(t, s) \cup {r}
      <4>1. pc[t] \in {"insertEntry", "insertFile"}
        BY <1>2, <3>3, LibraryAssumption
        DEF InsertRow, TypeOK, InsertPcs, ScannerPcs, EntryPcs, FilePcs, LibraryAssumption
      <4>2. s \in MayAdd(t)
        BY <2>1, <4>1 DEF MayAdd
      <4>3. s \notin MayAdd(t)'
        <5>1. CASE EntryDone(t) /\ pc[t] \in EntryPcs
          BY <5>1, <3>3 DEF EntryDone, MayAdd, TypeOK, Tasks, Ingesters, Goto, FilePcs
        <5>2. CASE FileDone(t) /\ pc[t] \in FilePcs
          <6>1. s \notin work[t]
            BY <5>2, <3>3, <2>1 DEF TakenOnce
          <6>2. work' = work /\ current'[t] = {}
            BY <5>2, <1>2 DEF InsertRow, FileDone, TypeOK
          <6> QED
            BY <6>1, <6>2 DEF MayAdd
        <5>3. pc[t] \notin SavedPcs
          BY <4>1 DEF SavedPcs
        <5> QED
          BY <5>1, <5>2, <5>3, <1>2 DEF InsertRow, Done
      <4>4. RowsBy(t, s)' = RowsBy(t, s) \cup {r}
        <5> HIDE DEF r
        <5> QED
          BY <2>3, <3>1 DEF r, RowsBy, RowsOf
      <4> QED
        BY <4>2, <4>3, <4>4
    <3> QED
      BY <2>3, <3>2, <3>3 DEF Adds
  <2> QED
    BY <1>2, <2>1, <2>2, <2>3 DEF InsertRow
<1>3. ASSUME ~\E t \in Ingesters : InsertRow(t) PROVE rows' \subseteq rows
  BY <1>3
  DEF Next, vars, tasks, deletion, ScanStep, ProcessSegment, DeleteStep, Ingesters,
      AppStarts, AppStops, StartTimer, CancelTimer, Recorder, HomeScan, TimerScan,
      StartScan, ReadManifest, DiscardManifest, NextEntry, LookupEntry,
      RewriteManifest, WriteManifest, ListFiles, SnapshotDb, NextFile, ScanEnds,
      OnSegmentSaved, CheckFile, BeginDelete, DeleteFile, DeleteRows, DeletionFails,
      DeleteRowOnly
<1> QED
  BY <1>1, <1>2, <1>3

\* Counting the rows of a scanner.
LEMMA RowsByFinite ==
  ASSUME Finite, NEW t, NEW s
  PROVE  /\ IsFiniteSet(RowsBy(t, s))
         /\ Cardinality(RowsBy(t, s)) \in Nat
         /\ RowsBy(t, s) = {} => Cardinality(RowsBy(t, s)) = 0
<1>1. RowsBy(t, s) \in SUBSET rows
  BY DEF RowsBy, RowsOf
<1>2. IsFiniteSet(RowsBy(t, s))
  BY <1>1, FS_Subset DEF Finite
<1> QED
  BY <1>2, FS_CardinalityType, FS_EmptySet

LEMMA ScansInvInit == Init => ScansInv
<1> SUFFICES ASSUME Init PROVE ScansInv
  OBVIOUS
<1>1. TypeOK
  <2>1. InterfaceTypeOK
    BY ManifestValues DEF Init, SourceInit, InterfaceTypeOK, WavStates
  <2>2. errors \in 0..MaxErrors
    BY LibraryAssumption DEF LibraryAssumption, Init
  <2>3. rows \subseteq Row /\ {chosen, left} \subseteq [Deleters -> SUBSET Row]
    BY DEF Init
  <2>4. /\ {work, read, processed} \subseteq [Scanners -> SUBSET Segments]
        /\ current \in [Ingesters -> SUBSET Segments]
    BY DEF Init
  <2>5. \A t \in Tasks : pc[t] = "idle"
    BY DEF Init
  <2>6. pc \in [Tasks -> ScannerPcs \cup HandlerPcs \cup DeleterPcs]
    BY DEF Init, ScannerPcs
  <2>7. \A t \in Ingesters : current[t] = {}
    BY DEF Init
  <2>8. \A t \in Deleters : left[t] = {} /\ chosen[t] = {}
    BY DEF Init
  <2>9. "idle" \notin {"lookup"} \cup CheckPcs \cup InsertPcs
    BY DEF CheckPcs, InsertPcs
  <2>10. app = FALSE /\ timer = FALSE
    BY DEF Init
  <2> QED
    BY <2>1, <2>2, <2>3, <2>4, <2>5, <2>6, <2>7, <2>8, <2>9, <2>10
    DEF TypeOK, Tasks, Ingesters, ScannerPcs, HandlerPcs, DeleterPcs
<1>2. Finite
  BY FS_EmptySet DEF Init, Finite
<1>3. LookedUp /\ TakenOnce
  BY DEF Init, LookedUp, TakenOnce, MayAdd, FilePcs, Tasks, Ingesters
<1>4. AtMostOneRowPerScanner
  <2> SUFFICES ASSUME NEW t \in Scanners, NEW s \in Segments
               PROVE  Cardinality(RowsBy(t, s)) <= 1 + errors
    BY DEF AtMostOneRowPerScanner
  <2>1. RowsBy(t, s) = {}
    BY DEF Init, RowsBy, RowsOf
  <2>2. Cardinality(RowsBy(t, s)) = 0
    BY <1>2, <2>1, RowsByFinite
  <2>3. errors = 0
    BY DEF Init
  <2> QED
    BY <2>2, <2>3
<1> QED
  BY <1>1, <1>2, <1>3, <1>4 DEF ScansInv

LEMMA ScansInvNext == ScansInv /\ [Next]_vars => ScansInv'
<1> SUFFICES ASSUME ScansInv, [Next]_vars PROVE ScansInv'
  OBVIOUS
<1>1. TypeOK' /\ Finite' /\ TakenOnce' /\ Asks /\ Adds
  BY TypeNext, FiniteNext, TakenOnceNext, AsksNext, AddsNext DEF ScansInv
<1>2. errors \in Nat /\ errors' \in Nat /\ errors' \in {errors, errors + 1}
  BY ErrorsNext, LibraryAssumption DEF ScansInv, TypeOK, LibraryAssumption
<1>3. ASSUME NEW t \in Scanners, NEW s \in Segments,
             RowsBy(t, s)' \subseteq RowsBy(t, s)
      PROVE  Cardinality(RowsBy(t, s)') <= Cardinality(RowsBy(t, s))
  BY <1>3, RowsByFinite, FS_Subset DEF ScansInv
<1>4. ASSUME NEW t \in Scanners, NEW s \in Segments
      PROVE  Cardinality(RowsBy(t, s)) \in Nat /\ Cardinality(RowsBy(t, s)') \in Nat
  <2>1. Cardinality(RowsBy(t, s)) \in Nat
    BY RowsByFinite DEF ScansInv
  <2>2. IsFiniteSet(RowsBy(t, s)')
    BY <1>1, FS_Subset DEF Finite, RowsBy, RowsOf
  <2> QED
    BY <2>1, <2>2, FS_CardinalityType
<1>5. AtMostOneRowPerScanner'
  <2> SUFFICES ASSUME NEW t \in Scanners, NEW s \in Segments
               PROVE  Cardinality(RowsBy(t, s)') <= 1 + errors'
    BY DEF AtMostOneRowPerScanner
  <2>1. Cardinality(RowsBy(t, s)) <= 1 + errors
    BY DEF ScansInv, AtMostOneRowPerScanner
  <2>2. CASE RowsBy(t, s)' \subseteq RowsBy(t, s)
    BY <1>2, <1>3, <1>4, <2>1, <2>2
  <2>3. ASSUME s \in MayAdd(t), errors' = errors,
               NEW r, RowsBy(t, s)' = RowsBy(t, s) \cup {r}
        PROVE  Cardinality(RowsBy(t, s)') <= 1 + errors'
    <3>1. Cardinality(RowsBy(t, s)) <= errors
      BY <2>3 DEF ScansInv, LookedUp
    <3> DEFINE old == RowsBy(t, s)
               new == RowsBy(t, s)'
    <3>2. new = old \cup {r} /\ Cardinality(old) \in Nat /\ Cardinality(new) \in Nat
      BY <1>4, <2>3
    <3>3. IsFiniteSet(old)
      BY RowsByFinite DEF ScansInv
    <3> HIDE DEF old, new
    <3>4. Cardinality(new) <= Cardinality(old) + 1
      <4>1. Cardinality(old \cup {r})
              = IF r \in old THEN Cardinality(old) ELSE Cardinality(old) + 1
        BY <3>3, FS_AddElement
      <4>2. CASE r \in old
        BY <3>2, <4>1, <4>2
      <4>3. CASE r \notin old
        BY <3>2, <4>1, <4>3
      <4> QED
        BY <4>2, <4>3
    <3>5. Cardinality(new) <= 1 + errors
      BY <1>2, <3>1, <3>2, <3>4 DEF old
    <3> QED
      BY <2>3, <3>5 DEF new
  <2> QED
    BY <1>1, <2>2, <2>3 DEF Adds
<1>6. LookedUp'
  <2> SUFFICES ASSUME NEW t \in Scanners, NEW s \in MayAdd(t)'
               PROVE  Cardinality(RowsBy(t, s)') <= errors'
    BY DEF LookedUp
  <2>1. s \in Segments
    BY <1>1 DEF MayAdd, TypeOK, Ingesters
  <2>2. RowsBy(t, s)' \subseteq RowsBy(t, s)
    BY <1>1, <2>1 DEF Adds
  <2>3. CASE s \in MayAdd(t)
    <3>1. Cardinality(RowsBy(t, s)) <= errors
      BY <2>3 DEF ScansInv, LookedUp
    <3> QED
      BY <1>2, <1>3, <1>4, <2>1, <2>2, <3>1
  <2>4. CASE RowsOf(s) = {}
    <3>1. RowsBy(t, s) = {}
      BY <2>4 DEF RowsBy
    <3>2. Cardinality(RowsBy(t, s)) = 0
      BY <3>1, RowsByFinite DEF ScansInv
    <3> QED
      BY <1>2, <1>3, <1>4, <2>1, <2>2, <3>2
  <2>5. CASE errors' = errors + 1
    <3>1. Cardinality(RowsBy(t, s)) <= 1 + errors
      BY <2>1 DEF ScansInv, AtMostOneRowPerScanner
    <3> QED
      BY <1>2, <1>3, <1>4, <2>1, <2>2, <2>5, <3>1
  <2> QED
    BY <1>1, <2>3, <2>4, <2>5 DEF Asks
<1> QED
  BY <1>1, <1>5, <1>6 DEF ScansInv

\* However many scans, handlers and deletions overlap, every variable has its
\* type, and every task holds what its next step needs.
THEOREM LibraryTypeCorrect == Spec => []TypeOK
<1>1. ScansInv => TypeOK
  BY DEF ScansInv
<1> QED
  BY <1>1, ScansInvInit, ScansInvNext, PTL DEF Spec

\* However many scans overlap, and whatever fails, a scanner has at most one row
\* of a segment, plus one for each failure.
THEOREM OneRowPerScanner == Spec => []AtMostOneRowPerScanner
<1>1. ScansInv => AtMostOneRowPerScanner
  BY DEF ScansInv
<1> QED
  BY <1>1, ScansInvInit, ScansInvNext, PTL DEF Spec

-----------------------------------------------------------------------------
(* Deletion.                                                               *)

\* A file that was created stays created, and one that is gone stays gone.
FilesKept ==
  \A s \in Segments : /\ s \in Created => wav'[s] # "absent"
                      /\ wav[s] = "gone" => wav'[s] = "gone"

\* Every step keeps them.
LEMMA FilesKeptNext == TypeOK /\ [Next]_vars => FilesKept
<1> SUFFICES ASSUME TypeOK, [Next]_vars PROVE FilesKept
  OBVIOUS
<1> USE DEF TypeOK, InterfaceTypeOK, WavStates, FilesKept, Created, vars, interface
<1>1. ASSUME AppStarts PROVE FilesKept
  BY <1>1 DEF AppStarts
<1>2. ASSUME AppStops PROVE FilesKept
  BY <1>2 DEF AppStops, LoseBroadcasts
<1>3. ASSUME StartTimer PROVE FilesKept
  BY <1>3 DEF StartTimer
<1>4. ASSUME CancelTimer PROVE FilesKept
  BY <1>4 DEF CancelTimer
<1>5. ASSUME Recorder PROVE FilesKept
  BY <1>5 DEF Recorder, WriteWav, FinishWav, Announce, ReplaceManifest, RemoveOld
<1>6. ASSUME NEW t \in Scanners, HomeScan(t) PROVE FilesKept
  BY <1>6 DEF HomeScan, StartScan
<1>7. ASSUME NEW t \in Scanners, TimerScan(t) PROVE FilesKept
  BY <1>7 DEF TimerScan, StartScan
<1>8. ASSUME NEW t \in Scanners, ReadManifest(t) PROVE FilesKept
  BY <1>8 DEF ReadManifest
<1>9. ASSUME NEW t \in Scanners, DiscardManifest(t) PROVE FilesKept
  BY <1>9 DEF DiscardManifest
<1>10. ASSUME NEW t \in Scanners, NextEntry(t) PROVE FilesKept
  BY <1>10 DEF NextEntry
<1>11. ASSUME NEW t \in Scanners, LookupEntry(t) PROVE FilesKept
  BY <1>11 DEF LookupEntry
<1>12. ASSUME NEW t \in Scanners, RewriteManifest(t) PROVE FilesKept
  BY <1>12 DEF RewriteManifest
<1>13. ASSUME NEW t \in Scanners, WriteManifest(t) PROVE FilesKept
  BY <1>13 DEF WriteManifest
<1>14. ASSUME NEW t \in Scanners, ListFiles(t) PROVE FilesKept
  BY <1>14 DEF ListFiles
<1>15. ASSUME NEW t \in Scanners, SnapshotDb(t) PROVE FilesKept
  BY <1>15 DEF SnapshotDb
<1>16. ASSUME NEW t \in Scanners, NextFile(t) PROVE FilesKept
  BY <1>16 DEF NextFile
<1>17. ASSUME NEW t \in Scanners, ScanEnds(t) PROVE FilesKept
  BY <1>17 DEF ScanEnds
<1>18. ASSUME NEW t \in Handlers, OnSegmentSaved(t) PROVE FilesKept
  BY <1>18 DEF OnSegmentSaved
<1>19. ASSUME NEW t \in Ingesters, CheckFile(t) PROVE FilesKept
  BY <1>19 DEF CheckFile
<1>20. ASSUME NEW t \in Ingesters, InsertRow(t) PROVE FilesKept
  BY <1>20 DEF InsertRow
<1>21. ASSUME NEW t \in Deleters, BeginDelete(t) PROVE FilesKept
  BY <1>21 DEF BeginDelete
<1>22. ASSUME NEW t \in Deleters, DeleteFile(t) PROVE FilesKept
  BY <1>22 DEF DeleteFile, OnDisk
<1>23. ASSUME NEW t \in Deleters, DeleteRows(t) PROVE FilesKept
  BY <1>23 DEF DeleteRows
<1>24. ASSUME NEW t \in Deleters, DeletionFails(t) PROVE FilesKept
  BY <1>24 DEF DeletionFails
<1>25. ASSUME NEW r \in rows, DeleteRowOnly(r) PROVE FilesKept
  BY <1>25 DEF DeleteRowOnly
<1>26. ASSUME UNCHANGED vars PROVE FilesKept
  BY <1>26
<1> QED
  BY <1>1, <1>2, <1>3, <1>4, <1>5, <1>6, <1>7, <1>8, <1>9, <1>10, <1>11, <1>12,
     <1>13, <1>14, <1>15, <1>16, <1>17, <1>18, <1>19, <1>20, <1>21, <1>22, <1>23, <1>24,
     <1>25, <1>26, Zenon
     DEF Next, ScanStep, ProcessSegment, DeleteStep, Ingesters

\* Rows stay about created files.
LEMMA RowsOfCreatedNext == TypeOK /\ FilesKept /\ RowsOfCreated /\ [Next]_vars => RowsOfCreated'
<1> SUFFICES ASSUME TypeOK, FilesKept, RowsOfCreated, [Next]_vars PROVE RowsOfCreated'
  OBVIOUS
<1> USE LibraryAssumption
    DEF LibraryAssumption, TypeOK, FilesKept, RowsOfCreated, Created, Tasks, Ingesters,
        Goto, vars, interface, screen, scan, deletion, tasks, EntryPcs, FilePcs,
        SavedPcs, ScannerPcs, HandlerPcs, CheckPcs, InsertPcs
<1>1. ASSUME AppStarts PROVE RowsOfCreated'
  BY <1>1 DEF AppStarts
<1>2. ASSUME AppStops PROVE RowsOfCreated'
  BY <1>2 DEF AppStops, LoseBroadcasts
<1>3. ASSUME StartTimer PROVE RowsOfCreated'
  BY <1>3 DEF StartTimer
<1>4. ASSUME CancelTimer PROVE RowsOfCreated'
  BY <1>4 DEF CancelTimer
<1>5. ASSUME Recorder PROVE RowsOfCreated'
  BY <1>5 DEF Recorder
<1>6. ASSUME NEW t \in Scanners, HomeScan(t) PROVE RowsOfCreated'
  BY <1>6 DEF HomeScan, StartScan
<1>7. ASSUME NEW t \in Scanners, TimerScan(t) PROVE RowsOfCreated'
  BY <1>7 DEF TimerScan, StartScan
<1>8. ASSUME NEW t \in Scanners, ReadManifest(t) PROVE RowsOfCreated'
  BY <1>8 DEF ReadManifest
<1>9. ASSUME NEW t \in Scanners, DiscardManifest(t) PROVE RowsOfCreated'
  BY <1>9 DEF DiscardManifest
<1>10. ASSUME NEW t \in Scanners, NextEntry(t) PROVE RowsOfCreated'
  BY <1>10 DEF NextEntry
<1>11. ASSUME NEW t \in Scanners, LookupEntry(t) PROVE RowsOfCreated'
  BY <1>11 DEF LookupEntry, EntryDone
<1>12. ASSUME NEW t \in Scanners, RewriteManifest(t) PROVE RowsOfCreated'
  BY <1>12 DEF RewriteManifest
<1>13. ASSUME NEW t \in Scanners, WriteManifest(t) PROVE RowsOfCreated'
  BY <1>13 DEF WriteManifest
<1>14. ASSUME NEW t \in Scanners, ListFiles(t) PROVE RowsOfCreated'
  BY <1>14 DEF ListFiles
<1>15. ASSUME NEW t \in Scanners, SnapshotDb(t) PROVE RowsOfCreated'
  BY <1>15 DEF SnapshotDb
<1>16. ASSUME NEW t \in Scanners, NextFile(t) PROVE RowsOfCreated'
  BY <1>16 DEF NextFile
<1>17. ASSUME NEW t \in Scanners, ScanEnds(t) PROVE RowsOfCreated'
  BY <1>17 DEF ScanEnds
<1>18. ASSUME NEW t \in Handlers, OnSegmentSaved(t) PROVE RowsOfCreated'
  BY <1>18 DEF OnSegmentSaved
<1>19. ASSUME NEW t \in Ingesters, CheckFile(t) PROVE RowsOfCreated'
  <2>1. \A u \in Ingesters : u # t => pc'[u] = pc[u] /\ current'[u] = current[u]
    BY <1>19 DEF CheckFile, Done, EntryDone, FileDone, SavedDone
  <2>2. ASSUME pc'[t] \in InsertPcs PROVE current'[t] \subseteq Created
    <3>1. current' = current /\ \A s \in current[t] : OnDisk(s)
      BY <1>19, <2>2 DEF CheckFile, Done, EntryDone, FileDone, SavedDone
    <3> QED
      BY <3>1 DEF OnDisk
  <2>3. rows' = rows
    BY <1>19 DEF CheckFile
  <2> QED
    BY <2>1, <2>2, <2>3
<1>20. ASSUME NEW t \in Ingesters, InsertRow(t) PROVE RowsOfCreated'
  <2>1. current[t] \subseteq Created
    BY <1>20 DEF InsertRow
  <2>2. \A r \in rows' : r.segment \in Created'
    <3>1. rows' = rows \/ rows' = rows \cup {NewRow(s, t) : s \in current[t]}
      BY <1>20 DEF InsertRow
    <3>2. \A s \in current[t] : NewRow(s, t).segment = s /\ s \in Created'
      BY <2>1 DEF NewRow
    <3> QED
      BY <3>1, <3>2
  <2>3. \A u \in Ingesters : pc'[u] \in InsertPcs => pc'[u] = pc[u] /\ current'[u] = current[u]
    BY <1>20 DEF InsertRow, Done, EntryDone, FileDone, SavedDone
  <2> QED
    BY <2>2, <2>3
<1>21. ASSUME NEW t \in Deleters, BeginDelete(t) PROVE RowsOfCreated'
  BY <1>21 DEF BeginDelete
<1>22. ASSUME NEW t \in Deleters, DeleteFile(t) PROVE RowsOfCreated'
  BY <1>22 DEF DeleteFile
<1>23. ASSUME NEW t \in Deleters, DeleteRows(t) PROVE RowsOfCreated'
  BY <1>23 DEF DeleteRows, DeletionEnds
<1>24. ASSUME NEW t \in Deleters, DeletionFails(t) PROVE RowsOfCreated'
  BY <1>24 DEF DeletionFails, DeletionEnds
<1>25. ASSUME NEW r \in rows, DeleteRowOnly(r) PROVE RowsOfCreated'
  BY <1>25 DEF DeleteRowOnly
<1>26. ASSUME UNCHANGED vars PROVE RowsOfCreated'
  BY <1>26
<1> QED
  BY <1>1, <1>2, <1>3, <1>4, <1>5, <1>6, <1>7, <1>8, <1>9, <1>10, <1>11, <1>12,
     <1>13, <1>14, <1>15, <1>16, <1>17, <1>18, <1>19, <1>20, <1>21, <1>22, <1>23, <1>24,
     <1>25, <1>26, Zenon
     DEF Next, ScanStep, ProcessSegment, DeleteStep, Ingesters

\* What a deletion has looked at stays gone.
LEMMA LookedAtNext ==
  TypeOK /\ Finite /\ FilesKept /\ RowsOfCreated /\ LookedAt /\ [Next]_vars => LookedAt'
<1> SUFFICES ASSUME TypeOK, Finite, FilesKept, RowsOfCreated, LookedAt, [Next]_vars,
                    NEW u \in Deleters,
                    NEW x \in rows', x \in chosen'[u], x \notin left'[u]
             PROVE  wav'[x.segment] = "gone"
  BY DEF LookedAt
<1>1. CASE x \in rows /\ x \in chosen[u] /\ x \notin left[u]
  BY <1>1 DEF LookedAt, FilesKept, TypeOK, Row
<1>2. CASE UNCHANGED <<rows, chosen, left>>
  BY <1>1, <1>2
<1>3. CASE AppStops
  BY <1>3 DEF AppStops
<1>4. ASSUME NEW t \in Ingesters, InsertRow(t) PROVE wav'[x.segment] = "gone"
  <2>1. UNCHANGED <<chosen, left>>
    BY <1>4 DEF InsertRow, deletion
  <2>2. ASSUME NEW s \in current[t], x = NewRow(s, t) PROVE FALSE
    <3>1. s \in Segments
      BY DEF TypeOK
    <3>2. x \notin UsedRows
      BY <2>2, <3>1, NewRowIsNew
    <3> QED
      BY <2>1, <3>2 DEF UsedRows
  <2>3. x \in rows
    BY <1>4, <2>2 DEF InsertRow
  <2> QED
    BY <1>1, <2>1, <2>3
<1>5. ASSUME NEW t \in Deleters, BeginDelete(t) PROVE wav'[x.segment] = "gone"
  <2>1. PICK some \in (SUBSET rows) \ {{}} :
          /\ chosen' = [chosen EXCEPT ![t] = some]
          /\ left' = [left EXCEPT ![t] = some]
    BY <1>5 DEF BeginDelete
  <2>2. rows' = rows
    BY <1>5 DEF BeginDelete
  <2> QED
    BY <1>1, <2>1, <2>2 DEF TypeOK
<1>6. ASSUME NEW t \in Deleters, DeleteFile(t) PROVE wav'[x.segment] = "gone"
  <2>1. PICK r \in left[t] :
          /\ left' = [left EXCEPT ![t] = @ \ {r}]
          /\ wav' = IF r \in rows /\ OnDisk(r.segment) THEN [wav EXCEPT ![r.segment] = "gone"]
                                                       ELSE wav
    BY <1>6 DEF DeleteFile
  <2>2. UNCHANGED <<rows, chosen>>
    BY <1>6 DEF DeleteFile
  <2>3. CASE x = r
    <3>1. x \in rows /\ x.segment \in Segments /\ wav[x.segment] # "absent"
      BY <2>2 DEF TypeOK, Row, RowsOfCreated, Created
    <3>2. wav[x.segment] \in WavStates /\ wav \in [Segments -> WavStates]
      BY <3>1 DEF TypeOK, InterfaceTypeOK
    <3> QED
      BY <2>1, <2>3, <3>1, <3>2 DEF OnDisk, WavStates
  <2>4. CASE x # r
    BY <1>1, <2>1, <2>2, <2>4 DEF TypeOK
  <2> QED
    BY <2>3, <2>4
<1>7. ASSUME NEW t \in Deleters, DeleteRows(t) \/ DeletionFails(t)
      PROVE  wav'[x.segment] = "gone"
  <2>1. /\ rows' \subseteq rows
        /\ chosen' = [chosen EXCEPT ![t] = {}]
        /\ left' = [left EXCEPT ![t] = {}]
    BY <1>7 DEF DeleteRows, DeletionFails, DeletionEnds
  <2> QED
    BY <1>1, <2>1 DEF TypeOK
<1>8. ASSUME NEW r \in rows, DeleteRowOnly(r) PROVE wav'[x.segment] = "gone"
  BY <1>1, <1>8 DEF DeleteRowOnly, tasks, deletion
<1> QED
  BY <1>2, <1>3, <1>4, <1>5, <1>6, <1>7, <1>8
  DEF Next, vars, tasks, deletion, ScanStep, ProcessSegment, DeleteStep, Ingesters,
      AppStarts, StartTimer, CancelTimer, Recorder, HomeScan, TimerScan, StartScan,
      ReadManifest, DiscardManifest, NextEntry, LookupEntry, RewriteManifest,
      WriteManifest, ListFiles, SnapshotDb, NextFile, ScanEnds, OnSegmentSaved,
      CheckFile

LEMMA DeletionInvInit == Init => DeletionInv
<1> SUFFICES ASSUME Init PROVE DeletionInv
  OBVIOUS
<1>1. TypeOK /\ Finite
  BY ScansInvInit DEF ScansInv
<1>2. RowsOfCreated
  BY DEF Init, RowsOfCreated, Tasks, Ingesters, InsertPcs
<1>3. LookedAt
  BY DEF Init, LookedAt
<1> QED
  BY <1>1, <1>2, <1>3 DEF DeletionInv

LEMMA DeletionInvNext == DeletionInv /\ [Next]_vars => DeletionInv'
  BY TypeNext, FiniteNext, FilesKeptNext, RowsOfCreatedNext, LookedAtNext DEF DeletionInv

\* However a deletion in the list is interleaved with scans, the recorder and
\* other deletions, it removes a row only when its file is no longer there.
THEOREM ListDeletionIsComplete == Spec => ListDeletionRemovesFile
<1>1. ASSUME DeletionInv, [Next]_vars, NEW t \in Deleters, NEW r \in rows,
             pc[t] = "deleteRows", pc'[t] = "idle", app', r \notin rows'
      PROVE  ~OnDisk(r.segment)
  <2>1. DeleteRows(t)
    <3>1. \/ \E u \in Deleters : DeleteRows(u)
          \/ \E q \in rows : DeleteRowOnly(q)
      BY <1>1
      DEF Next, vars, tasks, deletion, ScanStep, ProcessSegment, DeleteStep, Ingesters,
          AppStarts, AppStops, StartTimer, CancelTimer, Recorder, HomeScan, TimerScan,
          StartScan, ReadManifest, DiscardManifest, NextEntry, LookupEntry,
          RewriteManifest, WriteManifest, ListFiles, SnapshotDb, NextFile, ScanEnds,
          OnSegmentSaved, CheckFile, InsertRow, BeginDelete, DeleteFile, DeletionFails
    <3>2. ASSUME NEW u \in Deleters, DeleteRows(u), u # t PROVE FALSE
      BY <1>1, <3>2
      DEF DeleteRows, DeletionEnds, Goto, DeletionInv, TypeOK, Tasks
    <3>3. ASSUME NEW q \in rows, DeleteRowOnly(q) PROVE FALSE
      BY <1>1, <3>3 DEF DeleteRowOnly, tasks
    <3> QED
      BY <3>1, <3>2, <3>3
  <2>2. r \in chosen[t] /\ left[t] = {}
    BY <1>1, <2>1 DEF DeleteRows, DeletionInv, TypeOK
  <2>3. wav[r.segment] = "gone"
    BY <1>1, <2>2 DEF DeletionInv, LookedAt
  <2> QED
    BY <2>3 DEF OnDisk
<1>2. DeletionInv /\ [Next]_vars
        => [\A t \in Deleters, r \in rows :
              pc[t] = "deleteRows" /\ pc'[t] = "idle" /\ app' /\ r \notin rows'
                => ~OnDisk(r.segment)]_vars
  BY <1>1
<1> QED
  BY <1>2, DeletionInvInit, DeletionInvNext, PTL DEF Spec, ListDeletionRemovesFile

=============================================================================
