----------------------- MODULE BackgroundRecorderProofs -----------------------
(***************************************************************************)
(* Theorems about BackgroundRecorder, for any number of segments and       *)
(* recording threads, with or without failing file operations.             *)
(***************************************************************************)
EXTENDS BackgroundRecorder, TLAPS

-----------------------------------------------------------------------------
(* Type correctness.                                                       *)

\* The two outcomes of convertPcmToWav.
LEMMA ConvertCases ==
  ASSUME TypeOK, NEW t \in Threads, ConvertPcmToWav(t)
  PROVE  /\ pc[t] = "convert"
         /\ currentPcmFile \in Segments
         /\ UNCHANGED <<currentPcmFile, pcm, fret>>
         /\ \A u \in Threads : u # t => pc'[u] = pc[u] /\ file'[u] = file[u]
         /\ \/ /\ IOErrors
               /\ pc'[t] = "deletePcm"
               /\ UNCHANGED <<wav, file, intact, finalizers>>
            \/ /\ pc'[t] = "copy"
               /\ wav' = [wav EXCEPT ![currentPcmFile] = "partial"]
               /\ file'[t] = currentPcmFile
               /\ \A u \in Threads :
                    intact'[u] = (u = t \/ (intact[u] /\ file[u] # currentPcmFile))
               /\ finalizers' = [finalizers EXCEPT ![currentPcmFile] = @ \cup {t}]
<1> USE DEF TypeOK, LabelsOK, DataOK, InterfaceTypeOK, Goto,
        service, mic, segment, rest, files, returns
<1>1. /\ pc[t] = "convert"
      /\ currentPcmFile \in Segments
      /\ UNCHANGED <<currentPcmFile, pcm, fret>>
  BY DEF ConvertPcmToWav
<1>2. CASE /\ IOErrors
           /\ Goto(t, "deletePcm")
           /\ UNCHANGED <<wav, file, intact, finalizers>>
  BY <1>1, <1>2
<1>3. CASE /\ wav' = [wav EXCEPT ![currentPcmFile] = "partial"]
           /\ file' = [file EXCEPT ![t] = currentPcmFile]
           /\ intact' = [u \in Threads |-> IF u = t THEN TRUE
                                     ELSE intact[u] /\ file[u] # currentPcmFile]
           /\ finalizers' = [finalizers EXCEPT ![currentPcmFile] = @ \cup {t}]
           /\ Goto(t, "copy")
  <2>1. \A u \in Threads :
          intact'[u] = (u = t \/ (intact[u] /\ file[u] # currentPcmFile))
    BY <1>3, Zenon
  <2> QED
    BY <1>1, <1>3, <2>1
<1> QED
  BY <1>2, <1>3 DEF ConvertPcmToWav

LEMMA ConvertSteps ==
  ASSUME NEW t \in Threads, ConvertPcmToWav(t)
  PROVE  /\ pc[t] = "convert" /\ (Goto(t, "copy") \/ Goto(t, "deletePcm"))
         /\ UNCHANGED <<manifest, broadcasts, service, segmentBuffer, files, entries, returns>>
BY Zenon DEF ConvertPcmToWav

\* What a flush does to the threads and to the service: it goes on, or it returns, and with
\* onDestroy's call the instance is gone.
LEMMA FlushSteps ==
  ASSUME NEW t \in Threads, FlushSegmentManifest(t) \/ MoveTemp(t)
  PROVE  /\ pc[t] \in {"flush", "move"}
         /\ UNCHANGED <<isRecording, audioRecord, aged, isVoiceActive, currentPcmFile, pcm, ret,
                        overlapped>>
         /\ \/ (Goto(t, "readManifest") \/ Goto(t, "unlink")) /\ UNCHANGED up
            \/ Goto(t, fret[t]) /\ up' = (up /\ fret[t] # "idle")
<1>1. CASE FlushSegmentManifest(t)
  <2>1. /\ pc[t] = "flush" /\ UNCHANGED <<mic, segment, files, returns, history>>
        /\ (Goto(t, "readManifest") /\ UNCHANGED up) \/ FlushReturns(t)
    BY <1>1, Zenon DEF FlushSegmentManifest
  <2>2. UNCHANGED <<isRecording, audioRecord, aged, isVoiceActive, currentPcmFile, pcm, ret,
                    overlapped>>
    BY <2>1 DEF mic, segment, files, returns, history
  <2> QED
    BY <2>1, <2>2, Zenon DEF FlushReturns
<1>2. CASE MoveTemp(t)
  <2>1. /\ pc[t] = "move" /\ UNCHANGED <<mic, segment, pcm, returns, overlapped>>
        /\ (Goto(t, "unlink") /\ UNCHANGED up) \/ FlushReturns(t)
    BY <1>2, Zenon DEF MoveTemp
  <2>2. UNCHANGED <<isRecording, audioRecord, aged, isVoiceActive, currentPcmFile, pcm, ret,
                    overlapped>>
    BY <2>1 DEF mic, segment, returns
  <2> QED
    BY <2>1, <2>2, Zenon DEF FlushReturns
<1> QED
  BY <1>1, <1>2

\* Every step keeps the data well typed.
LEMMA DataNext == TypeOK /\ FileKnown /\ [Next]_vars => DataOK'
<1> SUFFICES ASSUME TypeOK, FileKnown, [Next]_vars PROVE DataOK'
  OBVIOUS
<1> USE ThreadsAssumption, ManifestValues
    DEF TypeOK, DataOK, InterfaceTypeOK, WavStates, Threads,
        vars, interface, service, mic, segment, rest, files,
        locals, returns, history
<1>1. ASSUME StartService PROVE DataOK'
  <2>1. InterfaceTypeOK' /\ UNCHANGED <<pcm, tmp, file, intact, entries, finalizers, flushFailed>>
    BY <1>1 DEF StartService
  <2>2. CASE UNCHANGED <<service, segmentBuffer, overlapped>>
    BY <2>1, <2>2
  <2>3. CASE FreshInstance /\ up' = TRUE
    BY <2>1, <2>3 DEF FreshInstance
  <2> QED
    BY <1>1, <2>2, <2>3 DEF StartService
<1>2. ASSUME OnStartCommand PROVE DataOK'
  <2>1. /\ wav' \in [Segments -> WavStates]
        /\ pcm' \in [Segments -> {"absent", "there", "deleted", "expired"}]
    BY <1>2 DEF OnStartCommand, CleanupOldRecordings
  <2>2. {isRecording, aged, audioRecord, overlapped}' \subseteq BOOLEAN
    BY <1>2 DEF OnStartCommand, StartRecording
  <2> QED
    BY <1>2, <2>1, <2>2 DEF OnStartCommand
<1>3. ASSUME OnStartWithoutDirectory PROVE DataOK'
  BY <1>3 DEF OnStartWithoutDirectory
<1>4. ASSUME OnDestroy PROVE DataOK'
  BY <1>4 DEF OnDestroy
<1>5. ASSUME RestartCallback PROVE DataOK'
  BY <1>5 DEF RestartCallback, StartRecording
<1>6. ASSUME NEW r \in Recorders, LoopTest(r) PROVE DataOK'
  BY <1>6 DEF LoopTest
<1>7. ASSUME NEW r \in Recorders, ReadNothingNew(r) PROVE DataOK'
  BY <1>7 DEF ReadNothingNew
<1>8. ASSUME NEW r \in Recorders, VoiceStarts(r) PROVE DataOK'
  BY <1>8 DEF VoiceStarts
<1>9. ASSUME NEW r \in Recorders, CreateNewSegment(r) PROVE DataOK'
  <2>1. /\ aged' \in BOOLEAN /\ isVoiceActive' \in BOOLEAN /\ currentPcmFile' \in Segments
        /\ pcm' = pcm \/ \E s \in Segments : pcm' = [pcm EXCEPT ![s] = "there"]
    BY <1>9 DEF CreateNewSegment, Fresh
  <2>2. pcm' \in [Segments -> {"absent", "there", "deleted", "expired"}]
    BY <2>1
  <2>3. UNCHANGED <<interface, rest, isRecording, audioRecord, segmentBuffer, tmp, locals, history>>
    BY <1>9 DEF CreateNewSegment
  <2> QED
    BY <2>1, <2>2, <2>3
<1>10. ASSUME NEW r \in Recorders, EndOfSegment(r) PROVE DataOK'
  BY <1>10 DEF EndOfSegment
<1>11. ASSUME NEW r \in Recorders, DeadObject(r) PROVE DataOK'
  BY <1>11 DEF DeadObject
<1>12. ASSUME NEW r \in Recorders, PostRestart(r) PROVE DataOK'
  BY <1>12 DEF PostRestart
<1>13. ASSUME NEW r \in Recorders, NullCurrentPcmFile(r) PROVE DataOK'
  BY <1>13 DEF NullCurrentPcmFile
<1>14. ASSUME NEW t \in Threads, StopRecording(t) PROVE DataOK'
  BY <1>14 DEF StopRecording
<1>15. ASSUME NEW t \in Threads, FinalizeSegment(t) PROVE DataOK'
  BY <1>15 DEF FinalizeSegment
<1>16. ASSUME NEW t \in Threads, ConvertPcmToWav(t) PROVE DataOK'
  <2>1. CASE currentPcmFile # None /\ UNCHANGED <<wav, file, intact, finalizers>>
    BY <1>16, <2>1 DEF ConvertPcmToWav
  <2>2. ASSUME NEW s \in Segments, s = currentPcmFile,
               wav' = [wav EXCEPT ![s] = "partial"],
               file' = [file EXCEPT ![t] = s],
               intact' = [u \in Threads |-> IF u = t THEN TRUE
                                             ELSE intact[u] /\ file[u] # s],
               finalizers' = [finalizers EXCEPT ![s] = @ \cup {t}]
        PROVE  DataOK'
    <3>1. intact' \in [Threads -> BOOLEAN]
      <4>1. ASSUME NEW u \in Threads
            PROVE (IF u = t THEN TRUE ELSE intact[u] /\ file[u] # s) \in BOOLEAN
        OBVIOUS
      <4> QED
        BY <4>1, <2>2
    <3>2. wav' \in [Segments -> WavStates]
      BY <2>2
    <3>3. file' \in [Threads -> Segments \cup {None}]
      BY <2>2
    <3>4. finalizers' \in [Segments -> SUBSET Threads]
      BY <2>2
    <3> QED
      BY <1>16, <3>1, <3>2, <3>3, <3>4 DEF ConvertPcmToWav
  <2> QED
    BY <1>16, <2>1, <2>2 DEF ConvertPcmToWav
<1>17. ASSUME NEW t \in Threads, CopyPcm(t) PROVE DataOK'
  BY <1>17 DEF CopyPcm, FileKnown, Publishing
<1>18. ASSUME NEW t \in Threads, AddToBuffer(t) PROVE DataOK'
  BY <1>18 DEF AddToBuffer, FileKnown, Publishing
<1>19. ASSUME NEW t \in Threads, BroadcastSaved(t) PROVE DataOK'
  BY <1>19 DEF BroadcastSaved, FileKnown, Publishing
<1>20. ASSUME NEW t \in Threads, DeletePcm(t) PROVE DataOK'
  BY <1>20 DEF DeletePcm
<1>21. ASSUME NEW t \in Threads, ResetVoiceActive(t) PROVE DataOK'
  BY <1>21 DEF ResetVoiceActive
<1>22. ASSUME NEW t \in Threads, ForgetPcmFile(t) PROVE DataOK'
  BY <1>22 DEF ForgetPcmFile
<1>23. ASSUME NEW t \in Threads, ReleaseAudio(t) PROVE DataOK'
  BY <1>23 DEF ReleaseAudio
<1>24. ASSUME NEW t \in Threads, FlushSegmentManifest(t) PROVE DataOK'
  BY <1>24, Zenon DEF FlushSegmentManifest, FlushReturns
<1>25. ASSUME NEW t \in Threads, ReadManifest(t) PROVE DataOK'
  BY <1>25 DEF ReadManifest, Entries
<1>26. ASSUME NEW t \in Threads, AddAllOfBuffer(t) PROVE DataOK'
  BY <1>26 DEF AddAllOfBuffer
<1>27. ASSUME NEW t \in Threads, ClearBuffer(t) PROVE DataOK'
  BY <1>27 DEF ClearBuffer
<1>28. ASSUME NEW t \in Threads, WriteTemp(t) PROVE DataOK'
  BY <1>28, Zenon DEF WriteTemp, FlushReturns
<1>29. ASSUME NEW t \in Threads, MoveTemp(t) PROVE DataOK'
  BY <1>29, Zenon DEF MoveTemp, FlushReturns
<1>30. ASSUME NEW t \in Threads, UnlinkManifest(t) PROVE DataOK'
  BY <1>30 DEF UnlinkManifest
<1>31. ASSUME NEW t \in Threads, RenameTemp(t) PROVE DataOK'
  BY <1>31 DEF RenameTemp, FlushReturns
<1>32. ASSUME TimePasses PROVE DataOK'
  BY <1>32 DEF TimePasses
<1>33. ASSUME Crash PROVE DataOK'
  BY <1>33 DEF Crash, FreshInstance, Entries
<1>34. ASSUME UNCHANGED vars PROVE DataOK'
  BY <1>34
<1> QED
  BY <1>1, <1>2, <1>3, <1>4, <1>5, <1>6, <1>7, <1>8, <1>9, <1>10, <1>11, <1>12, <1>13, <1>14, <1>15, <1>16, <1>17, <1>18, <1>19, <1>20, <1>21, <1>22, <1>23, <1>24, <1>25, <1>26, <1>27, <1>28, <1>29, <1>30, <1>31, <1>32, <1>33, <1>34, Zenon
     DEF Next, MainThread, RecordingThread, AnyThread

\* A label of a thread is a label.
LEMMA PcsAreLabels ==
  ASSUME NEW t \in Threads
  PROVE  Pcs(t) \subseteq Labels
  BY DEF Labels

\* The two ways to change a table of labels keep it well typed.
LEMMA MoveOK ==
  ASSUME LabelsOK, NEW t \in Threads,
         NEW l \in Pcs(t),
         NEW r \in Pcs(t) \cap {"loop", "release"},
         NEW f \in Pcs(t) \cap {"broadcast", "reset", "idle"},
         Goto(t, l),
         ret' = [ret EXCEPT ![t] = r],
         fret' = [fret EXCEPT ![t] = f]
  PROVE  LabelsOK'
<1>1. l \in Labels
  BY PcsAreLabels
<1> QED
  BY <1>1 DEF LabelsOK, Goto

\* A thread that goes to one of its labels leaves the labels well typed.
LEMMA GotoOK ==
  ASSUME LabelsOK, NEW t \in Threads, NEW l \in Pcs(t), Goto(t, l),
         UNCHANGED <<ret, fret>>
  PROVE  LabelsOK'
<1>1. l \in Labels
  BY PcsAreLabels
<1> QED
  BY <1>1 DEF LabelsOK, Goto

\* So does a thread that startRecording creates, and its creator.
LEMMA StartRecordingOK ==
  ASSUME LabelsOK, NEW l \in Pcs(Main), StartRecording([pc EXCEPT ![Main] = l]),
         UNCHANGED <<ret, fret>>
  PROVE  LabelsOK'
<1>1. Main \in Threads /\ l \in Labels
  BY PcsAreLabels DEF Threads
<1>2. CASE pc' = [pc EXCEPT ![Main] = l]
  BY <1>1, <1>2 DEF LabelsOK
<1>3. ASSUME NEW r \in Recorders, pc' = [[pc EXCEPT ![Main] = l] EXCEPT ![r] = "loop"]
      PROVE  LabelsOK'
  <2>1. r \in Threads /\ r # Main /\ "loop" \in Pcs(r)
    BY ThreadsAssumption DEF Threads, Pcs
  <2>2. "loop" \in Labels
    BY <2>1, PcsAreLabels
  <2> QED
    BY <1>1, <1>3, <2>1, <2>2 DEF LabelsOK
<1> QED
  BY <1>2, <1>3 DEF StartRecording

\* Every step keeps the labels well typed.
LEMMA LabelsNext == TypeOK /\ [Next]_vars => LabelsOK'
<1> SUFFICES ASSUME LabelsOK, [Next]_vars PROVE LabelsOK'
  BY DEF TypeOK
<1> USE DEF vars, interface, service, mic, segment, rest, files,
        locals, returns, history
<1>0. Main \in Threads /\ Recorders \subseteq Threads /\ Main \notin Recorders
  BY ThreadsAssumption DEF Threads
<1>1. ASSUME StartService PROVE LabelsOK'
  BY <1>0, <1>1, GotoOK DEF StartService, Pcs, SharedPcs
<1>2. ASSUME OnStartCommand PROVE LabelsOK'
  BY <1>0, <1>2, StartRecordingOK DEF OnStartCommand, Pcs
<1>3. ASSUME OnStartWithoutDirectory PROVE LabelsOK'
  BY <1>0, <1>3, GotoOK DEF OnStartWithoutDirectory, Pcs, SharedPcs
<1>4. ASSUME OnDestroy PROVE LabelsOK'
  BY <1>0, <1>4, GotoOK DEF OnDestroy, Pcs, SharedPcs
<1>5. ASSUME RestartCallback PROVE LabelsOK'
  <2>1. CASE UNCHANGED pc
    BY <1>5, <2>1 DEF RestartCallback, LabelsOK
  <2>2. CASE StartRecording(pc)
    <3>1. pc = [pc EXCEPT ![Main] = "idle"]
      BY <1>0, <1>5 DEF RestartCallback, LabelsOK
    <3> QED
      BY <1>5, <2>2, <3>1, StartRecordingOK DEF RestartCallback, Pcs
  <2> QED
    BY <1>5, <2>1, <2>2 DEF RestartCallback
<1>6. ASSUME NEW r \in Recorders, LoopTest(r) PROVE LabelsOK'
  BY <1>0, <1>6, GotoOK DEF LoopTest, Pcs, SharedPcs
<1>7. ASSUME NEW r \in Recorders, ReadNothingNew(r) PROVE LabelsOK'
  BY <1>0, <1>7, GotoOK DEF ReadNothingNew, Pcs, SharedPcs
<1>8. ASSUME NEW r \in Recorders, VoiceStarts(r) PROVE LabelsOK'
  BY <1>0, <1>8, GotoOK DEF VoiceStarts, Pcs, SharedPcs
<1>9. ASSUME NEW r \in Recorders, CreateNewSegment(r) PROVE LabelsOK'
  BY <1>0, <1>9, GotoOK DEF CreateNewSegment, Pcs, SharedPcs
<1>10. ASSUME NEW r \in Recorders, EndOfSegment(r) PROVE LabelsOK'
  <2>1. {"finalize", "loop"} \subseteq Pcs(r)
    BY <1>0 DEF Pcs, SharedPcs
  <2>2. /\ fret' = [fret EXCEPT ![r] = fret[r]]
        /\ fret[r] \in Pcs(r) \cap {"broadcast", "reset", "idle"}
    BY <1>0, <1>10 DEF EndOfSegment, LabelsOK
  <2> QED
    BY <1>0, <1>10, <2>1, <2>2, MoveOK DEF EndOfSegment
<1>11. ASSUME NEW r \in Recorders, DeadObject(r) PROVE LabelsOK'
  BY <1>0, <1>11, GotoOK DEF DeadObject, Pcs, SharedPcs
<1>12. ASSUME NEW r \in Recorders, PostRestart(r) PROVE LabelsOK'
  BY <1>0, <1>12, GotoOK DEF PostRestart, Pcs, SharedPcs
<1>13. ASSUME NEW r \in Recorders, NullCurrentPcmFile(r) PROVE LabelsOK'
  BY <1>0, <1>13, GotoOK DEF NullCurrentPcmFile, Pcs, SharedPcs
<1>14. ASSUME NEW t \in Threads, StopRecording(t) PROVE LabelsOK'
  <2>1. {"finalize", "release"} \subseteq Pcs(t)
    BY DEF Pcs, SharedPcs
  <2>2. /\ fret' = [fret EXCEPT ![t] = fret[t]]
        /\ fret[t] \in Pcs(t) \cap {"broadcast", "reset", "idle"}
    BY <1>14 DEF StopRecording, LabelsOK
  <2> QED
    BY <1>14, <2>1, <2>2, MoveOK DEF StopRecording
<1>15. ASSUME NEW t \in Threads, FinalizeSegment(t) PROVE LabelsOK'
  BY <1>0, <1>15, GotoOK DEF FinalizeSegment, Pcs, SharedPcs, LabelsOK
<1>16. ASSUME NEW t \in Threads, ConvertPcmToWav(t) PROVE LabelsOK'
  BY <1>0, <1>16, GotoOK DEF ConvertPcmToWav, Pcs, SharedPcs
<1>17. ASSUME NEW t \in Threads, CopyPcm(t) PROVE LabelsOK'
  BY <1>0, <1>17, GotoOK DEF CopyPcm, Pcs, SharedPcs
<1>18. ASSUME NEW t \in Threads, AddToBuffer(t) PROVE LabelsOK'
  <2>1. {"broadcast", "flush"} \subseteq Pcs(t)
    BY DEF Pcs, SharedPcs
  <2>2. /\ ret' = [ret EXCEPT ![t] = ret[t]]
        /\ ret[t] \in Pcs(t) \cap {"loop", "release"}
    BY <1>18 DEF AddToBuffer, LabelsOK
  <2> QED
    BY <1>18, <2>1, <2>2, MoveOK DEF AddToBuffer
<1>19. ASSUME NEW t \in Threads, BroadcastSaved(t) PROVE LabelsOK'
  BY <1>0, <1>19, GotoOK DEF BroadcastSaved, Pcs, SharedPcs
<1>20. ASSUME NEW t \in Threads, DeletePcm(t) PROVE LabelsOK'
  <2>1. {"reset", "flush"} \subseteq Pcs(t)
    BY DEF Pcs, SharedPcs
  <2>2. /\ ret' = [ret EXCEPT ![t] = ret[t]]
        /\ ret[t] \in Pcs(t) \cap {"loop", "release"}
    BY <1>20 DEF DeletePcm, LabelsOK
  <2> QED
    BY <1>20, <2>1, <2>2, MoveOK DEF DeletePcm
<1>21. ASSUME NEW t \in Threads, ResetVoiceActive(t) PROVE LabelsOK'
  BY <1>0, <1>21, GotoOK DEF ResetVoiceActive, Pcs, SharedPcs
<1>22. ASSUME NEW t \in Threads, ForgetPcmFile(t) PROVE LabelsOK'
  BY <1>0, <1>22, GotoOK DEF ForgetPcmFile, Pcs, SharedPcs, LabelsOK
<1>23. ASSUME NEW t \in Threads, ReleaseAudio(t) PROVE LabelsOK'
  <2>1. /\ "flush" \in Pcs(t)
        /\ "idle" \in Pcs(Main)
        /\ t # Main => "post" \in Pcs(t)
    BY DEF Pcs, SharedPcs
  <2>2. /\ ret' = [ret EXCEPT ![t] = ret[t]]
        /\ ret[t] \in Pcs(t) \cap {"loop", "release"}
    BY <1>23 DEF ReleaseAudio, LabelsOK
  <2>3. CASE t = Main
    BY <1>23, <2>1, <2>2, <2>3, MoveOK DEF ReleaseAudio
  <2>4. CASE t # Main
    BY <1>23, <2>1, <2>4, GotoOK DEF ReleaseAudio
  <2> QED
    BY <2>3, <2>4
<1>24. ASSUME NEW t \in Threads, FlushSegmentManifest(t) PROVE LabelsOK'
  BY <1>0, <1>24, GotoOK DEF FlushSegmentManifest, Pcs, SharedPcs, FlushReturns, LabelsOK
<1>25. ASSUME NEW t \in Threads, ReadManifest(t) PROVE LabelsOK'
  BY <1>0, <1>25, GotoOK DEF ReadManifest, Pcs, SharedPcs
<1>26. ASSUME NEW t \in Threads, AddAllOfBuffer(t) PROVE LabelsOK'
  BY <1>0, <1>26, GotoOK DEF AddAllOfBuffer, Pcs, SharedPcs
<1>27. ASSUME NEW t \in Threads, ClearBuffer(t) PROVE LabelsOK'
  BY <1>0, <1>27, GotoOK DEF ClearBuffer, Pcs, SharedPcs
<1>28. ASSUME NEW t \in Threads, WriteTemp(t) PROVE LabelsOK'
  BY <1>0, <1>28, GotoOK DEF WriteTemp, Pcs, SharedPcs, FlushReturns, LabelsOK
<1>29. ASSUME NEW t \in Threads, MoveTemp(t) PROVE LabelsOK'
  BY <1>0, <1>29, GotoOK DEF MoveTemp, Pcs, SharedPcs, FlushReturns, LabelsOK
<1>30. ASSUME NEW t \in Threads, UnlinkManifest(t) PROVE LabelsOK'
  BY <1>0, <1>30, GotoOK DEF UnlinkManifest, Pcs, SharedPcs
<1>31. ASSUME NEW t \in Threads, RenameTemp(t) PROVE LabelsOK'
  BY <1>0, <1>31, GotoOK DEF RenameTemp, Pcs, SharedPcs, FlushReturns, LabelsOK
<1>32. ASSUME TimePasses PROVE LabelsOK'
  BY <1>32 DEF TimePasses, LabelsOK
<1>33. ASSUME Crash PROVE LabelsOK'
  <2>1. \A t \in Threads : {"release", "reset"} \subseteq Pcs(t)
    BY DEF Pcs, SharedPcs
  <2>2. \A t \in Threads : (IF t = Main THEN "idle" ELSE "dead") \in Pcs(t)
    BY DEF Pcs
  <2> QED
    BY <1>33, <2>1, <2>2, PcsAreLabels DEF Crash, LabelsOK
<1>34. ASSUME UNCHANGED vars PROVE LabelsOK'
  BY <1>34 DEF LabelsOK
<1> QED
  BY <1>1, <1>2, <1>3, <1>4, <1>5, <1>6, <1>7, <1>8, <1>9, <1>10, <1>11, <1>12,
     <1>13, <1>14, <1>15, <1>16, <1>17, <1>18, <1>19, <1>20, <1>21, <1>22, <1>23, <1>24,
     <1>25, <1>26, <1>27, <1>28, <1>29, <1>30, <1>31, <1>32, <1>33, <1>34, Zenon
     DEF Next, MainThread, RecordingThread, AnyThread

\* A thread that publishes a WAV knows which.
LEMMA FileKnownNext == TypeOK /\ FileKnown /\ [Next]_vars => FileKnown'
<1> SUFFICES ASSUME TypeOK, FileKnown, [Next]_vars PROVE FileKnown'
  OBVIOUS
<1> USE ThreadsAssumption
    DEF TypeOK, LabelsOK, DataOK, FileKnown, Publishing, FlushPcs, Goto, Threads,
        vars, interface, service, mic, segment, rest, files,
        locals, returns, history
<1>1. ASSUME StartService PROVE FileKnown'
  BY <1>1 DEF StartService, FreshInstance
<1>2. ASSUME OnStartCommand PROVE FileKnown'
  BY <1>2 DEF OnStartCommand, StartRecording, CleanupOldRecordings
<1>3. ASSUME OnStartWithoutDirectory PROVE FileKnown'
  BY <1>3 DEF OnStartWithoutDirectory
<1>4. ASSUME OnDestroy PROVE FileKnown'
  BY <1>4 DEF OnDestroy
<1>5. ASSUME RestartCallback PROVE FileKnown'
  BY <1>5 DEF RestartCallback, StartRecording
<1>6. ASSUME NEW r \in Recorders, LoopTest(r) PROVE FileKnown'
  BY <1>6 DEF LoopTest
<1>7. ASSUME NEW r \in Recorders, ReadNothingNew(r) PROVE FileKnown'
  BY <1>7 DEF ReadNothingNew
<1>8. ASSUME NEW r \in Recorders, VoiceStarts(r) PROVE FileKnown'
  BY <1>8 DEF VoiceStarts
<1>9. ASSUME NEW r \in Recorders, CreateNewSegment(r) PROVE FileKnown'
  BY <1>9 DEF CreateNewSegment
<1>10. ASSUME NEW r \in Recorders, EndOfSegment(r) PROVE FileKnown'
  BY <1>10 DEF EndOfSegment
<1>11. ASSUME NEW r \in Recorders, DeadObject(r) PROVE FileKnown'
  BY <1>11 DEF DeadObject
<1>12. ASSUME NEW r \in Recorders, PostRestart(r) PROVE FileKnown'
  BY <1>12 DEF PostRestart
<1>13. ASSUME NEW r \in Recorders, NullCurrentPcmFile(r) PROVE FileKnown'
  BY <1>13 DEF NullCurrentPcmFile
<1>14. ASSUME NEW t \in Threads, StopRecording(t) PROVE FileKnown'
  BY <1>14 DEF StopRecording
<1>15. ASSUME NEW t \in Threads, FinalizeSegment(t) PROVE FileKnown'
  BY <1>15 DEF FinalizeSegment
<1>16. ASSUME NEW t \in Threads, ConvertPcmToWav(t) PROVE FileKnown'
  <2>1. /\ UNCHANGED fret /\ currentPcmFile # None
        /\ \A u \in Threads : u # t => pc'[u] = pc[u] /\ file'[u] = file[u]
        /\ pc'[t] = "deletePcm" \/ (pc'[t] = "copy" /\ file'[t] = currentPcmFile)
    BY <1>16, ConvertCases
  <2> QED
    BY <2>1
<1>17. ASSUME NEW t \in Threads, CopyPcm(t) PROVE FileKnown'
  BY <1>17 DEF CopyPcm
<1>18. ASSUME NEW t \in Threads, AddToBuffer(t) PROVE FileKnown'
  BY <1>18 DEF AddToBuffer
<1>19. ASSUME NEW t \in Threads, BroadcastSaved(t) PROVE FileKnown'
  BY <1>19 DEF BroadcastSaved
<1>20. ASSUME NEW t \in Threads, DeletePcm(t) PROVE FileKnown'
  BY <1>20 DEF DeletePcm
<1>21. ASSUME NEW t \in Threads, ResetVoiceActive(t) PROVE FileKnown'
  BY <1>21 DEF ResetVoiceActive
<1>22. ASSUME NEW t \in Threads, ForgetPcmFile(t) PROVE FileKnown'
  BY <1>22 DEF ForgetPcmFile
<1>23. ASSUME NEW t \in Threads, ReleaseAudio(t) PROVE FileKnown'
  BY <1>23 DEF ReleaseAudio
<1>24. ASSUME NEW t \in Threads, FlushSegmentManifest(t) PROVE FileKnown'
  BY <1>24 DEF FlushSegmentManifest, FlushReturns
<1>25. ASSUME NEW t \in Threads, ReadManifest(t) PROVE FileKnown'
  BY <1>25 DEF ReadManifest
<1>26. ASSUME NEW t \in Threads, AddAllOfBuffer(t) PROVE FileKnown'
  BY <1>26 DEF AddAllOfBuffer
<1>27. ASSUME NEW t \in Threads, ClearBuffer(t) PROVE FileKnown'
  BY <1>27 DEF ClearBuffer
<1>28. ASSUME NEW t \in Threads, WriteTemp(t) PROVE FileKnown'
  BY <1>28 DEF WriteTemp, FlushReturns
<1>29. ASSUME NEW t \in Threads, MoveTemp(t) PROVE FileKnown'
  BY <1>29 DEF MoveTemp, FlushReturns
<1>30. ASSUME NEW t \in Threads, UnlinkManifest(t) PROVE FileKnown'
  BY <1>30 DEF UnlinkManifest
<1>31. ASSUME NEW t \in Threads, RenameTemp(t) PROVE FileKnown'
  BY <1>31 DEF RenameTemp, FlushReturns
<1>32. ASSUME TimePasses PROVE FileKnown'
  BY <1>32 DEF TimePasses
<1>33. ASSUME Crash PROVE FileKnown'
  BY <1>33 DEF Crash, FreshInstance
<1>34. ASSUME UNCHANGED vars PROVE FileKnown'
  BY <1>34
<1> QED
  BY <1>1, <1>2, <1>3, <1>4, <1>5, <1>6, <1>7, <1>8, <1>9, <1>10, <1>11, <1>12,
     <1>13, <1>14, <1>15, <1>16, <1>17, <1>18, <1>19, <1>20, <1>21, <1>22, <1>23, <1>24,
     <1>25, <1>26, <1>27, <1>28, <1>29, <1>30, <1>31, <1>32, <1>33, <1>34, Zenon
     DEF Next, MainThread, RecordingThread, AnyThread

\* Whoever adds to the buffer is on its way to flush it.
LEMMA BufferNext == TypeOK /\ BufferIsFlushed /\ [Next]_vars => BufferIsFlushed'
<1> SUFFICES ASSUME TypeOK, BufferIsFlushed, [Next]_vars PROVE BufferIsFlushed'
  OBVIOUS
<1> USE ThreadsAssumption
    DEF TypeOK, LabelsOK, DataOK, BufferIsFlushed, FlushPcs, Goto, Threads,
        vars, interface, service, mic, segment, rest, files,
        locals, returns, history
<1>1. ASSUME StartService PROVE BufferIsFlushed'
  BY <1>1 DEF StartService, FreshInstance
<1>2. ASSUME OnStartCommand PROVE BufferIsFlushed'
  BY <1>2 DEF OnStartCommand, StartRecording, CleanupOldRecordings
<1>3. ASSUME OnStartWithoutDirectory PROVE BufferIsFlushed'
  BY <1>3 DEF OnStartWithoutDirectory
<1>4. ASSUME OnDestroy PROVE BufferIsFlushed'
  BY <1>4 DEF OnDestroy
<1>5. ASSUME RestartCallback PROVE BufferIsFlushed'
  BY <1>5 DEF RestartCallback, StartRecording
<1>6. ASSUME NEW r \in Recorders, LoopTest(r) PROVE BufferIsFlushed'
  BY <1>6 DEF LoopTest
<1>7. ASSUME NEW r \in Recorders, ReadNothingNew(r) PROVE BufferIsFlushed'
  BY <1>7 DEF ReadNothingNew
<1>8. ASSUME NEW r \in Recorders, VoiceStarts(r) PROVE BufferIsFlushed'
  BY <1>8 DEF VoiceStarts
<1>9. ASSUME NEW r \in Recorders, CreateNewSegment(r) PROVE BufferIsFlushed'
  BY <1>9 DEF CreateNewSegment
<1>10. ASSUME NEW r \in Recorders, EndOfSegment(r) PROVE BufferIsFlushed'
  BY <1>10 DEF EndOfSegment
<1>11. ASSUME NEW r \in Recorders, DeadObject(r) PROVE BufferIsFlushed'
  BY <1>11 DEF DeadObject
<1>12. ASSUME NEW r \in Recorders, PostRestart(r) PROVE BufferIsFlushed'
  BY <1>12 DEF PostRestart
<1>13. ASSUME NEW r \in Recorders, NullCurrentPcmFile(r) PROVE BufferIsFlushed'
  BY <1>13 DEF NullCurrentPcmFile
<1>14. ASSUME NEW t \in Threads, StopRecording(t) PROVE BufferIsFlushed'
  BY <1>14 DEF StopRecording
<1>15. ASSUME NEW t \in Threads, FinalizeSegment(t) PROVE BufferIsFlushed'
  BY <1>15 DEF FinalizeSegment
<1>16. ASSUME NEW t \in Threads, ConvertPcmToWav(t) PROVE BufferIsFlushed'
  BY <1>16 DEF ConvertPcmToWav
<1>17. ASSUME NEW t \in Threads, CopyPcm(t) PROVE BufferIsFlushed'
  BY <1>17 DEF CopyPcm
<1>18. ASSUME NEW t \in Threads, AddToBuffer(t) PROVE BufferIsFlushed'
  BY <1>18 DEF AddToBuffer
<1>19. ASSUME NEW t \in Threads, BroadcastSaved(t) PROVE BufferIsFlushed'
  BY <1>19 DEF BroadcastSaved
<1>20. ASSUME NEW t \in Threads, DeletePcm(t) PROVE BufferIsFlushed'
  BY <1>20 DEF DeletePcm
<1>21. ASSUME NEW t \in Threads, ResetVoiceActive(t) PROVE BufferIsFlushed'
  BY <1>21 DEF ResetVoiceActive
<1>22. ASSUME NEW t \in Threads, ForgetPcmFile(t) PROVE BufferIsFlushed'
  BY <1>22 DEF ForgetPcmFile
<1>23. ASSUME NEW t \in Threads, ReleaseAudio(t) PROVE BufferIsFlushed'
  BY <1>23 DEF ReleaseAudio
<1>24. ASSUME NEW t \in Threads, FlushSegmentManifest(t) PROVE BufferIsFlushed'
  BY <1>24 DEF FlushSegmentManifest, FlushReturns
<1>25. ASSUME NEW t \in Threads, ReadManifest(t) PROVE BufferIsFlushed'
  BY <1>25 DEF ReadManifest
<1>26. ASSUME NEW t \in Threads, AddAllOfBuffer(t) PROVE BufferIsFlushed'
  BY <1>26 DEF AddAllOfBuffer
<1>27. ASSUME NEW t \in Threads, ClearBuffer(t) PROVE BufferIsFlushed'
  BY <1>27 DEF ClearBuffer
<1>28. ASSUME NEW t \in Threads, WriteTemp(t) PROVE BufferIsFlushed'
  BY <1>28 DEF WriteTemp, FlushReturns
<1>29. ASSUME NEW t \in Threads, MoveTemp(t) PROVE BufferIsFlushed'
  BY <1>29 DEF MoveTemp, FlushReturns
<1>30. ASSUME NEW t \in Threads, UnlinkManifest(t) PROVE BufferIsFlushed'
  BY <1>30 DEF UnlinkManifest
<1>31. ASSUME NEW t \in Threads, RenameTemp(t) PROVE BufferIsFlushed'
  BY <1>31 DEF RenameTemp, FlushReturns
<1>32. ASSUME TimePasses PROVE BufferIsFlushed'
  BY <1>32 DEF TimePasses
<1>33. ASSUME Crash PROVE BufferIsFlushed'
  BY <1>33 DEF Crash, FreshInstance
<1>34. ASSUME UNCHANGED vars PROVE BufferIsFlushed'
  BY <1>34
<1> QED
  BY <1>1, <1>2, <1>3, <1>4, <1>5, <1>6, <1>7, <1>8, <1>9, <1>10, <1>11, <1>12,
     <1>13, <1>14, <1>15, <1>16, <1>17, <1>18, <1>19, <1>20, <1>21, <1>22, <1>23, <1>24,
     <1>25, <1>26, <1>27, <1>28, <1>29, <1>30, <1>31, <1>32, <1>33, <1>34, Zenon
     DEF Next, MainThread, RecordingThread, AnyThread

\* Whoever opened the WAV of the open segment is still ending it.
LEMMA OpenedNext == TypeOK /\ FileKnown /\ OpenedWavHasFinisher /\ [Next]_vars => OpenedWavHasFinisher'
<1> SUFFICES ASSUME TypeOK, FileKnown, OpenedWavHasFinisher, [Next]_vars PROVE OpenedWavHasFinisher'
  OBVIOUS
<1> USE ThreadsAssumption
    DEF TypeOK, LabelsOK, DataOK, InterfaceTypeOK, Goto, Threads,
        vars, interface, service, mic, segment, rest, files,
        locals, returns, history,
        FileKnown, Publishing, AfterDelete, FlushPcs, OpenedWavHasFinisher, Fresh
<1>1. ASSUME StartService PROVE OpenedWavHasFinisher'
  BY <1>1 DEF StartService, FreshInstance
<1>2. ASSUME OnStartCommand PROVE OpenedWavHasFinisher'
  BY <1>2 DEF OnStartCommand, StartRecording, CleanupOldRecordings
<1>3. ASSUME OnStartWithoutDirectory PROVE OpenedWavHasFinisher'
  BY <1>3 DEF OnStartWithoutDirectory
<1>4. ASSUME OnDestroy PROVE OpenedWavHasFinisher'
  BY <1>4 DEF OnDestroy
<1>5. ASSUME RestartCallback PROVE OpenedWavHasFinisher'
  BY <1>5 DEF RestartCallback, StartRecording
<1>6. ASSUME NEW r \in Recorders, LoopTest(r) PROVE OpenedWavHasFinisher'
  BY <1>6 DEF LoopTest
<1>7. ASSUME NEW r \in Recorders, ReadNothingNew(r) PROVE OpenedWavHasFinisher'
  BY <1>7 DEF ReadNothingNew
<1>8. ASSUME NEW r \in Recorders, VoiceStarts(r) PROVE OpenedWavHasFinisher'
  BY <1>8 DEF VoiceStarts
<1>9. ASSUME NEW r \in Recorders, CreateNewSegment(r) PROVE OpenedWavHasFinisher'
  BY <1>9 DEF CreateNewSegment
<1>10. ASSUME NEW r \in Recorders, EndOfSegment(r) PROVE OpenedWavHasFinisher'
  BY <1>10 DEF EndOfSegment
<1>11. ASSUME NEW r \in Recorders, DeadObject(r) PROVE OpenedWavHasFinisher'
  BY <1>11 DEF DeadObject
<1>12. ASSUME NEW r \in Recorders, PostRestart(r) PROVE OpenedWavHasFinisher'
  BY <1>12 DEF PostRestart
<1>13. ASSUME NEW r \in Recorders, NullCurrentPcmFile(r) PROVE OpenedWavHasFinisher'
  BY <1>13 DEF NullCurrentPcmFile
<1>14. ASSUME NEW t \in Threads, StopRecording(t) PROVE OpenedWavHasFinisher'
  BY <1>14 DEF StopRecording
<1>15. ASSUME NEW t \in Threads, FinalizeSegment(t) PROVE OpenedWavHasFinisher'
  BY <1>15 DEF FinalizeSegment
<1>16. ASSUME NEW t \in Threads, ConvertPcmToWav(t) PROVE OpenedWavHasFinisher'
  <2>1. CASE UNCHANGED <<wav, finalizers>> /\ Goto(t, "deletePcm")
    BY <1>16, <2>1 DEF ConvertPcmToWav
  <2>2. CASE /\ finalizers' = [finalizers EXCEPT ![currentPcmFile] = @ \cup {t}]
             /\ Goto(t, "copy")
    <3>1. t \in finalizers'[currentPcmFile'] /\ Publishing(t)'
      BY <1>16, <2>2 DEF ConvertPcmToWav
    <3> QED
      BY <3>1
  <2> QED
    BY <1>16, <2>1, <2>2 DEF ConvertPcmToWav
<1>17. ASSUME NEW t \in Threads, CopyPcm(t) PROVE OpenedWavHasFinisher'
  BY <1>17 DEF CopyPcm
<1>18. ASSUME NEW t \in Threads, AddToBuffer(t) PROVE OpenedWavHasFinisher'
  BY <1>18 DEF AddToBuffer
<1>19. ASSUME NEW t \in Threads, BroadcastSaved(t) PROVE OpenedWavHasFinisher'
  BY <1>19 DEF BroadcastSaved
<1>20. ASSUME NEW t \in Threads, DeletePcm(t) PROVE OpenedWavHasFinisher'
  BY <1>20 DEF DeletePcm
<1>21. ASSUME NEW t \in Threads, ResetVoiceActive(t) PROVE OpenedWavHasFinisher'
  BY <1>21 DEF ResetVoiceActive
<1>22. ASSUME NEW t \in Threads, ForgetPcmFile(t) PROVE OpenedWavHasFinisher'
  BY <1>22 DEF ForgetPcmFile
<1>23. ASSUME NEW t \in Threads, ReleaseAudio(t) PROVE OpenedWavHasFinisher'
  BY <1>23 DEF ReleaseAudio
<1>24. ASSUME NEW t \in Threads, FlushSegmentManifest(t) PROVE OpenedWavHasFinisher'
  BY <1>24 DEF FlushSegmentManifest, FlushReturns
<1>25. ASSUME NEW t \in Threads, ReadManifest(t) PROVE OpenedWavHasFinisher'
  BY <1>25 DEF ReadManifest
<1>26. ASSUME NEW t \in Threads, AddAllOfBuffer(t) PROVE OpenedWavHasFinisher'
  BY <1>26 DEF AddAllOfBuffer
<1>27. ASSUME NEW t \in Threads, ClearBuffer(t) PROVE OpenedWavHasFinisher'
  BY <1>27 DEF ClearBuffer
<1>28. ASSUME NEW t \in Threads, WriteTemp(t) PROVE OpenedWavHasFinisher'
  BY <1>28 DEF WriteTemp, FlushReturns
<1>29. ASSUME NEW t \in Threads, MoveTemp(t) PROVE OpenedWavHasFinisher'
  BY <1>29 DEF MoveTemp, FlushReturns
<1>30. ASSUME NEW t \in Threads, UnlinkManifest(t) PROVE OpenedWavHasFinisher'
  BY <1>30 DEF UnlinkManifest
<1>31. ASSUME NEW t \in Threads, RenameTemp(t) PROVE OpenedWavHasFinisher'
  BY <1>31 DEF RenameTemp, FlushReturns
<1>32. ASSUME TimePasses PROVE OpenedWavHasFinisher'
  BY <1>32 DEF TimePasses
<1>33. ASSUME Crash PROVE OpenedWavHasFinisher'
  BY <1>33 DEF Crash, FreshInstance
<1>34. ASSUME UNCHANGED vars PROVE OpenedWavHasFinisher'
  BY <1>34
<1> QED
  BY <1>1, <1>2, <1>3, <1>4, <1>5, <1>6, <1>7, <1>8, <1>9, <1>10, <1>11, <1>12,
     <1>13, <1>14, <1>15, <1>16, <1>17, <1>18, <1>19, <1>20, <1>21, <1>22, <1>23, <1>24,
     <1>25, <1>26, <1>27, <1>28, <1>29, <1>30, <1>31, <1>32, <1>33, <1>34, Zenon
     DEF Next, MainThread, RecordingThread, AnyThread

\* Whoever deleted the PCM file of the open segment is still ending it.
LEMMA DeletedNext == TypeOK /\ DeletedPcmHasFinisher /\ [Next]_vars => DeletedPcmHasFinisher'
<1> SUFFICES ASSUME TypeOK, DeletedPcmHasFinisher, [Next]_vars PROVE DeletedPcmHasFinisher'
  OBVIOUS
<1> USE ThreadsAssumption
    DEF TypeOK, LabelsOK, DataOK, InterfaceTypeOK, Goto, Threads,
        vars, interface, service, mic, segment, rest, files,
        locals, returns, history,
        FileKnown, Publishing, AfterDelete, FlushPcs, DeletedPcmHasFinisher, Fresh
<1>1. ASSUME StartService PROVE DeletedPcmHasFinisher'
  BY <1>1 DEF StartService, FreshInstance
<1>2. ASSUME OnStartCommand PROVE DeletedPcmHasFinisher'
  BY <1>2 DEF OnStartCommand, StartRecording, CleanupOldRecordings
<1>3. ASSUME OnStartWithoutDirectory PROVE DeletedPcmHasFinisher'
  BY <1>3 DEF OnStartWithoutDirectory
<1>4. ASSUME OnDestroy PROVE DeletedPcmHasFinisher'
  BY <1>4 DEF OnDestroy
<1>5. ASSUME RestartCallback PROVE DeletedPcmHasFinisher'
  BY <1>5 DEF RestartCallback, StartRecording
<1>6. ASSUME NEW r \in Recorders, LoopTest(r) PROVE DeletedPcmHasFinisher'
  BY <1>6 DEF LoopTest
<1>7. ASSUME NEW r \in Recorders, ReadNothingNew(r) PROVE DeletedPcmHasFinisher'
  BY <1>7 DEF ReadNothingNew
<1>8. ASSUME NEW r \in Recorders, VoiceStarts(r) PROVE DeletedPcmHasFinisher'
  BY <1>8 DEF VoiceStarts
<1>9. ASSUME NEW r \in Recorders, CreateNewSegment(r) PROVE DeletedPcmHasFinisher'
  BY <1>9 DEF CreateNewSegment
<1>10. ASSUME NEW r \in Recorders, EndOfSegment(r) PROVE DeletedPcmHasFinisher'
  BY <1>10 DEF EndOfSegment
<1>11. ASSUME NEW r \in Recorders, DeadObject(r) PROVE DeletedPcmHasFinisher'
  BY <1>11 DEF DeadObject
<1>12. ASSUME NEW r \in Recorders, PostRestart(r) PROVE DeletedPcmHasFinisher'
  BY <1>12 DEF PostRestart
<1>13. ASSUME NEW r \in Recorders, NullCurrentPcmFile(r) PROVE DeletedPcmHasFinisher'
  BY <1>13 DEF NullCurrentPcmFile
<1>14. ASSUME NEW t \in Threads, StopRecording(t) PROVE DeletedPcmHasFinisher'
  BY <1>14 DEF StopRecording
<1>15. ASSUME NEW t \in Threads, FinalizeSegment(t) PROVE DeletedPcmHasFinisher'
  BY <1>15 DEF FinalizeSegment
<1>16. ASSUME NEW t \in Threads, ConvertPcmToWav(t) PROVE DeletedPcmHasFinisher'
  <2>1. /\ UNCHANGED <<currentPcmFile, pcm, fret>>
        /\ pc[t] = "convert"
        /\ \A u \in Threads : u # t => pc'[u] = pc[u]
        /\ \A s \in Segments : finalizers[s] \subseteq finalizers'[s]
    <3>1. CASE UNCHANGED finalizers /\ Goto(t, "deletePcm")
      BY <1>16, <3>1 DEF ConvertPcmToWav
    <3>2. CASE /\ finalizers' = [finalizers EXCEPT ![currentPcmFile] = @ \cup {t}]
               /\ Goto(t, "copy")
      BY <1>16, <3>2 DEF ConvertPcmToWav
    <3> QED
      BY <1>16, <3>1, <3>2 DEF ConvertPcmToWav
  <2>2. currentPcmFile # None => currentPcmFile \in Segments
    OBVIOUS
  <2>3. ASSUME NEW u \in Threads, AfterDelete(u) PROVE AfterDelete(u)'
    BY <2>1, <2>3
  <2> QED
    BY <2>1, <2>2, <2>3
<1>17. ASSUME NEW t \in Threads, CopyPcm(t) PROVE DeletedPcmHasFinisher'
  BY <1>17 DEF CopyPcm
<1>18. ASSUME NEW t \in Threads, AddToBuffer(t) PROVE DeletedPcmHasFinisher'
  BY <1>18 DEF AddToBuffer
<1>19. ASSUME NEW t \in Threads, BroadcastSaved(t) PROVE DeletedPcmHasFinisher'
  BY <1>19 DEF BroadcastSaved
<1>20. ASSUME NEW t \in Threads, DeletePcm(t) PROVE DeletedPcmHasFinisher'
  BY <1>20 DEF DeletePcm
<1>21. ASSUME NEW t \in Threads, ResetVoiceActive(t) PROVE DeletedPcmHasFinisher'
  BY <1>21 DEF ResetVoiceActive
<1>22. ASSUME NEW t \in Threads, ForgetPcmFile(t) PROVE DeletedPcmHasFinisher'
  BY <1>22 DEF ForgetPcmFile
<1>23. ASSUME NEW t \in Threads, ReleaseAudio(t) PROVE DeletedPcmHasFinisher'
  BY <1>23 DEF ReleaseAudio
<1>24. ASSUME NEW t \in Threads, FlushSegmentManifest(t) PROVE DeletedPcmHasFinisher'
  BY <1>24 DEF FlushSegmentManifest, FlushReturns
<1>25. ASSUME NEW t \in Threads, ReadManifest(t) PROVE DeletedPcmHasFinisher'
  BY <1>25 DEF ReadManifest
<1>26. ASSUME NEW t \in Threads, AddAllOfBuffer(t) PROVE DeletedPcmHasFinisher'
  BY <1>26 DEF AddAllOfBuffer
<1>27. ASSUME NEW t \in Threads, ClearBuffer(t) PROVE DeletedPcmHasFinisher'
  BY <1>27 DEF ClearBuffer
<1>28. ASSUME NEW t \in Threads, WriteTemp(t) PROVE DeletedPcmHasFinisher'
  BY <1>28 DEF WriteTemp, FlushReturns
<1>29. ASSUME NEW t \in Threads, MoveTemp(t) PROVE DeletedPcmHasFinisher'
  BY <1>29 DEF MoveTemp, FlushReturns
<1>30. ASSUME NEW t \in Threads, UnlinkManifest(t) PROVE DeletedPcmHasFinisher'
  BY <1>30 DEF UnlinkManifest
<1>31. ASSUME NEW t \in Threads, RenameTemp(t) PROVE DeletedPcmHasFinisher'
  BY <1>31 DEF RenameTemp, FlushReturns
<1>32. ASSUME TimePasses PROVE DeletedPcmHasFinisher'
  BY <1>32 DEF TimePasses
<1>33. ASSUME Crash PROVE DeletedPcmHasFinisher'
  BY <1>33 DEF Crash, FreshInstance
<1>34. ASSUME UNCHANGED vars PROVE DeletedPcmHasFinisher'
  BY <1>34
<1> QED
  BY <1>1, <1>2, <1>3, <1>4, <1>5, <1>6, <1>7, <1>8, <1>9, <1>10, <1>11, <1>12,
     <1>13, <1>14, <1>15, <1>16, <1>17, <1>18, <1>19, <1>20, <1>21, <1>22, <1>23, <1>24,
     <1>25, <1>26, <1>27, <1>28, <1>29, <1>30, <1>31, <1>32, <1>33, <1>34, Zenon
     DEF Next, MainThread, RecordingThread, AnyThread

\* A finished WAV is opened again only by a second thread.
LEMMA FinishedNext == TypeOK /\ OpenedWavHasFinisher /\ [Next]_vars => \A s \in Segments : wav[s] = "complete" /\ Lone(s)' => wav'[s] # "partial"
<1> SUFFICES ASSUME TypeOK, OpenedWavHasFinisher, [Next]_vars PROVE \A s \in Segments : wav[s] = "complete" /\ Lone(s)' => wav'[s] # "partial"
  OBVIOUS
<1> USE ThreadsAssumption
    DEF TypeOK, LabelsOK, DataOK, InterfaceTypeOK, Goto, Threads,
        vars, interface, service, mic, segment, rest, files,
        locals, returns, history,
        FileKnown, Publishing, AfterDelete, FlushPcs, OpenedWavHasFinisher, Lone, Created, WavStates
<1>1. ASSUME StartService PROVE \A s \in Segments : wav[s] = "complete" /\ Lone(s)' => wav'[s] # "partial"
  BY <1>1 DEF StartService, FreshInstance
<1>2. ASSUME OnStartCommand PROVE \A s \in Segments : wav[s] = "complete" /\ Lone(s)' => wav'[s] # "partial"
  BY <1>2 DEF OnStartCommand, StartRecording, CleanupOldRecordings
<1>3. ASSUME OnStartWithoutDirectory PROVE \A s \in Segments : wav[s] = "complete" /\ Lone(s)' => wav'[s] # "partial"
  BY <1>3 DEF OnStartWithoutDirectory
<1>4. ASSUME OnDestroy PROVE \A s \in Segments : wav[s] = "complete" /\ Lone(s)' => wav'[s] # "partial"
  BY <1>4 DEF OnDestroy
<1>5. ASSUME RestartCallback PROVE \A s \in Segments : wav[s] = "complete" /\ Lone(s)' => wav'[s] # "partial"
  BY <1>5 DEF RestartCallback, StartRecording
<1>6. ASSUME NEW r \in Recorders, LoopTest(r) PROVE \A s \in Segments : wav[s] = "complete" /\ Lone(s)' => wav'[s] # "partial"
  BY <1>6 DEF LoopTest
<1>7. ASSUME NEW r \in Recorders, ReadNothingNew(r) PROVE \A s \in Segments : wav[s] = "complete" /\ Lone(s)' => wav'[s] # "partial"
  BY <1>7 DEF ReadNothingNew
<1>8. ASSUME NEW r \in Recorders, VoiceStarts(r) PROVE \A s \in Segments : wav[s] = "complete" /\ Lone(s)' => wav'[s] # "partial"
  BY <1>8 DEF VoiceStarts
<1>9. ASSUME NEW r \in Recorders, CreateNewSegment(r) PROVE \A s \in Segments : wav[s] = "complete" /\ Lone(s)' => wav'[s] # "partial"
  BY <1>9 DEF CreateNewSegment
<1>10. ASSUME NEW r \in Recorders, EndOfSegment(r) PROVE \A s \in Segments : wav[s] = "complete" /\ Lone(s)' => wav'[s] # "partial"
  BY <1>10 DEF EndOfSegment
<1>11. ASSUME NEW r \in Recorders, DeadObject(r) PROVE \A s \in Segments : wav[s] = "complete" /\ Lone(s)' => wav'[s] # "partial"
  BY <1>11 DEF DeadObject
<1>12. ASSUME NEW r \in Recorders, PostRestart(r) PROVE \A s \in Segments : wav[s] = "complete" /\ Lone(s)' => wav'[s] # "partial"
  BY <1>12 DEF PostRestart
<1>13. ASSUME NEW r \in Recorders, NullCurrentPcmFile(r) PROVE \A s \in Segments : wav[s] = "complete" /\ Lone(s)' => wav'[s] # "partial"
  BY <1>13 DEF NullCurrentPcmFile
<1>14. ASSUME NEW t \in Threads, StopRecording(t) PROVE \A s \in Segments : wav[s] = "complete" /\ Lone(s)' => wav'[s] # "partial"
  BY <1>14 DEF StopRecording
<1>15. ASSUME NEW t \in Threads, FinalizeSegment(t) PROVE \A s \in Segments : wav[s] = "complete" /\ Lone(s)' => wav'[s] # "partial"
  BY <1>15 DEF FinalizeSegment
<1>16. ASSUME NEW t \in Threads, ConvertPcmToWav(t) PROVE \A s \in Segments : wav[s] = "complete" /\ Lone(s)' => wav'[s] # "partial"
  <2> SUFFICES ASSUME NEW s \in Segments, wav[s] = "complete", Lone(s)', wav'[s] = "partial"
               PROVE  FALSE
    OBVIOUS
  <2>1. /\ s = currentPcmFile
        /\ pc[t] = "convert"
        /\ finalizers' = [finalizers EXCEPT ![s] = @ \cup {t}]
    BY <1>16, ConvertCases
  <2>2. PICK u \in finalizers[s] :
          Publishing(u) \/ pc[u] = "deletePcm" \/ AfterDelete(u)
    BY <2>1
  <2>3. u \in finalizers'[s] /\ t \in finalizers'[s]
    BY <2>1
  <2>4. u = t
    BY <2>3
  <2> QED
    BY <2>1, <2>2, <2>4
<1>17. ASSUME NEW t \in Threads, CopyPcm(t) PROVE \A s \in Segments : wav[s] = "complete" /\ Lone(s)' => wav'[s] # "partial"
  BY <1>17 DEF CopyPcm
<1>18. ASSUME NEW t \in Threads, AddToBuffer(t) PROVE \A s \in Segments : wav[s] = "complete" /\ Lone(s)' => wav'[s] # "partial"
  BY <1>18 DEF AddToBuffer
<1>19. ASSUME NEW t \in Threads, BroadcastSaved(t) PROVE \A s \in Segments : wav[s] = "complete" /\ Lone(s)' => wav'[s] # "partial"
  BY <1>19 DEF BroadcastSaved
<1>20. ASSUME NEW t \in Threads, DeletePcm(t) PROVE \A s \in Segments : wav[s] = "complete" /\ Lone(s)' => wav'[s] # "partial"
  BY <1>20 DEF DeletePcm
<1>21. ASSUME NEW t \in Threads, ResetVoiceActive(t) PROVE \A s \in Segments : wav[s] = "complete" /\ Lone(s)' => wav'[s] # "partial"
  BY <1>21 DEF ResetVoiceActive
<1>22. ASSUME NEW t \in Threads, ForgetPcmFile(t) PROVE \A s \in Segments : wav[s] = "complete" /\ Lone(s)' => wav'[s] # "partial"
  BY <1>22 DEF ForgetPcmFile
<1>23. ASSUME NEW t \in Threads, ReleaseAudio(t) PROVE \A s \in Segments : wav[s] = "complete" /\ Lone(s)' => wav'[s] # "partial"
  BY <1>23 DEF ReleaseAudio
<1>24. ASSUME NEW t \in Threads, FlushSegmentManifest(t) PROVE \A s \in Segments : wav[s] = "complete" /\ Lone(s)' => wav'[s] # "partial"
  BY <1>24 DEF FlushSegmentManifest, FlushReturns
<1>25. ASSUME NEW t \in Threads, ReadManifest(t) PROVE \A s \in Segments : wav[s] = "complete" /\ Lone(s)' => wav'[s] # "partial"
  BY <1>25 DEF ReadManifest
<1>26. ASSUME NEW t \in Threads, AddAllOfBuffer(t) PROVE \A s \in Segments : wav[s] = "complete" /\ Lone(s)' => wav'[s] # "partial"
  BY <1>26 DEF AddAllOfBuffer
<1>27. ASSUME NEW t \in Threads, ClearBuffer(t) PROVE \A s \in Segments : wav[s] = "complete" /\ Lone(s)' => wav'[s] # "partial"
  BY <1>27 DEF ClearBuffer
<1>28. ASSUME NEW t \in Threads, WriteTemp(t) PROVE \A s \in Segments : wav[s] = "complete" /\ Lone(s)' => wav'[s] # "partial"
  BY <1>28 DEF WriteTemp, FlushReturns
<1>29. ASSUME NEW t \in Threads, MoveTemp(t) PROVE \A s \in Segments : wav[s] = "complete" /\ Lone(s)' => wav'[s] # "partial"
  BY <1>29 DEF MoveTemp, FlushReturns
<1>30. ASSUME NEW t \in Threads, UnlinkManifest(t) PROVE \A s \in Segments : wav[s] = "complete" /\ Lone(s)' => wav'[s] # "partial"
  BY <1>30 DEF UnlinkManifest
<1>31. ASSUME NEW t \in Threads, RenameTemp(t) PROVE \A s \in Segments : wav[s] = "complete" /\ Lone(s)' => wav'[s] # "partial"
  BY <1>31 DEF RenameTemp, FlushReturns
<1>32. ASSUME TimePasses PROVE \A s \in Segments : wav[s] = "complete" /\ Lone(s)' => wav'[s] # "partial"
  BY <1>32 DEF TimePasses
<1>33. ASSUME Crash PROVE \A s \in Segments : wav[s] = "complete" /\ Lone(s)' => wav'[s] # "partial"
  BY <1>33 DEF Crash, FreshInstance
<1>34. ASSUME UNCHANGED vars PROVE \A s \in Segments : wav[s] = "complete" /\ Lone(s)' => wav'[s] # "partial"
  BY <1>34
<1> QED
  BY <1>1, <1>2, <1>3, <1>4, <1>5, <1>6, <1>7, <1>8, <1>9, <1>10, <1>11, <1>12,
     <1>13, <1>14, <1>15, <1>16, <1>17, <1>18, <1>19, <1>20, <1>21, <1>22, <1>23, <1>24,
     <1>25, <1>26, <1>27, <1>28, <1>29, <1>30, <1>31, <1>32, <1>33, <1>34, Zenon
     DEF Next, MainThread, RecordingThread, AnyThread

\* While file operations succeed an open segment has its PCM file.
LEMMA OpenNext == ~IOErrors /\ TypeOK /\ OpenSegmentHasPcm /\ [Next]_vars => OpenSegmentHasPcm'
<1> SUFFICES ASSUME ~IOErrors, TypeOK, OpenSegmentHasPcm, [Next]_vars PROVE OpenSegmentHasPcm'
  OBVIOUS
<1> USE ThreadsAssumption
    DEF TypeOK, LabelsOK, DataOK, InterfaceTypeOK, Goto, Threads,
        vars, interface, service, mic, segment, rest, files,
        locals, returns, history,
        FileKnown, Publishing, AfterDelete, FlushPcs, OpenSegmentHasPcm, Fresh
<1>1. ASSUME StartService PROVE OpenSegmentHasPcm'
  BY <1>1 DEF StartService, FreshInstance
<1>2. ASSUME OnStartCommand PROVE OpenSegmentHasPcm'
  BY <1>2 DEF OnStartCommand, StartRecording, CleanupOldRecordings
<1>3. ASSUME OnStartWithoutDirectory PROVE OpenSegmentHasPcm'
  BY <1>3 DEF OnStartWithoutDirectory
<1>4. ASSUME OnDestroy PROVE OpenSegmentHasPcm'
  BY <1>4 DEF OnDestroy
<1>5. ASSUME RestartCallback PROVE OpenSegmentHasPcm'
  BY <1>5 DEF RestartCallback, StartRecording
<1>6. ASSUME NEW r \in Recorders, LoopTest(r) PROVE OpenSegmentHasPcm'
  BY <1>6 DEF LoopTest
<1>7. ASSUME NEW r \in Recorders, ReadNothingNew(r) PROVE OpenSegmentHasPcm'
  BY <1>7 DEF ReadNothingNew
<1>8. ASSUME NEW r \in Recorders, VoiceStarts(r) PROVE OpenSegmentHasPcm'
  BY <1>8 DEF VoiceStarts
<1>9. ASSUME NEW r \in Recorders, CreateNewSegment(r) PROVE OpenSegmentHasPcm'
  BY <1>9 DEF CreateNewSegment
<1>10. ASSUME NEW r \in Recorders, EndOfSegment(r) PROVE OpenSegmentHasPcm'
  BY <1>10 DEF EndOfSegment
<1>11. ASSUME NEW r \in Recorders, DeadObject(r) PROVE OpenSegmentHasPcm'
  BY <1>11 DEF DeadObject
<1>12. ASSUME NEW r \in Recorders, PostRestart(r) PROVE OpenSegmentHasPcm'
  BY <1>12 DEF PostRestart
<1>13. ASSUME NEW r \in Recorders, NullCurrentPcmFile(r) PROVE OpenSegmentHasPcm'
  BY <1>13 DEF NullCurrentPcmFile
<1>14. ASSUME NEW t \in Threads, StopRecording(t) PROVE OpenSegmentHasPcm'
  BY <1>14 DEF StopRecording
<1>15. ASSUME NEW t \in Threads, FinalizeSegment(t) PROVE OpenSegmentHasPcm'
  BY <1>15 DEF FinalizeSegment
<1>16. ASSUME NEW t \in Threads, ConvertPcmToWav(t) PROVE OpenSegmentHasPcm'
  BY <1>16 DEF ConvertPcmToWav
<1>17. ASSUME NEW t \in Threads, CopyPcm(t) PROVE OpenSegmentHasPcm'
  BY <1>17 DEF CopyPcm
<1>18. ASSUME NEW t \in Threads, AddToBuffer(t) PROVE OpenSegmentHasPcm'
  BY <1>18 DEF AddToBuffer
<1>19. ASSUME NEW t \in Threads, BroadcastSaved(t) PROVE OpenSegmentHasPcm'
  BY <1>19 DEF BroadcastSaved
<1>20. ASSUME NEW t \in Threads, DeletePcm(t) PROVE OpenSegmentHasPcm'
  BY <1>20 DEF DeletePcm
<1>21. ASSUME NEW t \in Threads, ResetVoiceActive(t) PROVE OpenSegmentHasPcm'
  BY <1>21 DEF ResetVoiceActive
<1>22. ASSUME NEW t \in Threads, ForgetPcmFile(t) PROVE OpenSegmentHasPcm'
  BY <1>22 DEF ForgetPcmFile
<1>23. ASSUME NEW t \in Threads, ReleaseAudio(t) PROVE OpenSegmentHasPcm'
  BY <1>23 DEF ReleaseAudio
<1>24. ASSUME NEW t \in Threads, FlushSegmentManifest(t) PROVE OpenSegmentHasPcm'
  BY <1>24 DEF FlushSegmentManifest, FlushReturns
<1>25. ASSUME NEW t \in Threads, ReadManifest(t) PROVE OpenSegmentHasPcm'
  BY <1>25 DEF ReadManifest
<1>26. ASSUME NEW t \in Threads, AddAllOfBuffer(t) PROVE OpenSegmentHasPcm'
  BY <1>26 DEF AddAllOfBuffer
<1>27. ASSUME NEW t \in Threads, ClearBuffer(t) PROVE OpenSegmentHasPcm'
  BY <1>27 DEF ClearBuffer
<1>28. ASSUME NEW t \in Threads, WriteTemp(t) PROVE OpenSegmentHasPcm'
  BY <1>28 DEF WriteTemp, FlushReturns
<1>29. ASSUME NEW t \in Threads, MoveTemp(t) PROVE OpenSegmentHasPcm'
  BY <1>29 DEF MoveTemp, FlushReturns
<1>30. ASSUME NEW t \in Threads, UnlinkManifest(t) PROVE OpenSegmentHasPcm'
  BY <1>30 DEF UnlinkManifest
<1>31. ASSUME NEW t \in Threads, RenameTemp(t) PROVE OpenSegmentHasPcm'
  BY <1>31 DEF RenameTemp, FlushReturns
<1>32. ASSUME TimePasses PROVE OpenSegmentHasPcm'
  BY <1>32 DEF TimePasses
<1>33. ASSUME Crash PROVE OpenSegmentHasPcm'
  BY <1>33 DEF Crash, FreshInstance
<1>34. ASSUME UNCHANGED vars PROVE OpenSegmentHasPcm'
  BY <1>34
<1> QED
  BY <1>1, <1>2, <1>3, <1>4, <1>5, <1>6, <1>7, <1>8, <1>9, <1>10, <1>11, <1>12,
     <1>13, <1>14, <1>15, <1>16, <1>17, <1>18, <1>19, <1>20, <1>21, <1>22, <1>23, <1>24,
     <1>25, <1>26, <1>27, <1>28, <1>29, <1>30, <1>31, <1>32, <1>33, <1>34, Zenon
     DEF Next, MainThread, RecordingThread, AnyThread

\* While file operations succeed, the one thread that ends the open segment and
\* left its WAV partial is about to write it.
LEMMA PartialNext == ~IOErrors /\ TypeOK /\ DeletedPcmHasFinisher /\ OpenSegmentHasPcm /\ PartialWavHasWriter /\ [Next]_vars => PartialWavHasWriter'
<1> SUFFICES ASSUME ~IOErrors, TypeOK, DeletedPcmHasFinisher, OpenSegmentHasPcm, PartialWavHasWriter, [Next]_vars PROVE PartialWavHasWriter'
  OBVIOUS
<1> USE ThreadsAssumption
    DEF TypeOK, LabelsOK, DataOK, InterfaceTypeOK, Goto, Threads,
        vars, interface, service, mic, segment, rest, files,
        locals, returns, history,
        FileKnown, Publishing, AfterDelete, FlushPcs, DeletedPcmHasFinisher, OpenSegmentHasPcm,
        PartialWavHasWriter, Lone, Fresh
<1>1. ASSUME StartService PROVE PartialWavHasWriter'
  BY <1>1 DEF StartService, FreshInstance
<1>2. ASSUME OnStartCommand PROVE PartialWavHasWriter'
  BY <1>2 DEF OnStartCommand, StartRecording, CleanupOldRecordings
<1>3. ASSUME OnStartWithoutDirectory PROVE PartialWavHasWriter'
  BY <1>3 DEF OnStartWithoutDirectory
<1>4. ASSUME OnDestroy PROVE PartialWavHasWriter'
  BY <1>4 DEF OnDestroy
<1>5. ASSUME RestartCallback PROVE PartialWavHasWriter'
  BY <1>5 DEF RestartCallback, StartRecording
<1>6. ASSUME NEW r \in Recorders, LoopTest(r) PROVE PartialWavHasWriter'
  BY <1>6 DEF LoopTest
<1>7. ASSUME NEW r \in Recorders, ReadNothingNew(r) PROVE PartialWavHasWriter'
  BY <1>7 DEF ReadNothingNew
<1>8. ASSUME NEW r \in Recorders, VoiceStarts(r) PROVE PartialWavHasWriter'
  BY <1>8 DEF VoiceStarts
<1>9. ASSUME NEW r \in Recorders, CreateNewSegment(r) PROVE PartialWavHasWriter'
  BY <1>9 DEF CreateNewSegment
<1>10. ASSUME NEW r \in Recorders, EndOfSegment(r) PROVE PartialWavHasWriter'
  BY <1>10 DEF EndOfSegment
<1>11. ASSUME NEW r \in Recorders, DeadObject(r) PROVE PartialWavHasWriter'
  BY <1>11 DEF DeadObject
<1>12. ASSUME NEW r \in Recorders, PostRestart(r) PROVE PartialWavHasWriter'
  BY <1>12 DEF PostRestart
<1>13. ASSUME NEW r \in Recorders, NullCurrentPcmFile(r) PROVE PartialWavHasWriter'
  BY <1>13 DEF NullCurrentPcmFile
<1>14. ASSUME NEW t \in Threads, StopRecording(t) PROVE PartialWavHasWriter'
  BY <1>14 DEF StopRecording
<1>15. ASSUME NEW t \in Threads, FinalizeSegment(t) PROVE PartialWavHasWriter'
  BY <1>15 DEF FinalizeSegment
<1>16. ASSUME NEW t \in Threads, ConvertPcmToWav(t) PROVE PartialWavHasWriter'
  <2>1. /\ UNCHANGED currentPcmFile /\ currentPcmFile \in Segments
        /\ pc'[t] = "copy"
        /\ file'[t] = currentPcmFile
        /\ intact'[t]
        /\ finalizers' = [finalizers EXCEPT ![currentPcmFile] = @ \cup {t}]
    BY <1>16, ConvertCases
  <2>2. t \in finalizers'[currentPcmFile']
    BY <2>1
  <2> QED
    BY <2>1, <2>2
<1>17. ASSUME NEW t \in Threads, CopyPcm(t) PROVE PartialWavHasWriter'
  BY <1>17 DEF CopyPcm
<1>18. ASSUME NEW t \in Threads, AddToBuffer(t) PROVE PartialWavHasWriter'
  BY <1>18 DEF AddToBuffer
<1>19. ASSUME NEW t \in Threads, BroadcastSaved(t) PROVE PartialWavHasWriter'
  BY <1>19 DEF BroadcastSaved
<1>20. ASSUME NEW t \in Threads, DeletePcm(t) PROVE PartialWavHasWriter'
  BY <1>20 DEF DeletePcm
<1>21. ASSUME NEW t \in Threads, ResetVoiceActive(t) PROVE PartialWavHasWriter'
  BY <1>21 DEF ResetVoiceActive
<1>22. ASSUME NEW t \in Threads, ForgetPcmFile(t) PROVE PartialWavHasWriter'
  BY <1>22 DEF ForgetPcmFile
<1>23. ASSUME NEW t \in Threads, ReleaseAudio(t) PROVE PartialWavHasWriter'
  BY <1>23 DEF ReleaseAudio
<1>24. ASSUME NEW t \in Threads, FlushSegmentManifest(t) PROVE PartialWavHasWriter'
  BY <1>24 DEF FlushSegmentManifest, FlushReturns
<1>25. ASSUME NEW t \in Threads, ReadManifest(t) PROVE PartialWavHasWriter'
  BY <1>25 DEF ReadManifest
<1>26. ASSUME NEW t \in Threads, AddAllOfBuffer(t) PROVE PartialWavHasWriter'
  BY <1>26 DEF AddAllOfBuffer
<1>27. ASSUME NEW t \in Threads, ClearBuffer(t) PROVE PartialWavHasWriter'
  BY <1>27 DEF ClearBuffer
<1>28. ASSUME NEW t \in Threads, WriteTemp(t) PROVE PartialWavHasWriter'
  BY <1>28 DEF WriteTemp, FlushReturns
<1>29. ASSUME NEW t \in Threads, MoveTemp(t) PROVE PartialWavHasWriter'
  BY <1>29 DEF MoveTemp, FlushReturns
<1>30. ASSUME NEW t \in Threads, UnlinkManifest(t) PROVE PartialWavHasWriter'
  BY <1>30 DEF UnlinkManifest
<1>31. ASSUME NEW t \in Threads, RenameTemp(t) PROVE PartialWavHasWriter'
  BY <1>31 DEF RenameTemp, FlushReturns
<1>32. ASSUME TimePasses PROVE PartialWavHasWriter'
  BY <1>32 DEF TimePasses
<1>33. ASSUME Crash PROVE PartialWavHasWriter'
  BY <1>33 DEF Crash, FreshInstance
<1>34. ASSUME UNCHANGED vars PROVE PartialWavHasWriter'
  BY <1>34
<1> QED
  BY <1>1, <1>2, <1>3, <1>4, <1>5, <1>6, <1>7, <1>8, <1>9, <1>10, <1>11, <1>12,
     <1>13, <1>14, <1>15, <1>16, <1>17, <1>18, <1>19, <1>20, <1>21, <1>22, <1>23, <1>24,
     <1>25, <1>26, <1>27, <1>28, <1>29, <1>30, <1>31, <1>32, <1>33, <1>34, Zenon
     DEF Next, MainThread, RecordingThread, AnyThread

\* While file operations succeed no truncated WAV is left without its source.
LEMMA TruncatedNext == ~IOErrors /\ TypeOK /\ DeletedPcmHasFinisher /\ PartialWavHasWriter /\ NeverTruncated /\ [Next]_vars => NeverTruncated'
<1> SUFFICES ASSUME ~IOErrors, TypeOK, DeletedPcmHasFinisher, PartialWavHasWriter, NeverTruncated, [Next]_vars PROVE NeverTruncated'
  OBVIOUS
<1> USE ThreadsAssumption
    DEF TypeOK, LabelsOK, DataOK, InterfaceTypeOK, Goto, Threads,
        vars, interface, service, mic, segment, rest, files,
        locals, returns, history,
        FileKnown, Publishing, AfterDelete, FlushPcs, DeletedPcmHasFinisher, PartialWavHasWriter,
        NeverTruncated, Lone, Created
<1>1. ASSUME StartService PROVE NeverTruncated'
  BY <1>1 DEF StartService, FreshInstance
<1>2. ASSUME OnStartCommand PROVE NeverTruncated'
  BY <1>2 DEF OnStartCommand, StartRecording, CleanupOldRecordings
<1>3. ASSUME OnStartWithoutDirectory PROVE NeverTruncated'
  BY <1>3 DEF OnStartWithoutDirectory
<1>4. ASSUME OnDestroy PROVE NeverTruncated'
  BY <1>4 DEF OnDestroy
<1>5. ASSUME RestartCallback PROVE NeverTruncated'
  BY <1>5 DEF RestartCallback, StartRecording
<1>6. ASSUME NEW r \in Recorders, LoopTest(r) PROVE NeverTruncated'
  BY <1>6 DEF LoopTest
<1>7. ASSUME NEW r \in Recorders, ReadNothingNew(r) PROVE NeverTruncated'
  BY <1>7 DEF ReadNothingNew
<1>8. ASSUME NEW r \in Recorders, VoiceStarts(r) PROVE NeverTruncated'
  BY <1>8 DEF VoiceStarts
<1>9. ASSUME NEW r \in Recorders, CreateNewSegment(r) PROVE NeverTruncated'
  BY <1>9 DEF CreateNewSegment
<1>10. ASSUME NEW r \in Recorders, EndOfSegment(r) PROVE NeverTruncated'
  BY <1>10 DEF EndOfSegment
<1>11. ASSUME NEW r \in Recorders, DeadObject(r) PROVE NeverTruncated'
  BY <1>11 DEF DeadObject
<1>12. ASSUME NEW r \in Recorders, PostRestart(r) PROVE NeverTruncated'
  BY <1>12 DEF PostRestart
<1>13. ASSUME NEW r \in Recorders, NullCurrentPcmFile(r) PROVE NeverTruncated'
  BY <1>13 DEF NullCurrentPcmFile
<1>14. ASSUME NEW t \in Threads, StopRecording(t) PROVE NeverTruncated'
  BY <1>14 DEF StopRecording
<1>15. ASSUME NEW t \in Threads, FinalizeSegment(t) PROVE NeverTruncated'
  BY <1>15 DEF FinalizeSegment
<1>16. ASSUME NEW t \in Threads, ConvertPcmToWav(t) PROVE NeverTruncated'
  <2> SUFFICES ASSUME NEW s \in Segments, Lone(s)', pcm'[s] = "deleted", wav'[s] = "partial"
               PROVE  FALSE
    OBVIOUS
  <2>1. /\ pc[t] = "convert"
        /\ UNCHANGED pcm
        /\ currentPcmFile \in Segments
        /\ wav' = [wav EXCEPT ![currentPcmFile] = "partial"]
        /\ finalizers' = [finalizers EXCEPT ![currentPcmFile] = @ \cup {t}]
    BY <1>16, ConvertCases
  <2>2. CASE s # currentPcmFile
    BY <2>1, <2>2
  <2>3. CASE s = currentPcmFile
    <3>1. PICK u \in finalizers[s] : AfterDelete(u)
      BY <2>1, <2>3
    <3>2. u \in finalizers'[s] /\ t \in finalizers'[s]
      BY <2>1, <2>3
    <3>3. u = t
      BY <3>2
    <3> QED
      BY <2>1, <3>1, <3>3
  <2> QED
    BY <2>2, <2>3
<1>17. ASSUME NEW t \in Threads, CopyPcm(t) PROVE NeverTruncated'
  BY <1>17 DEF CopyPcm
<1>18. ASSUME NEW t \in Threads, AddToBuffer(t) PROVE NeverTruncated'
  BY <1>18 DEF AddToBuffer
<1>19. ASSUME NEW t \in Threads, BroadcastSaved(t) PROVE NeverTruncated'
  BY <1>19 DEF BroadcastSaved
<1>20. ASSUME NEW t \in Threads, DeletePcm(t) PROVE NeverTruncated'
  <2> SUFFICES ASSUME NEW s \in Segments, Lone(s)', pcm'[s] = "deleted", wav'[s] = "partial"
               PROVE  FALSE
    OBVIOUS
  <2>1. pc[t] = "deletePcm" /\ UNCHANGED wav
    BY <1>20 DEF DeletePcm
  <2>2. CASE s # currentPcmFile
    BY <1>20, <2>1, <2>2 DEF DeletePcm
  <2>3. CASE s = currentPcmFile
    <3>1. finalizers' = [finalizers EXCEPT ![s] = @ \cup {t}]
      BY <1>20, <2>3 DEF DeletePcm
    <3>2. Lone(s)
      BY <3>1
    <3>3. PICK u \in finalizers[s] : pc[u] = "copy"
      BY <2>1, <2>3, <3>2
    <3>4. u = t
      BY <3>1
    <3> QED
      BY <2>1, <3>3, <3>4
  <2> QED
    BY <2>2, <2>3
<1>21. ASSUME NEW t \in Threads, ResetVoiceActive(t) PROVE NeverTruncated'
  BY <1>21 DEF ResetVoiceActive
<1>22. ASSUME NEW t \in Threads, ForgetPcmFile(t) PROVE NeverTruncated'
  BY <1>22 DEF ForgetPcmFile
<1>23. ASSUME NEW t \in Threads, ReleaseAudio(t) PROVE NeverTruncated'
  BY <1>23 DEF ReleaseAudio
<1>24. ASSUME NEW t \in Threads, FlushSegmentManifest(t) PROVE NeverTruncated'
  BY <1>24 DEF FlushSegmentManifest, FlushReturns
<1>25. ASSUME NEW t \in Threads, ReadManifest(t) PROVE NeverTruncated'
  BY <1>25 DEF ReadManifest
<1>26. ASSUME NEW t \in Threads, AddAllOfBuffer(t) PROVE NeverTruncated'
  BY <1>26 DEF AddAllOfBuffer
<1>27. ASSUME NEW t \in Threads, ClearBuffer(t) PROVE NeverTruncated'
  BY <1>27 DEF ClearBuffer
<1>28. ASSUME NEW t \in Threads, WriteTemp(t) PROVE NeverTruncated'
  BY <1>28 DEF WriteTemp, FlushReturns
<1>29. ASSUME NEW t \in Threads, MoveTemp(t) PROVE NeverTruncated'
  BY <1>29 DEF MoveTemp, FlushReturns
<1>30. ASSUME NEW t \in Threads, UnlinkManifest(t) PROVE NeverTruncated'
  BY <1>30 DEF UnlinkManifest
<1>31. ASSUME NEW t \in Threads, RenameTemp(t) PROVE NeverTruncated'
  BY <1>31 DEF RenameTemp, FlushReturns
<1>32. ASSUME TimePasses PROVE NeverTruncated'
  BY <1>32 DEF TimePasses
<1>33. ASSUME Crash PROVE NeverTruncated'
  BY <1>33 DEF Crash, FreshInstance
<1>34. ASSUME UNCHANGED vars PROVE NeverTruncated'
  BY <1>34
<1> QED
  BY <1>1, <1>2, <1>3, <1>4, <1>5, <1>6, <1>7, <1>8, <1>9, <1>10, <1>11, <1>12,
     <1>13, <1>14, <1>15, <1>16, <1>17, <1>18, <1>19, <1>20, <1>21, <1>22, <1>23, <1>24,
     <1>25, <1>26, <1>27, <1>28, <1>29, <1>30, <1>31, <1>32, <1>33, <1>34, Zenon
     DEF Next, MainThread, RecordingThread, AnyThread

\* Every name comes from a file that was created.
LEMMA NamesNext == TypeOK /\ FileKnown /\ NamesAreCreated /\ [Next]_vars => NamesAreCreated'
<1> SUFFICES ASSUME TypeOK, FileKnown, NamesAreCreated, [Next]_vars PROVE NamesAreCreated'
  OBVIOUS
<1> USE ThreadsAssumption, ManifestValues
    DEF TypeOK, LabelsOK, DataOK, InterfaceTypeOK, Goto, Threads,
        vars, interface, service, mic, segment, rest, files,
        locals, returns, history,
        FileKnown, Publishing, FlushPcs, NamesAreCreated, Created, Entries, Fresh, WavStates
<1>1. ASSUME StartService PROVE NamesAreCreated'
  BY <1>1 DEF StartService, FreshInstance
<1>2. ASSUME OnStartCommand PROVE NamesAreCreated'
  BY <1>2 DEF OnStartCommand, StartRecording, CleanupOldRecordings
<1>3. ASSUME OnStartWithoutDirectory PROVE NamesAreCreated'
  BY <1>3 DEF OnStartWithoutDirectory
<1>4. ASSUME OnDestroy PROVE NamesAreCreated'
  BY <1>4 DEF OnDestroy
<1>5. ASSUME RestartCallback PROVE NamesAreCreated'
  BY <1>5 DEF RestartCallback, StartRecording
<1>6. ASSUME NEW r \in Recorders, LoopTest(r) PROVE NamesAreCreated'
  BY <1>6 DEF LoopTest
<1>7. ASSUME NEW r \in Recorders, ReadNothingNew(r) PROVE NamesAreCreated'
  BY <1>7 DEF ReadNothingNew
<1>8. ASSUME NEW r \in Recorders, VoiceStarts(r) PROVE NamesAreCreated'
  BY <1>8 DEF VoiceStarts
<1>9. ASSUME NEW r \in Recorders, CreateNewSegment(r) PROVE NamesAreCreated'
  BY <1>9 DEF CreateNewSegment
<1>10. ASSUME NEW r \in Recorders, EndOfSegment(r) PROVE NamesAreCreated'
  BY <1>10 DEF EndOfSegment
<1>11. ASSUME NEW r \in Recorders, DeadObject(r) PROVE NamesAreCreated'
  BY <1>11 DEF DeadObject
<1>12. ASSUME NEW r \in Recorders, PostRestart(r) PROVE NamesAreCreated'
  BY <1>12 DEF PostRestart
<1>13. ASSUME NEW r \in Recorders, NullCurrentPcmFile(r) PROVE NamesAreCreated'
  BY <1>13 DEF NullCurrentPcmFile
<1>14. ASSUME NEW t \in Threads, StopRecording(t) PROVE NamesAreCreated'
  BY <1>14 DEF StopRecording
<1>15. ASSUME NEW t \in Threads, FinalizeSegment(t) PROVE NamesAreCreated'
  BY <1>15 DEF FinalizeSegment
<1>16. ASSUME NEW t \in Threads, ConvertPcmToWav(t) PROVE NamesAreCreated'
  <2>1. /\ UNCHANGED <<currentPcmFile, fret, entries, segmentBuffer, tmp, manifest>>
        /\ pc[t] = "convert"
        /\ currentPcmFile \in Segments
        /\ \A u \in Threads : u # t => pc'[u] = pc[u] /\ file'[u] = file[u]
        /\ \/ pc'[t] = "deletePcm" /\ UNCHANGED wav
           \/ /\ pc'[t] = "copy"
              /\ file'[t] = currentPcmFile
              /\ wav' = [wav EXCEPT ![currentPcmFile] = "partial"]
    <3>1. UNCHANGED <<entries, segmentBuffer, tmp, manifest>>
      BY <1>16, ConvertSteps
    <3> QED
      BY <1>16, <3>1, ConvertCases
  <2>2. Created \subseteq Created'
    BY <2>1
  <2>3. wav'[currentPcmFile] # "gone"
    BY <2>1
  <2>4. \A u \in Threads : Publishing(u)' => wav'[file'[u]] # "absent"
    BY <2>1
  <2> QED
    BY <2>1, <2>2, <2>3, <2>4
<1>17. ASSUME NEW t \in Threads, CopyPcm(t) PROVE NamesAreCreated'
  BY <1>17 DEF CopyPcm
<1>18. ASSUME NEW t \in Threads, AddToBuffer(t) PROVE NamesAreCreated'
  BY <1>18 DEF AddToBuffer
<1>19. ASSUME NEW t \in Threads, BroadcastSaved(t) PROVE NamesAreCreated'
  BY <1>19 DEF BroadcastSaved
<1>20. ASSUME NEW t \in Threads, DeletePcm(t) PROVE NamesAreCreated'
  BY <1>20 DEF DeletePcm
<1>21. ASSUME NEW t \in Threads, ResetVoiceActive(t) PROVE NamesAreCreated'
  BY <1>21 DEF ResetVoiceActive
<1>22. ASSUME NEW t \in Threads, ForgetPcmFile(t) PROVE NamesAreCreated'
  BY <1>22 DEF ForgetPcmFile
<1>23. ASSUME NEW t \in Threads, ReleaseAudio(t) PROVE NamesAreCreated'
  BY <1>23 DEF ReleaseAudio
<1>24. ASSUME NEW t \in Threads, FlushSegmentManifest(t) PROVE NamesAreCreated'
  BY <1>24 DEF FlushSegmentManifest, FlushReturns
<1>25. ASSUME NEW t \in Threads, ReadManifest(t) PROVE NamesAreCreated'
  BY <1>25 DEF ReadManifest
<1>26. ASSUME NEW t \in Threads, AddAllOfBuffer(t) PROVE NamesAreCreated'
  BY <1>26 DEF AddAllOfBuffer
<1>27. ASSUME NEW t \in Threads, ClearBuffer(t) PROVE NamesAreCreated'
  BY <1>27 DEF ClearBuffer
<1>28. ASSUME NEW t \in Threads, WriteTemp(t) PROVE NamesAreCreated'
  BY <1>28 DEF WriteTemp, FlushReturns
<1>29. ASSUME NEW t \in Threads, MoveTemp(t) PROVE NamesAreCreated'
  BY <1>29 DEF MoveTemp, FlushReturns
<1>30. ASSUME NEW t \in Threads, UnlinkManifest(t) PROVE NamesAreCreated'
  BY <1>30 DEF UnlinkManifest
<1>31. ASSUME NEW t \in Threads, RenameTemp(t) PROVE NamesAreCreated'
  BY <1>31 DEF RenameTemp, FlushReturns
<1>32. ASSUME TimePasses PROVE NamesAreCreated'
  BY <1>32 DEF TimePasses
<1>33. ASSUME Crash PROVE NamesAreCreated'
  BY <1>33 DEF Crash, FreshInstance
<1>34. ASSUME UNCHANGED vars PROVE NamesAreCreated'
  BY <1>34
<1> QED
  BY <1>1, <1>2, <1>3, <1>4, <1>5, <1>6, <1>7, <1>8, <1>9, <1>10, <1>11, <1>12,
     <1>13, <1>14, <1>15, <1>16, <1>17, <1>18, <1>19, <1>20, <1>21, <1>22, <1>23, <1>24,
     <1>25, <1>26, <1>27, <1>28, <1>29, <1>30, <1>31, <1>32, <1>33, <1>34, Zenon
     DEF Next, MainThread, RecordingThread, AnyThread

\* To its readers the clean-up only removes WAVs.
LEMMA CleanupRemovesOld ==
  ASSUME OnStartCommand
  PROVE  RemoveOld
<1> DEFINE busy == {currentPcmFile} \cup {file[t] : t \in Threads}
<1>1. PICK wavs \in SUBSET (Created \ busy), pcms \in SUBSET ({s \in Segments : pcm[s] = "there"} \ busy) :
        wav' = [s \in Segments |-> IF s \in wavs THEN "gone" ELSE wav[s]]
  BY Zenon DEF OnStartCommand, CleanupOldRecordings
<1>2. wavs \in SUBSET Created
  BY <1>1
<1>3. UNCHANGED <<manifest, broadcasts>>
  BY DEF OnStartCommand
<1> QED
  BY <1>1, <1>2, <1>3, Zenon DEF RemoveOld

\* Every step of the recorder is a step of SegmentSource, or one it does not see.
LEMMA SourceStep == TypeOK /\ FileKnown /\ NamesAreCreated /\ [Next]_vars => [SourceNext]_interface
<1> SUFFICES ASSUME TypeOK, FileKnown, NamesAreCreated, [Next]_vars PROVE [SourceNext]_interface
  OBVIOUS
<1> USE ThreadsAssumption, ManifestValues
    DEF TypeOK, LabelsOK, DataOK, InterfaceTypeOK, Threads, NamesAreCreated,
        FileKnown, Publishing, vars, interface, service, mic, segment, rest, files,
        locals, returns, history,
        SourceNext, Created
<1>1. ASSUME StartService PROVE [SourceNext]_interface
  BY <1>1 DEF StartService, FreshInstance
<1>2. ASSUME OnStartCommand PROVE [SourceNext]_interface
  BY <1>2, CleanupRemovesOld
<1>3. ASSUME OnStartWithoutDirectory PROVE [SourceNext]_interface
  BY <1>3 DEF OnStartWithoutDirectory
<1>4. ASSUME OnDestroy PROVE [SourceNext]_interface
  BY <1>4 DEF OnDestroy
<1>5. ASSUME RestartCallback PROVE [SourceNext]_interface
  BY <1>5 DEF RestartCallback, StartRecording
<1>6. ASSUME NEW r \in Recorders, LoopTest(r) PROVE [SourceNext]_interface
  BY <1>6 DEF LoopTest
<1>7. ASSUME NEW r \in Recorders, ReadNothingNew(r) PROVE [SourceNext]_interface
  BY <1>7 DEF ReadNothingNew
<1>8. ASSUME NEW r \in Recorders, VoiceStarts(r) PROVE [SourceNext]_interface
  BY <1>8 DEF VoiceStarts
<1>9. ASSUME NEW r \in Recorders, CreateNewSegment(r) PROVE [SourceNext]_interface
  BY <1>9 DEF CreateNewSegment
<1>10. ASSUME NEW r \in Recorders, EndOfSegment(r) PROVE [SourceNext]_interface
  BY <1>10 DEF EndOfSegment
<1>11. ASSUME NEW r \in Recorders, DeadObject(r) PROVE [SourceNext]_interface
  BY <1>11 DEF DeadObject
<1>12. ASSUME NEW r \in Recorders, PostRestart(r) PROVE [SourceNext]_interface
  BY <1>12 DEF PostRestart
<1>13. ASSUME NEW r \in Recorders, NullCurrentPcmFile(r) PROVE [SourceNext]_interface
  BY <1>13 DEF NullCurrentPcmFile
<1>14. ASSUME NEW t \in Threads, StopRecording(t) PROVE [SourceNext]_interface
  BY <1>14 DEF StopRecording
<1>15. ASSUME NEW t \in Threads, FinalizeSegment(t) PROVE [SourceNext]_interface
  BY <1>15 DEF FinalizeSegment
<1>16. ASSUME NEW t \in Threads, ConvertPcmToWav(t) PROVE [SourceNext]_interface
  BY <1>16, ConvertCases DEF ConvertPcmToWav, WriteWav
<1>17. ASSUME NEW t \in Threads, CopyPcm(t) PROVE [SourceNext]_interface
  BY <1>17 DEF CopyPcm, FinishWav
<1>18. ASSUME NEW t \in Threads, AddToBuffer(t) PROVE [SourceNext]_interface
  BY <1>18 DEF AddToBuffer
<1>19. ASSUME NEW t \in Threads, BroadcastSaved(t) PROVE [SourceNext]_interface
  BY <1>19 DEF BroadcastSaved, Announce
<1>20. ASSUME NEW t \in Threads, DeletePcm(t) PROVE [SourceNext]_interface
  BY <1>20 DEF DeletePcm
<1>21. ASSUME NEW t \in Threads, ResetVoiceActive(t) PROVE [SourceNext]_interface
  BY <1>21 DEF ResetVoiceActive
<1>22. ASSUME NEW t \in Threads, ForgetPcmFile(t) PROVE [SourceNext]_interface
  BY <1>22 DEF ForgetPcmFile
<1>23. ASSUME NEW t \in Threads, ReleaseAudio(t) PROVE [SourceNext]_interface
  BY <1>23 DEF ReleaseAudio
<1>24. ASSUME NEW t \in Threads, FlushSegmentManifest(t) PROVE [SourceNext]_interface
  BY <1>24 DEF FlushSegmentManifest, FlushReturns
<1>25. ASSUME NEW t \in Threads, ReadManifest(t) PROVE [SourceNext]_interface
  BY <1>25 DEF ReadManifest
<1>26. ASSUME NEW t \in Threads, AddAllOfBuffer(t) PROVE [SourceNext]_interface
  BY <1>26 DEF AddAllOfBuffer
<1>27. ASSUME NEW t \in Threads, ClearBuffer(t) PROVE [SourceNext]_interface
  BY <1>27 DEF ClearBuffer
<1>28. ASSUME NEW t \in Threads, WriteTemp(t) PROVE [SourceNext]_interface
  BY <1>28 DEF WriteTemp, FlushReturns
<1>29. ASSUME NEW t \in Threads, MoveTemp(t) PROVE [SourceNext]_interface
  BY <1>29 DEF MoveTemp, ReplaceManifest
<1>30. ASSUME NEW t \in Threads, UnlinkManifest(t) PROVE [SourceNext]_interface
  BY <1>30 DEF UnlinkManifest, ReplaceManifest
<1>31. ASSUME NEW t \in Threads, RenameTemp(t) PROVE [SourceNext]_interface
  BY <1>31 DEF RenameTemp, ReplaceManifest
<1>32. ASSUME TimePasses PROVE [SourceNext]_interface
  BY <1>32 DEF TimePasses
<1>33. ASSUME Crash PROVE [SourceNext]_interface
  BY <1>33 DEF Crash, LoseBroadcasts
<1>34. ASSUME UNCHANGED vars PROVE [SourceNext]_interface
  BY <1>34
<1> QED
  BY <1>1, <1>2, <1>3, <1>4, <1>5, <1>6, <1>7, <1>8, <1>9, <1>10, <1>11, <1>12,
     <1>13, <1>14, <1>15, <1>16, <1>17, <1>18, <1>19, <1>20, <1>21, <1>22, <1>23, <1>24,
     <1>25, <1>26, <1>27, <1>28, <1>29, <1>30, <1>31, <1>32, <1>33, <1>34, Zenon
     DEF Next, MainThread, RecordingThread, AnyThread

-----------------------------------------------------------------------------
(* The service goes on: at most one recording thread runs unless overlapped *)
(* is set, and it keeps flag, open segment and AudioRecord together.        *)

\* A recording thread is started beside another one only with overlapped set.
LEMMA OneRecorderNext ==
  LabelsOK /\ OneRecorder /\ [Next]_vars => OneRecorder'
<1> SUFFICES ASSUME LabelsOK, OneRecorder, [Next]_vars PROVE OneRecorder'
  OBVIOUS
<1> USE ThreadsAssumption
    DEF LabelsOK, Pcs, SharedPcs, Goto, Threads, vars, service, mic, segment, rest,
        locals, returns, history, files, Serving, OneRecorder
<1>1. ASSUME StartService PROVE OneRecorder'
  BY <1>1 DEF StartService, FreshInstance
<1>2. ASSUME OnStartCommand PROVE OneRecorder'
  <2>1. CASE UNCHANGED <<isRecording, ret, overlapped>> /\ (audioRecord' \/ UNCHANGED audioRecord)
             /\ pc' = [pc EXCEPT ![Main] = "idle"]
    BY <2>1
  <2>2. ASSUME NEW r \in Recorders, pc[r] = "dead", audioRecord' = TRUE,
               pc' = [[pc EXCEPT ![Main] = "idle"] EXCEPT ![r] = "loop"],
               overlapped' = (overlapped \/ \E q \in Recorders : pc[q] # "dead")
        PROVE  OneRecorder'
    BY <2>2
  <2> QED
    BY <1>2, <2>1, <2>2 DEF OnStartCommand, StartRecording
<1>3. ASSUME OnStartWithoutDirectory PROVE OneRecorder'
  BY <1>3 DEF OnStartWithoutDirectory
<1>4. ASSUME OnDestroy PROVE OneRecorder'
  BY <1>4 DEF OnDestroy
<1>5. ASSUME RestartCallback PROVE OneRecorder'
  BY <1>5 DEF RestartCallback, StartRecording
<1>6. ASSUME NEW r \in Recorders, LoopTest(r) PROVE OneRecorder'
  BY <1>6 DEF LoopTest
<1>7. ASSUME NEW r \in Recorders, ReadNothingNew(r) PROVE OneRecorder'
  BY <1>7 DEF ReadNothingNew
<1>8. ASSUME NEW r \in Recorders, VoiceStarts(r) PROVE OneRecorder'
  BY <1>8 DEF VoiceStarts
<1>9. ASSUME NEW r \in Recorders, CreateNewSegment(r) PROVE OneRecorder'
  BY <1>9 DEF CreateNewSegment, Fresh
<1>10. ASSUME NEW r \in Recorders, EndOfSegment(r) PROVE OneRecorder'
  BY <1>10 DEF EndOfSegment
<1>11. ASSUME NEW r \in Recorders, DeadObject(r) PROVE OneRecorder'
  BY <1>11 DEF DeadObject
<1>12. ASSUME NEW r \in Recorders, PostRestart(r) PROVE OneRecorder'
  BY <1>12 DEF PostRestart
<1>13. ASSUME NEW r \in Recorders, NullCurrentPcmFile(r) PROVE OneRecorder'
  BY <1>13 DEF NullCurrentPcmFile
<1>14. ASSUME NEW t \in Threads, StopRecording(t) PROVE OneRecorder'
  BY <1>14 DEF StopRecording
<1>15. ASSUME NEW t \in Threads, FinalizeSegment(t) PROVE OneRecorder'
  BY <1>15 DEF FinalizeSegment
<1>16. ASSUME NEW t \in Threads, ConvertPcmToWav(t) PROVE OneRecorder'
  <2>1. /\ pc[t] = "convert"
        /\ Goto(t, "copy") \/ Goto(t, "deletePcm")
        /\ UNCHANGED <<service, files, ret, overlapped>>
    BY <1>16 DEF ConvertPcmToWav
  <2> QED
    BY <2>1
<1>17. ASSUME NEW t \in Threads, CopyPcm(t) PROVE OneRecorder'
  BY <1>17 DEF CopyPcm
<1>18. ASSUME NEW t \in Threads, AddToBuffer(t) PROVE OneRecorder'
  BY <1>18 DEF AddToBuffer
<1>19. ASSUME NEW t \in Threads, BroadcastSaved(t) PROVE OneRecorder'
  BY <1>19 DEF BroadcastSaved
<1>20. ASSUME NEW t \in Threads, DeletePcm(t) PROVE OneRecorder'
  BY <1>20 DEF DeletePcm
<1>21. ASSUME NEW t \in Threads, ResetVoiceActive(t) PROVE OneRecorder'
  BY <1>21 DEF ResetVoiceActive
<1>22. ASSUME NEW t \in Threads, ForgetPcmFile(t) PROVE OneRecorder'
  BY <1>22 DEF ForgetPcmFile
<1>23. ASSUME NEW t \in Threads, ReleaseAudio(t) PROVE OneRecorder'
  BY <1>23 DEF ReleaseAudio
<1>24. ASSUME NEW t \in Threads, FlushSegmentManifest(t) PROVE OneRecorder'
  BY <1>24 DEF FlushSegmentManifest, FlushReturns
<1>25. ASSUME NEW t \in Threads, ReadManifest(t) PROVE OneRecorder'
  BY <1>25 DEF ReadManifest
<1>26. ASSUME NEW t \in Threads, AddAllOfBuffer(t) PROVE OneRecorder'
  BY <1>26 DEF AddAllOfBuffer
<1>27. ASSUME NEW t \in Threads, ClearBuffer(t) PROVE OneRecorder'
  BY <1>27 DEF ClearBuffer
<1>28. ASSUME NEW t \in Threads, WriteTemp(t) PROVE OneRecorder'
  BY <1>28 DEF WriteTemp, FlushReturns
<1>29. ASSUME NEW t \in Threads, MoveTemp(t) PROVE OneRecorder'
  BY <1>29 DEF MoveTemp, FlushReturns
<1>30. ASSUME NEW t \in Threads, UnlinkManifest(t) PROVE OneRecorder'
  BY <1>30 DEF UnlinkManifest
<1>31. ASSUME NEW t \in Threads, RenameTemp(t) PROVE OneRecorder'
  BY <1>31 DEF RenameTemp, FlushReturns
<1>32. ASSUME TimePasses PROVE OneRecorder'
  BY <1>32 DEF TimePasses
<1>33. ASSUME Crash PROVE OneRecorder'
  BY <1>33 DEF Crash, FreshInstance
<1>34. ASSUME UNCHANGED vars PROVE OneRecorder'
  BY <1>34
<1> QED
  BY <1>1, <1>2, <1>3, <1>4, <1>5, <1>6, <1>7, <1>8, <1>9, <1>10, <1>11, <1>12,
     <1>13, <1>14, <1>15, <1>16, <1>17, <1>18, <1>19, <1>20, <1>21, <1>22, <1>23, <1>24,
     <1>25, <1>26, <1>27, <1>28, <1>29, <1>30, <1>31, <1>32, <1>33, <1>34, Zenon
     DEF Next, MainThread, RecordingThread, AnyThread

\* Only onDestroy and a crash end the instance, after isRecording is reset.
LEMMA ServiceIsUpNext ==
  LabelsOK /\ ServiceIsUp /\ [Next]_vars => ServiceIsUp'
<1> SUFFICES ASSUME LabelsOK, ServiceIsUp, [Next]_vars PROVE ServiceIsUp'
  OBVIOUS
<1> USE ThreadsAssumption
    DEF LabelsOK, Pcs, SharedPcs, Goto, Threads, vars, service, mic, segment, rest,
        locals, returns, history, files, Serving, ServiceIsUp
<1>1. ASSUME StartService PROVE ServiceIsUp'
  BY <1>1 DEF StartService, FreshInstance
<1>2. ASSUME OnStartCommand PROVE ServiceIsUp'
  BY <1>2 DEF OnStartCommand, StartRecording, CleanupOldRecordings
<1>3. ASSUME OnStartWithoutDirectory PROVE ServiceIsUp'
  BY <1>3 DEF OnStartWithoutDirectory
<1>4. ASSUME OnDestroy PROVE ServiceIsUp'
  BY <1>4 DEF OnDestroy
<1>5. ASSUME RestartCallback PROVE ServiceIsUp'
  BY <1>5 DEF RestartCallback, StartRecording
<1>6. ASSUME NEW r \in Recorders, LoopTest(r) PROVE ServiceIsUp'
  BY <1>6 DEF LoopTest
<1>7. ASSUME NEW r \in Recorders, ReadNothingNew(r) PROVE ServiceIsUp'
  BY <1>7 DEF ReadNothingNew
<1>8. ASSUME NEW r \in Recorders, VoiceStarts(r) PROVE ServiceIsUp'
  BY <1>8 DEF VoiceStarts
<1>9. ASSUME NEW r \in Recorders, CreateNewSegment(r) PROVE ServiceIsUp'
  BY <1>9 DEF CreateNewSegment, Fresh
<1>10. ASSUME NEW r \in Recorders, EndOfSegment(r) PROVE ServiceIsUp'
  BY <1>10 DEF EndOfSegment
<1>11. ASSUME NEW r \in Recorders, DeadObject(r) PROVE ServiceIsUp'
  BY <1>11 DEF DeadObject
<1>12. ASSUME NEW r \in Recorders, PostRestart(r) PROVE ServiceIsUp'
  BY <1>12 DEF PostRestart
<1>13. ASSUME NEW r \in Recorders, NullCurrentPcmFile(r) PROVE ServiceIsUp'
  BY <1>13 DEF NullCurrentPcmFile
<1>14. ASSUME NEW t \in Threads, StopRecording(t) PROVE ServiceIsUp'
  BY <1>14 DEF StopRecording
<1>15. ASSUME NEW t \in Threads, FinalizeSegment(t) PROVE ServiceIsUp'
  BY <1>15 DEF FinalizeSegment
<1>16. ASSUME NEW t \in Threads, ConvertPcmToWav(t) PROVE ServiceIsUp'
  <2>1. /\ pc[t] = "convert" /\ UNCHANGED <<isRecording, up>>
        /\ Goto(t, "copy") \/ Goto(t, "deletePcm")
    BY <1>16, ConvertSteps
  <2> QED
    BY <2>1
<1>17. ASSUME NEW t \in Threads, CopyPcm(t) PROVE ServiceIsUp'
  BY <1>17 DEF CopyPcm
<1>18. ASSUME NEW t \in Threads, AddToBuffer(t) PROVE ServiceIsUp'
  BY <1>18 DEF AddToBuffer
<1>19. ASSUME NEW t \in Threads, BroadcastSaved(t) PROVE ServiceIsUp'
  BY <1>19 DEF BroadcastSaved
<1>20. ASSUME NEW t \in Threads, DeletePcm(t) PROVE ServiceIsUp'
  BY <1>20 DEF DeletePcm
<1>21. ASSUME NEW t \in Threads, ResetVoiceActive(t) PROVE ServiceIsUp'
  BY <1>21 DEF ResetVoiceActive
<1>22. ASSUME NEW t \in Threads, ForgetPcmFile(t) PROVE ServiceIsUp'
  BY <1>22 DEF ForgetPcmFile
<1>23. ASSUME NEW t \in Threads, ReleaseAudio(t) PROVE ServiceIsUp'
  BY <1>23 DEF ReleaseAudio
<1>24. ASSUME NEW t \in Threads, FlushSegmentManifest(t) PROVE ServiceIsUp'
  <2>1. /\ pc[t] \in {"flush", "move"} /\ UNCHANGED isRecording
        /\ \/ (Goto(t, "readManifest") \/ Goto(t, "unlink")) /\ UNCHANGED up
           \/ Goto(t, fret[t]) /\ up' = (up /\ fret[t] # "idle")
    BY <1>24, FlushSteps
  <2>2. CASE (Goto(t, "readManifest") \/ Goto(t, "unlink")) /\ UNCHANGED up
    BY <2>1, <2>2
  <2>3. CASE Goto(t, fret[t]) /\ up' = (up /\ fret[t] # "idle")
    BY <2>1, <2>3
  <2> QED
    BY <2>1, <2>2, <2>3
<1>25. ASSUME NEW t \in Threads, ReadManifest(t) PROVE ServiceIsUp'
  BY <1>25 DEF ReadManifest
<1>26. ASSUME NEW t \in Threads, AddAllOfBuffer(t) PROVE ServiceIsUp'
  BY <1>26 DEF AddAllOfBuffer
<1>27. ASSUME NEW t \in Threads, ClearBuffer(t) PROVE ServiceIsUp'
  BY <1>27 DEF ClearBuffer
<1>28. ASSUME NEW t \in Threads, WriteTemp(t) PROVE ServiceIsUp'
  BY <1>28 DEF WriteTemp, FlushReturns
<1>29. ASSUME NEW t \in Threads, MoveTemp(t) PROVE ServiceIsUp'
  BY <1>29 DEF MoveTemp, FlushReturns
<1>30. ASSUME NEW t \in Threads, UnlinkManifest(t) PROVE ServiceIsUp'
  BY <1>30 DEF UnlinkManifest
<1>31. ASSUME NEW t \in Threads, RenameTemp(t) PROVE ServiceIsUp'
  BY <1>31 DEF RenameTemp, FlushReturns
<1>32. ASSUME TimePasses PROVE ServiceIsUp'
  BY <1>32 DEF TimePasses
<1>33. ASSUME Crash PROVE ServiceIsUp'
  BY <1>33 DEF Crash, FreshInstance
<1>34. ASSUME UNCHANGED vars PROVE ServiceIsUp'
  BY <1>34
<1> QED
  BY <1>1, <1>2, <1>3, <1>4, <1>5, <1>6, <1>7, <1>8, <1>9, <1>10, <1>11, <1>12,
     <1>13, <1>14, <1>15, <1>16, <1>17, <1>18, <1>19, <1>20, <1>21, <1>22, <1>23, <1>24,
     <1>25, <1>26, <1>27, <1>28, <1>29, <1>30, <1>31, <1>32, <1>33, <1>34, Zenon
     DEF Next, MainThread, RecordingThread, AnyThread

\* The AudioRecord is released only when isRecording has been reset.
LEMMA MicrophoneNext ==
  LabelsOK /\ ServiceIsUp /\ OneRecorder /\ MicrophoneIsKept /\ [Next]_vars => MicrophoneIsKept'
<1> SUFFICES ASSUME LabelsOK, ServiceIsUp, OneRecorder, MicrophoneIsKept, [Next]_vars PROVE MicrophoneIsKept'
  OBVIOUS
<1> USE ThreadsAssumption
    DEF LabelsOK, Pcs, SharedPcs, Goto, Threads, vars, service, mic, segment, rest,
        locals, returns, history, files, Serving, ServiceIsUp, OneRecorder, MicrophoneIsKept
<1>1. ASSUME StartService PROVE MicrophoneIsKept'
  BY <1>1 DEF StartService, FreshInstance
<1>2. ASSUME OnStartCommand PROVE MicrophoneIsKept'
  <2>1. CASE UNCHANGED <<isRecording, ret, overlapped>> /\ (audioRecord' \/ UNCHANGED audioRecord)
             /\ pc' = [pc EXCEPT ![Main] = "idle"]
    <3>1. \A q \in Recorders : pc'[q] = pc[q]
      BY <2>1
    <3> QED
      BY <2>1, <3>1
  <2>2. ASSUME NEW r \in Recorders, pc[r] = "dead", audioRecord' = TRUE,
               pc' = [[pc EXCEPT ![Main] = "idle"] EXCEPT ![r] = "loop"],
               overlapped' = (overlapped \/ \E q \in Recorders : pc[q] # "dead")
        PROVE  MicrophoneIsKept'
    <3>1. \A q \in Recorders : pc'[q] = IF q = r THEN "loop" ELSE pc[q]
      BY <2>2
    <3>2. ~overlapped' => \A q \in Recorders : pc'[q] \in {"dead", "loop"}
      BY <2>2, <3>1
    <3> QED
      BY <2>2, <3>2
  <2> QED
    BY <1>2, <2>1, <2>2 DEF OnStartCommand, StartRecording
<1>3. ASSUME OnStartWithoutDirectory PROVE MicrophoneIsKept'
  BY <1>3 DEF OnStartWithoutDirectory
<1>4. ASSUME OnDestroy PROVE MicrophoneIsKept'
  BY <1>4 DEF OnDestroy
<1>5. ASSUME RestartCallback PROVE MicrophoneIsKept'
  BY <1>5 DEF RestartCallback, StartRecording
<1>6. ASSUME NEW r \in Recorders, LoopTest(r) PROVE MicrophoneIsKept'
  BY <1>6 DEF LoopTest
<1>7. ASSUME NEW r \in Recorders, ReadNothingNew(r) PROVE MicrophoneIsKept'
  BY <1>7 DEF ReadNothingNew
<1>8. ASSUME NEW r \in Recorders, VoiceStarts(r) PROVE MicrophoneIsKept'
  BY <1>8 DEF VoiceStarts
<1>9. ASSUME NEW r \in Recorders, CreateNewSegment(r) PROVE MicrophoneIsKept'
  BY <1>9 DEF CreateNewSegment, Fresh
<1>10. ASSUME NEW r \in Recorders, EndOfSegment(r) PROVE MicrophoneIsKept'
  BY <1>10 DEF EndOfSegment
<1>11. ASSUME NEW r \in Recorders, DeadObject(r) PROVE MicrophoneIsKept'
  BY <1>11 DEF DeadObject
<1>12. ASSUME NEW r \in Recorders, PostRestart(r) PROVE MicrophoneIsKept'
  BY <1>12 DEF PostRestart
<1>13. ASSUME NEW r \in Recorders, NullCurrentPcmFile(r) PROVE MicrophoneIsKept'
  BY <1>13 DEF NullCurrentPcmFile
<1>14. ASSUME NEW t \in Threads, StopRecording(t) PROVE MicrophoneIsKept'
  BY <1>14 DEF StopRecording
<1>15. ASSUME NEW t \in Threads, FinalizeSegment(t) PROVE MicrophoneIsKept'
  BY <1>15 DEF FinalizeSegment
<1>16. ASSUME NEW t \in Threads, ConvertPcmToWav(t) PROVE MicrophoneIsKept'
  <2>1. /\ pc[t] = "convert"
        /\ Goto(t, "copy") \/ Goto(t, "deletePcm")
        /\ UNCHANGED <<service, files, ret, overlapped>>
    BY <1>16 DEF ConvertPcmToWav
  <2> QED
    BY <2>1
<1>17. ASSUME NEW t \in Threads, CopyPcm(t) PROVE MicrophoneIsKept'
  BY <1>17 DEF CopyPcm
<1>18. ASSUME NEW t \in Threads, AddToBuffer(t) PROVE MicrophoneIsKept'
  BY <1>18 DEF AddToBuffer
<1>19. ASSUME NEW t \in Threads, BroadcastSaved(t) PROVE MicrophoneIsKept'
  BY <1>19 DEF BroadcastSaved
<1>20. ASSUME NEW t \in Threads, DeletePcm(t) PROVE MicrophoneIsKept'
  BY <1>20 DEF DeletePcm
<1>21. ASSUME NEW t \in Threads, ResetVoiceActive(t) PROVE MicrophoneIsKept'
  BY <1>21 DEF ResetVoiceActive
<1>22. ASSUME NEW t \in Threads, ForgetPcmFile(t) PROVE MicrophoneIsKept'
  BY <1>22 DEF ForgetPcmFile
<1>23. ASSUME NEW t \in Threads, ReleaseAudio(t) PROVE MicrophoneIsKept'
  BY <1>23 DEF ReleaseAudio
<1>24. ASSUME NEW t \in Threads, FlushSegmentManifest(t) PROVE MicrophoneIsKept'
  <2>1. /\ pc[t] = "flush"
        /\ UNCHANGED <<mic, segment, pcm, ret, overlapped>>
        /\ \/ (Goto(t, "readManifest") \/ Goto(t, "unlink")) /\ UNCHANGED up
           \/ Goto(t, fret[t]) /\ up' = (up /\ fret[t] # "idle")
    <3>1. pc[t] = "flush"
      BY <1>24, Zenon DEF FlushSegmentManifest
    <3> QED
      BY <1>24, <3>1, FlushSteps
  <2>2. CASE (Goto(t, "readManifest") \/ Goto(t, "unlink")) /\ UNCHANGED up
    BY <2>1, <2>2
  <2>3. CASE Goto(t, fret[t]) /\ up' = (up /\ fret[t] # "idle")
    BY <2>1, <2>3
  <2> QED
    BY <2>1, <2>2, <2>3
<1>25. ASSUME NEW t \in Threads, ReadManifest(t) PROVE MicrophoneIsKept'
  BY <1>25 DEF ReadManifest
<1>26. ASSUME NEW t \in Threads, AddAllOfBuffer(t) PROVE MicrophoneIsKept'
  BY <1>26 DEF AddAllOfBuffer
<1>27. ASSUME NEW t \in Threads, ClearBuffer(t) PROVE MicrophoneIsKept'
  BY <1>27 DEF ClearBuffer
<1>28. ASSUME NEW t \in Threads, WriteTemp(t) PROVE MicrophoneIsKept'
  <2>1. pc[t] = "write" /\ UNCHANGED <<mic, segment, pcm, ret, overlapped>>
    BY <1>28 DEF WriteTemp
  <2>2. CASE Goto(t, "move") /\ UNCHANGED up
    BY <2>1, <2>2
  <2>3. CASE FlushReturns(t)
    BY <2>1, <2>3 DEF FlushReturns
  <2> QED
    BY <1>28, <2>2, <2>3 DEF WriteTemp
<1>29. ASSUME NEW t \in Threads, MoveTemp(t) PROVE MicrophoneIsKept'
  <2>1. /\ pc[t] = "move"
        /\ UNCHANGED <<mic, segment, pcm, ret, overlapped>>
        /\ \/ (Goto(t, "readManifest") \/ Goto(t, "unlink")) /\ UNCHANGED up
           \/ Goto(t, fret[t]) /\ up' = (up /\ fret[t] # "idle")
    <3>1. pc[t] = "move"
      BY <1>29, Zenon DEF MoveTemp
    <3> QED
      BY <1>29, <3>1, FlushSteps
  <2>2. CASE (Goto(t, "readManifest") \/ Goto(t, "unlink")) /\ UNCHANGED up
    BY <2>1, <2>2
  <2>3. CASE Goto(t, fret[t]) /\ up' = (up /\ fret[t] # "idle")
    BY <2>1, <2>3
  <2> QED
    BY <2>1, <2>2, <2>3
<1>30. ASSUME NEW t \in Threads, UnlinkManifest(t) PROVE MicrophoneIsKept'
  BY <1>30 DEF UnlinkManifest
<1>31. ASSUME NEW t \in Threads, RenameTemp(t) PROVE MicrophoneIsKept'
  BY <1>31 DEF RenameTemp, FlushReturns
<1>32. ASSUME TimePasses PROVE MicrophoneIsKept'
  BY <1>32 DEF TimePasses
<1>33. ASSUME Crash PROVE MicrophoneIsKept'
  BY <1>33 DEF Crash, FreshInstance
<1>34. ASSUME UNCHANGED vars PROVE MicrophoneIsKept'
  BY <1>34
<1> QED
  BY <1>1, <1>2, <1>3, <1>4, <1>5, <1>6, <1>7, <1>8, <1>9, <1>10, <1>11, <1>12,
     <1>13, <1>14, <1>15, <1>16, <1>17, <1>18, <1>19, <1>20, <1>21, <1>22, <1>23, <1>24,
     <1>25, <1>26, <1>27, <1>28, <1>29, <1>30, <1>31, <1>32, <1>33, <1>34, Zenon
     DEF Next, MainThread, RecordingThread, AnyThread

\* Flag and field are set and reset by the one recording thread there is.
LEMMA VoiceHasFileNext ==
  LabelsOK /\ DataOK /\ OneRecorder /\ ServiceIsUp /\ VoiceHasFile /\ [Next]_vars => VoiceHasFile'
<1> SUFFICES ASSUME LabelsOK, DataOK, OneRecorder, ServiceIsUp, VoiceHasFile, [Next]_vars PROVE VoiceHasFile'
  OBVIOUS
<1> USE ThreadsAssumption
    DEF LabelsOK, Pcs, SharedPcs, Goto, Threads, vars, service, mic, segment, rest,
        locals, returns, history, files, Serving, Settled, DataOK, OneRecorder, ServiceIsUp, VoiceHasFile
<1>1. ASSUME StartService PROVE VoiceHasFile'
  BY <1>1 DEF StartService, FreshInstance
<1>2. ASSUME OnStartCommand PROVE VoiceHasFile'
  BY <1>2 DEF OnStartCommand, StartRecording, CleanupOldRecordings
<1>3. ASSUME OnStartWithoutDirectory PROVE VoiceHasFile'
  BY <1>3 DEF OnStartWithoutDirectory
<1>4. ASSUME OnDestroy PROVE VoiceHasFile'
  BY <1>4 DEF OnDestroy
<1>5. ASSUME RestartCallback PROVE VoiceHasFile'
  BY <1>5 DEF RestartCallback, StartRecording
<1>6. ASSUME NEW r \in Recorders, LoopTest(r) PROVE VoiceHasFile'
  BY <1>6 DEF LoopTest
<1>7. ASSUME NEW r \in Recorders, ReadNothingNew(r) PROVE VoiceHasFile'
  BY <1>7 DEF ReadNothingNew
<1>8. ASSUME NEW r \in Recorders, VoiceStarts(r) PROVE VoiceHasFile'
  BY <1>8 DEF VoiceStarts
<1>9. ASSUME NEW r \in Recorders, CreateNewSegment(r) PROVE VoiceHasFile'
  BY <1>9 DEF CreateNewSegment, Fresh
<1>10. ASSUME NEW r \in Recorders, EndOfSegment(r) PROVE VoiceHasFile'
  BY <1>10 DEF EndOfSegment
<1>11. ASSUME NEW r \in Recorders, DeadObject(r) PROVE VoiceHasFile'
  BY <1>11 DEF DeadObject
<1>12. ASSUME NEW r \in Recorders, PostRestart(r) PROVE VoiceHasFile'
  BY <1>12 DEF PostRestart
<1>13. ASSUME NEW r \in Recorders, NullCurrentPcmFile(r) PROVE VoiceHasFile'
  BY <1>13 DEF NullCurrentPcmFile
<1>14. ASSUME NEW t \in Threads, StopRecording(t) PROVE VoiceHasFile'
  BY <1>14 DEF StopRecording
<1>15. ASSUME NEW t \in Threads, FinalizeSegment(t) PROVE VoiceHasFile'
  BY <1>15 DEF FinalizeSegment
<1>16. ASSUME NEW t \in Threads, ConvertPcmToWav(t) PROVE VoiceHasFile'
  <2>1. /\ pc[t] = "convert"
        /\ Goto(t, "copy") \/ Goto(t, "deletePcm")
        /\ UNCHANGED <<service, files, ret, overlapped>>
    BY <1>16 DEF ConvertPcmToWav
  <2> QED
    BY <2>1
<1>17. ASSUME NEW t \in Threads, CopyPcm(t) PROVE VoiceHasFile'
  BY <1>17 DEF CopyPcm
<1>18. ASSUME NEW t \in Threads, AddToBuffer(t) PROVE VoiceHasFile'
  BY <1>18 DEF AddToBuffer
<1>19. ASSUME NEW t \in Threads, BroadcastSaved(t) PROVE VoiceHasFile'
  BY <1>19 DEF BroadcastSaved
<1>20. ASSUME NEW t \in Threads, DeletePcm(t) PROVE VoiceHasFile'
  BY <1>20 DEF DeletePcm
<1>21. ASSUME NEW t \in Threads, ResetVoiceActive(t) PROVE VoiceHasFile'
  BY <1>21 DEF ResetVoiceActive
<1>22. ASSUME NEW t \in Threads, ForgetPcmFile(t) PROVE VoiceHasFile'
  BY <1>22 DEF ForgetPcmFile
<1>23. ASSUME NEW t \in Threads, ReleaseAudio(t) PROVE VoiceHasFile'
  BY <1>23 DEF ReleaseAudio
<1>24. ASSUME NEW t \in Threads, FlushSegmentManifest(t) PROVE VoiceHasFile'
  <2>1. /\ pc[t] = "flush"
        /\ UNCHANGED <<mic, segment, pcm, ret, overlapped>>
        /\ \/ (Goto(t, "readManifest") \/ Goto(t, "unlink")) /\ UNCHANGED up
           \/ Goto(t, fret[t]) /\ up' = (up /\ fret[t] # "idle")
    <3>1. pc[t] = "flush"
      BY <1>24, Zenon DEF FlushSegmentManifest
    <3> QED
      BY <1>24, <3>1, FlushSteps
  <2>2. CASE (Goto(t, "readManifest") \/ Goto(t, "unlink")) /\ UNCHANGED up
    BY <2>1, <2>2
  <2>3. CASE Goto(t, fret[t]) /\ up' = (up /\ fret[t] # "idle")
    BY <2>1, <2>3
  <2> QED
    BY <2>1, <2>2, <2>3
<1>25. ASSUME NEW t \in Threads, ReadManifest(t) PROVE VoiceHasFile'
  BY <1>25 DEF ReadManifest
<1>26. ASSUME NEW t \in Threads, AddAllOfBuffer(t) PROVE VoiceHasFile'
  BY <1>26 DEF AddAllOfBuffer
<1>27. ASSUME NEW t \in Threads, ClearBuffer(t) PROVE VoiceHasFile'
  BY <1>27 DEF ClearBuffer
<1>28. ASSUME NEW t \in Threads, WriteTemp(t) PROVE VoiceHasFile'
  <2>1. pc[t] = "write" /\ UNCHANGED <<mic, segment, pcm, ret, overlapped>>
    BY <1>28 DEF WriteTemp
  <2>2. CASE Goto(t, "move") /\ UNCHANGED up
    BY <2>1, <2>2
  <2>3. CASE FlushReturns(t)
    BY <2>1, <2>3 DEF FlushReturns
  <2> QED
    BY <1>28, <2>2, <2>3 DEF WriteTemp
<1>29. ASSUME NEW t \in Threads, MoveTemp(t) PROVE VoiceHasFile'
  <2>1. /\ pc[t] = "move"
        /\ UNCHANGED <<mic, segment, pcm, ret, overlapped>>
        /\ \/ (Goto(t, "readManifest") \/ Goto(t, "unlink")) /\ UNCHANGED up
           \/ Goto(t, fret[t]) /\ up' = (up /\ fret[t] # "idle")
    <3>1. pc[t] = "move"
      BY <1>29, Zenon DEF MoveTemp
    <3> QED
      BY <1>29, <3>1, FlushSteps
  <2>2. CASE (Goto(t, "readManifest") \/ Goto(t, "unlink")) /\ UNCHANGED up
    BY <2>1, <2>2
  <2>3. CASE Goto(t, fret[t]) /\ up' = (up /\ fret[t] # "idle")
    BY <2>1, <2>3
  <2> QED
    BY <2>1, <2>2, <2>3
<1>30. ASSUME NEW t \in Threads, UnlinkManifest(t) PROVE VoiceHasFile'
  BY <1>30 DEF UnlinkManifest
<1>31. ASSUME NEW t \in Threads, RenameTemp(t) PROVE VoiceHasFile'
  BY <1>31 DEF RenameTemp, FlushReturns
<1>32. ASSUME TimePasses PROVE VoiceHasFile'
  BY <1>32 DEF TimePasses
<1>33. ASSUME Crash PROVE VoiceHasFile'
  BY <1>33 DEF Crash, FreshInstance
<1>34. ASSUME UNCHANGED vars PROVE VoiceHasFile'
  BY <1>34
<1> QED
  BY <1>1, <1>2, <1>3, <1>4, <1>5, <1>6, <1>7, <1>8, <1>9, <1>10, <1>11, <1>12,
     <1>13, <1>14, <1>15, <1>16, <1>17, <1>18, <1>19, <1>20, <1>21, <1>22, <1>23, <1>24,
     <1>25, <1>26, <1>27, <1>28, <1>29, <1>30, <1>31, <1>32, <1>33, <1>34, Zenon
     DEF Next, MainThread, RecordingThread, AnyThread

-----------------------------------------------------------------------------
(* The manifest: one thread at a time ends a segment and flushes it, so no  *)
(* flush writes a list that it read before another one.                     *)

\* Nothing is under way: OneFinisher may hold again although it did not before.
Afresh ==
  /\ \A r \in Recorders : pc[r] = "dead"
  /\ pc[Main] \in {"idle", "start"}
  /\ segmentBuffer = {}

\* overlapped is reset only with a new instance, or with the process; nobody forgets a finalizer.
LEMMA FinisherNext ==
  ASSUME TypeOK, OneFinisher', [Next]_vars
  PROVE  OneFinisher \/ Afresh'
<1> USE ThreadsAssumption, ManifestValues
    DEF TypeOK, LabelsOK, Pcs, SharedPcs, Goto, Threads, vars, service, mic, segment, rest,
        locals, returns, history, files, DataOK, OneFinisher, Lone, Afresh
<1>1. ASSUME StartService PROVE OneFinisher \/ Afresh'
  BY <1>1 DEF StartService, FreshInstance
<1>2. ASSUME OnStartCommand PROVE OneFinisher \/ Afresh'
  BY <1>2 DEF OnStartCommand, StartRecording, CleanupOldRecordings
<1>3. ASSUME OnStartWithoutDirectory PROVE OneFinisher \/ Afresh'
  BY <1>3 DEF OnStartWithoutDirectory
<1>4. ASSUME OnDestroy PROVE OneFinisher \/ Afresh'
  BY <1>4 DEF OnDestroy
<1>5. ASSUME RestartCallback PROVE OneFinisher \/ Afresh'
  BY <1>5 DEF RestartCallback, StartRecording
<1>6. ASSUME NEW r \in Recorders, LoopTest(r) PROVE OneFinisher \/ Afresh'
  BY <1>6 DEF LoopTest
<1>7. ASSUME NEW r \in Recorders, ReadNothingNew(r) PROVE OneFinisher \/ Afresh'
  BY <1>7 DEF ReadNothingNew
<1>8. ASSUME NEW r \in Recorders, VoiceStarts(r) PROVE OneFinisher \/ Afresh'
  BY <1>8 DEF VoiceStarts
<1>9. ASSUME NEW r \in Recorders, CreateNewSegment(r) PROVE OneFinisher \/ Afresh'
  BY <1>9 DEF CreateNewSegment, Fresh
<1>10. ASSUME NEW r \in Recorders, EndOfSegment(r) PROVE OneFinisher \/ Afresh'
  BY <1>10 DEF EndOfSegment
<1>11. ASSUME NEW r \in Recorders, DeadObject(r) PROVE OneFinisher \/ Afresh'
  BY <1>11 DEF DeadObject
<1>12. ASSUME NEW r \in Recorders, PostRestart(r) PROVE OneFinisher \/ Afresh'
  BY <1>12 DEF PostRestart
<1>13. ASSUME NEW r \in Recorders, NullCurrentPcmFile(r) PROVE OneFinisher \/ Afresh'
  BY <1>13 DEF NullCurrentPcmFile
<1>14. ASSUME NEW t \in Threads, StopRecording(t) PROVE OneFinisher \/ Afresh'
  BY <1>14 DEF StopRecording
<1>15. ASSUME NEW t \in Threads, FinalizeSegment(t) PROVE OneFinisher \/ Afresh'
  <2>1. UNCHANGED <<overlapped, flushFailed>> /\ \A s \in Segments : finalizers[s] \subseteq finalizers'[s]
    BY <1>15 DEF FinalizeSegment
  <2> QED
    BY <2>1
<1>16. ASSUME NEW t \in Threads, ConvertPcmToWav(t) PROVE OneFinisher \/ Afresh'
  <2>1. /\ pc[t] = "convert"
        /\ Goto(t, "copy") \/ Goto(t, "deletePcm")
        /\ UNCHANGED <<service, segmentBuffer, files, ret, fret, overlapped, flushFailed>>
        /\ \/ UNCHANGED finalizers
           \/ finalizers' = [finalizers EXCEPT ![currentPcmFile] = @ \cup {t}]
    BY <1>16 DEF ConvertPcmToWav
  <2> QED
    BY <2>1
<1>17. ASSUME NEW t \in Threads, CopyPcm(t) PROVE OneFinisher \/ Afresh'
  BY <1>17 DEF CopyPcm
<1>18. ASSUME NEW t \in Threads, AddToBuffer(t) PROVE OneFinisher \/ Afresh'
  BY <1>18 DEF AddToBuffer
<1>19. ASSUME NEW t \in Threads, BroadcastSaved(t) PROVE OneFinisher \/ Afresh'
  BY <1>19 DEF BroadcastSaved
<1>20. ASSUME NEW t \in Threads, DeletePcm(t) PROVE OneFinisher \/ Afresh'
  <2>1. UNCHANGED <<overlapped, flushFailed>> /\ \A s \in Segments : finalizers[s] \subseteq finalizers'[s]
    BY <1>20 DEF DeletePcm
  <2> QED
    BY <2>1
<1>21. ASSUME NEW t \in Threads, ResetVoiceActive(t) PROVE OneFinisher \/ Afresh'
  BY <1>21 DEF ResetVoiceActive
<1>22. ASSUME NEW t \in Threads, ForgetPcmFile(t) PROVE OneFinisher \/ Afresh'
  BY <1>22 DEF ForgetPcmFile
<1>23. ASSUME NEW t \in Threads, ReleaseAudio(t) PROVE OneFinisher \/ Afresh'
  BY <1>23 DEF ReleaseAudio
<1>24. ASSUME NEW t \in Threads, FlushSegmentManifest(t) PROVE OneFinisher \/ Afresh'
  BY <1>24 DEF FlushSegmentManifest, FlushReturns
<1>25. ASSUME NEW t \in Threads, ReadManifest(t) PROVE OneFinisher \/ Afresh'
  BY <1>25 DEF ReadManifest
<1>26. ASSUME NEW t \in Threads, AddAllOfBuffer(t) PROVE OneFinisher \/ Afresh'
  BY <1>26 DEF AddAllOfBuffer
<1>27. ASSUME NEW t \in Threads, ClearBuffer(t) PROVE OneFinisher \/ Afresh'
  BY <1>27 DEF ClearBuffer
<1>28. ASSUME NEW t \in Threads, WriteTemp(t) PROVE OneFinisher \/ Afresh'
  BY <1>28 DEF WriteTemp, FlushReturns
<1>29. ASSUME NEW t \in Threads, MoveTemp(t) PROVE OneFinisher \/ Afresh'
  BY <1>29 DEF MoveTemp, FlushReturns
<1>30. ASSUME NEW t \in Threads, UnlinkManifest(t) PROVE OneFinisher \/ Afresh'
  BY <1>30 DEF UnlinkManifest
<1>31. ASSUME NEW t \in Threads, RenameTemp(t) PROVE OneFinisher \/ Afresh'
  BY <1>31 DEF RenameTemp, FlushReturns
<1>32. ASSUME TimePasses PROVE OneFinisher \/ Afresh'
  BY <1>32 DEF TimePasses
<1>33. ASSUME Crash PROVE OneFinisher \/ Afresh'
  BY <1>33 DEF Crash, FreshInstance
<1>34. ASSUME UNCHANGED vars PROVE OneFinisher \/ Afresh'
  BY <1>34
<1> QED
  BY <1>1, <1>2, <1>3, <1>4, <1>5, <1>6, <1>7, <1>8, <1>9, <1>10, <1>11, <1>12, <1>13,
     <1>14, <1>15, <1>16, <1>17, <1>18, <1>19, <1>20, <1>21, <1>22, <1>23, <1>24, <1>25,
     <1>26, <1>27, <1>28, <1>29, <1>30, <1>31, <1>32, <1>33, <1>34, Zenon
     DEF Next, MainThread, RecordingThread, AnyThread

\* A step of one thread that does not begin to end a segment, nor opens one.
LEMMA EndingStays ==
  ASSUME TypeOK, ServiceIsUp, RecorderEnds, MainEnds, NothingEnds, NEW t \in Threads,
         \A u \in Threads \ {t} : pc'[u] = pc[u] /\ fret'[u] = fret[u],
         Ending(t)' => Ending(t),
         pc'[t] # "forget",
         t \in Recorders /\ pc[t] \in {"create", "loop", "dead"} =>
           pc'[t] \in {"create", "loop", "dead"} \/ isRecording,
         t = Main => (PastStop' => PastStop),
         UNCHANGED <<isVoiceActive, currentPcmFile>>, t = Main \/ up' = up,
         \A s \in Segments : finalizers[s] \subseteq finalizers'[s]
  PROVE  RecorderEnds' /\ MainEnds' /\ NothingEnds'
<1> USE ThreadsAssumption DEF Threads
<1>0. currentPcmFile \in Segments \cup {None}
  BY DEF TypeOK, DataOK
<1>1. \A u \in Threads : Ending(u)' => Ending(u)
  BY DEF Ending
<1>2. \A r \in Recorders : pc'[r] = "forget" => pc[r] = "forget"
  OBVIOUS
<1>3. RecorderEnds'
  BY <1>0, <1>1, <1>2 DEF RecorderEnds
<1>4. PastStop' => PastStop
  BY DEF PastStop
<1>5. (Ending(Main) \/ PastStop) => ~isRecording
  BY DEF ServiceIsUp, Serving, Ending, PastStop, FlushPcs
<1>6. Leaving /\ ~isRecording => Leaving'
  BY DEF Leaving
<1>7. MainEnds'
  BY <1>0, <1>1, <1>5, <1>6 DEF MainEnds
<1>8. NothingEnds'
  BY <1>1, <1>4, <1>5, <1>6 DEF NothingEnds
<1> QED
  BY <1>3, <1>7, <1>8

\* Two threads that end a segment end the same one.
LEMMA EndingNext ==
  ASSUME TypeOK, OneRecorder, ServiceIsUp, OneFinisher, OneFinisher',
         RecorderEnds, MainEnds, NothingEnds, [Next]_vars
  PROVE  RecorderEnds' /\ MainEnds' /\ NothingEnds'
<1> USE ThreadsAssumption, ManifestValues
    DEF TypeOK, LabelsOK, Pcs, SharedPcs, Goto, Threads, vars, service, mic, segment, rest,
        locals, returns, history, files, DataOK, Ending, PastStop, FlushPcs
<1>1. ASSUME StartService PROVE RecorderEnds' /\ MainEnds' /\ NothingEnds'
  BY <1>1 DEF StartService, FreshInstance,
     OneFinisher, Lone, RecorderEnds, MainEnds, NothingEnds, Leaving, OneRecorder, ServiceIsUp,
     Serving
<1>2. ASSUME OnStartCommand PROVE RecorderEnds' /\ MainEnds' /\ NothingEnds'
  <2>1. RecorderEnds'
    BY <1>2 DEF OnStartCommand, StartRecording, CleanupOldRecordings, Lone, OneFinisher,
                OneRecorder, ServiceIsUp, Serving, RecorderEnds, MainEnds, NothingEnds, Leaving
  <2>2. MainEnds'
    BY <1>2 DEF OnStartCommand, StartRecording, CleanupOldRecordings, Lone, OneFinisher,
                OneRecorder, ServiceIsUp, Serving, RecorderEnds, MainEnds, NothingEnds, Leaving
  <2>3. NothingEnds'
    BY <1>2 DEF OnStartCommand, StartRecording, CleanupOldRecordings, Lone, OneFinisher,
                OneRecorder, ServiceIsUp, Serving, RecorderEnds, MainEnds, NothingEnds, Leaving
  <2> QED
    BY <2>1, <2>2, <2>3
<1>3. ASSUME OnStartWithoutDirectory PROVE RecorderEnds' /\ MainEnds' /\ NothingEnds'
  BY <1>3, EndingStays DEF OnStartWithoutDirectory
<1>4. ASSUME OnDestroy PROVE RecorderEnds' /\ MainEnds' /\ NothingEnds'
  BY <1>4, EndingStays DEF OnDestroy
<1>5. ASSUME RestartCallback PROVE RecorderEnds' /\ MainEnds' /\ NothingEnds'
  BY <1>5 DEF RestartCallback, StartRecording,
     OneFinisher, Lone, RecorderEnds, MainEnds, NothingEnds, Leaving, OneRecorder, ServiceIsUp,
     Serving
<1>6. ASSUME NEW r \in Recorders, LoopTest(r) PROVE RecorderEnds' /\ MainEnds' /\ NothingEnds'
  BY <1>6, EndingStays DEF LoopTest
<1>7. ASSUME NEW r \in Recorders, ReadNothingNew(r)
      PROVE  RecorderEnds' /\ MainEnds' /\ NothingEnds'
  BY <1>7, EndingStays DEF ReadNothingNew
<1>8. ASSUME NEW r \in Recorders, VoiceStarts(r)
      PROVE  RecorderEnds' /\ MainEnds' /\ NothingEnds'
  <2>1. RecorderEnds'
    BY <1>8 DEF VoiceStarts, Lone, OneFinisher, OneRecorder, ServiceIsUp, Serving, RecorderEnds,
                MainEnds, NothingEnds, Leaving
  <2>2. MainEnds'
    BY <1>8 DEF VoiceStarts, Lone, OneFinisher, OneRecorder, ServiceIsUp, Serving, RecorderEnds,
                MainEnds, NothingEnds, Leaving
  <2>3. NothingEnds'
    BY <1>8 DEF VoiceStarts, Lone, OneFinisher, OneRecorder, ServiceIsUp, Serving, RecorderEnds,
                MainEnds, NothingEnds, Leaving
  <2> QED
    BY <2>1, <2>2, <2>3
<1>9. ASSUME NEW r \in Recorders, CreateNewSegment(r)
      PROVE  RecorderEnds' /\ MainEnds' /\ NothingEnds'
  BY <1>9 DEF CreateNewSegment, Fresh,
     OneFinisher, Lone, RecorderEnds, MainEnds, NothingEnds, Leaving, OneRecorder, ServiceIsUp,
     Serving
<1>10. ASSUME NEW r \in Recorders, EndOfSegment(r)
       PROVE  RecorderEnds' /\ MainEnds' /\ NothingEnds'
  BY <1>10, EndingStays DEF EndOfSegment
<1>11. ASSUME NEW r \in Recorders, DeadObject(r)
       PROVE  RecorderEnds' /\ MainEnds' /\ NothingEnds'
  BY <1>11, EndingStays DEF DeadObject
<1>12. ASSUME NEW r \in Recorders, PostRestart(r)
       PROVE  RecorderEnds' /\ MainEnds' /\ NothingEnds'
  BY <1>12, EndingStays DEF PostRestart
<1>13. ASSUME NEW r \in Recorders, NullCurrentPcmFile(r)
       PROVE  RecorderEnds' /\ MainEnds' /\ NothingEnds'
  BY <1>13, EndingStays DEF NullCurrentPcmFile
<1>14. ASSUME NEW t \in Threads, StopRecording(t)
       PROVE  RecorderEnds' /\ MainEnds' /\ NothingEnds'
  BY <1>14, EndingStays DEF StopRecording
<1>15. ASSUME NEW t \in Threads, FinalizeSegment(t)
       PROVE  RecorderEnds' /\ MainEnds' /\ NothingEnds'
  <2>1. RecorderEnds'
    BY <1>15 DEF FinalizeSegment, Lone, OneFinisher, OneRecorder, ServiceIsUp, Serving,
                 RecorderEnds, MainEnds, NothingEnds, Leaving
  <2>2. MainEnds'
    BY <1>15 DEF FinalizeSegment, Lone, OneFinisher, OneRecorder, ServiceIsUp, Serving,
                 RecorderEnds, MainEnds, NothingEnds, Leaving
  <2>3. NothingEnds'
    BY <1>15 DEF FinalizeSegment, Lone, OneFinisher, OneRecorder, ServiceIsUp, Serving,
                 RecorderEnds, MainEnds, NothingEnds, Leaving
  <2> QED
    BY <2>1, <2>2, <2>3
<1>16. ASSUME NEW t \in Threads, ConvertPcmToWav(t)
       PROVE  RecorderEnds' /\ MainEnds' /\ NothingEnds'
  <2>1. /\ pc[t] = "convert"
        /\ Goto(t, "copy") \/ Goto(t, "deletePcm")
        /\ UNCHANGED <<service, segmentBuffer, files, ret, fret, overlapped>>
        /\ \/ UNCHANGED finalizers
           \/ finalizers' = [finalizers EXCEPT ![currentPcmFile] = @ \cup {t}]
    BY <1>16 DEF ConvertPcmToWav
  <2>2. \A s \in Segments : finalizers[s] \subseteq finalizers'[s]
    BY <2>1
  <2>3. CASE Goto(t, "copy")
    BY <2>1, <2>2, <2>3, EndingStays
  <2>4. CASE Goto(t, "deletePcm")
    BY <2>1, <2>2, <2>4, EndingStays
  <2> QED
    BY <2>1, <2>3, <2>4
<1>17. ASSUME NEW t \in Threads, CopyPcm(t) PROVE RecorderEnds' /\ MainEnds' /\ NothingEnds'
  BY <1>17, EndingStays DEF CopyPcm
<1>18. ASSUME NEW t \in Threads, AddToBuffer(t) PROVE RecorderEnds' /\ MainEnds' /\ NothingEnds'
  BY <1>18, EndingStays DEF AddToBuffer
<1>19. ASSUME NEW t \in Threads, BroadcastSaved(t)
       PROVE  RecorderEnds' /\ MainEnds' /\ NothingEnds'
  BY <1>19, EndingStays DEF BroadcastSaved
<1>20. ASSUME NEW t \in Threads, DeletePcm(t) PROVE RecorderEnds' /\ MainEnds' /\ NothingEnds'
  BY <1>20, EndingStays DEF DeletePcm
<1>21. ASSUME NEW t \in Threads, ResetVoiceActive(t)
       PROVE  RecorderEnds' /\ MainEnds' /\ NothingEnds'
  <2>1. RecorderEnds'
    BY <1>21 DEF ResetVoiceActive, Lone, OneFinisher, OneRecorder, ServiceIsUp, Serving,
                 RecorderEnds, MainEnds, NothingEnds, Leaving
  <2>2. MainEnds'
    BY <1>21 DEF ResetVoiceActive, Lone, OneFinisher, OneRecorder, ServiceIsUp, Serving,
                 RecorderEnds, MainEnds, NothingEnds, Leaving
  <2>3. NothingEnds'
    BY <1>21 DEF ResetVoiceActive, Lone, OneFinisher, OneRecorder, ServiceIsUp, Serving,
                 RecorderEnds, MainEnds, NothingEnds, Leaving
  <2> QED
    BY <2>1, <2>2, <2>3
<1>22. ASSUME NEW t \in Threads, ForgetPcmFile(t)
       PROVE  RecorderEnds' /\ MainEnds' /\ NothingEnds'
  <2>1. RecorderEnds'
    BY <1>22 DEF ForgetPcmFile, Lone, OneFinisher, OneRecorder, ServiceIsUp, Serving,
                 RecorderEnds, MainEnds, NothingEnds, Leaving
  <2>2. MainEnds'
    BY <1>22 DEF ForgetPcmFile, Lone, OneFinisher, OneRecorder, ServiceIsUp, Serving,
                 RecorderEnds, MainEnds, NothingEnds, Leaving
  <2>3. NothingEnds'
    BY <1>22 DEF ForgetPcmFile, Lone, OneFinisher, OneRecorder, ServiceIsUp, Serving,
                 RecorderEnds, MainEnds, NothingEnds, Leaving
  <2> QED
    BY <2>1, <2>2, <2>3
<1>23. ASSUME NEW t \in Threads, ReleaseAudio(t)
       PROVE  RecorderEnds' /\ MainEnds' /\ NothingEnds'
  BY <1>23, EndingStays DEF ReleaseAudio
<1>24. ASSUME NEW t \in Threads, FlushSegmentManifest(t)
       PROVE  RecorderEnds' /\ MainEnds' /\ NothingEnds'
  BY <1>24, EndingStays DEF FlushSegmentManifest, FlushReturns
<1>25. ASSUME NEW t \in Threads, ReadManifest(t)
       PROVE  RecorderEnds' /\ MainEnds' /\ NothingEnds'
  BY <1>25, EndingStays DEF ReadManifest
<1>26. ASSUME NEW t \in Threads, AddAllOfBuffer(t)
       PROVE  RecorderEnds' /\ MainEnds' /\ NothingEnds'
  BY <1>26, EndingStays DEF AddAllOfBuffer
<1>27. ASSUME NEW t \in Threads, ClearBuffer(t) PROVE RecorderEnds' /\ MainEnds' /\ NothingEnds'
  BY <1>27, EndingStays DEF ClearBuffer
<1>28. ASSUME NEW t \in Threads, WriteTemp(t) PROVE RecorderEnds' /\ MainEnds' /\ NothingEnds'
  BY <1>28, EndingStays DEF WriteTemp, FlushReturns
<1>29. ASSUME NEW t \in Threads, MoveTemp(t) PROVE RecorderEnds' /\ MainEnds' /\ NothingEnds'
  BY <1>29, EndingStays DEF MoveTemp, FlushReturns
<1>30. ASSUME NEW t \in Threads, UnlinkManifest(t)
       PROVE  RecorderEnds' /\ MainEnds' /\ NothingEnds'
  BY <1>30, EndingStays DEF UnlinkManifest
<1>31. ASSUME NEW t \in Threads, RenameTemp(t) PROVE RecorderEnds' /\ MainEnds' /\ NothingEnds'
  BY <1>31, EndingStays DEF RenameTemp, FlushReturns
<1>32. ASSUME TimePasses PROVE RecorderEnds' /\ MainEnds' /\ NothingEnds'
  BY <1>32 DEF TimePasses,
     OneFinisher, Lone, RecorderEnds, MainEnds, NothingEnds, Leaving, OneRecorder, ServiceIsUp,
     Serving
<1>33. ASSUME Crash PROVE RecorderEnds' /\ MainEnds' /\ NothingEnds'
  BY <1>33 DEF Crash, FreshInstance,
     OneFinisher, Lone, RecorderEnds, MainEnds, NothingEnds, Leaving, OneRecorder, ServiceIsUp,
     Serving
<1>34. ASSUME UNCHANGED vars PROVE RecorderEnds' /\ MainEnds' /\ NothingEnds'
  BY <1>34 DEF OneFinisher, Lone, RecorderEnds, MainEnds, NothingEnds, Leaving, OneRecorder,
               ServiceIsUp, Serving
<1> QED
  BY <1>1, <1>2, <1>3, <1>4, <1>5, <1>6, <1>7, <1>8, <1>9, <1>10, <1>11, <1>12, <1>13,
     <1>14, <1>15, <1>16, <1>17, <1>18, <1>19, <1>20, <1>21, <1>22, <1>23, <1>24, <1>25,
     <1>26, <1>27, <1>28, <1>29, <1>30, <1>31, <1>32, <1>33, <1>34, Zenon
     DEF Next, MainThread, RecordingThread, AnyThread

\* Without overlaps one thread at a time ends a segment.
LEMMA OneEnding ==
  ASSUME TypeOK, OneRecorder, ~overlapped, MainEnds,
         NEW t \in Threads, NEW u \in Threads, Ending(t), Ending(u)
  PROVE  t = u
<1>1. \A r \in Threads : Ending(r) => pc[r] # "dead"
  BY DEF Ending, FlushPcs
<1> QED
  BY <1>1 DEF OneRecorder, MainEnds, Threads

\* The thread that put something into the buffer goes on to its flush.
LEMMA OwnerStays ==
  ASSUME BufferHasOwner, NEW t \in Threads, UNCHANGED segmentBuffer,
         \A u \in Threads \ {t} : pc'[u] = pc[u] /\ fret'[u] = fret[u],
         segmentBuffer # {} /\ Ending(t)
           /\ pc[t] \in {"broadcast", "deletePcm", "flush", "readManifest", "addAll", "clear"}
         => Ending(t)'
           /\ pc'[t] \in {"broadcast", "deletePcm", "flush", "readManifest", "addAll", "clear"}
  PROVE  BufferHasOwner'
<1>1. CASE segmentBuffer = {}
  BY <1>1 DEF BufferHasOwner
<1>2. CASE segmentBuffer # {}
  <2>1. PICK u \in Threads :
          /\ Ending(u)
          /\ pc[u] \in {"broadcast", "deletePcm", "flush", "readManifest", "addAll", "clear"}
    BY <1>2 DEF BufferHasOwner
  <2>2. /\ Ending(u)'
        /\ pc'[u] \in {"broadcast", "deletePcm", "flush", "readManifest", "addAll", "clear"}
    BY <1>2, <2>1 DEF Ending
  <2> QED
    BY <2>2 DEF BufferHasOwner
<1> QED
  BY <1>1, <1>2

\* A segment is in the buffer only while the thread that ended it goes on to a flush.
LEMMA BufferOwnerNext ==
  ASSUME TypeOK, BufferHasOwner, [Next]_vars
  PROVE  BufferHasOwner'
<1> USE ThreadsAssumption, ManifestValues
    DEF TypeOK, LabelsOK, Pcs, SharedPcs, Goto, Threads, vars, service, mic, segment, rest,
        locals, returns, history, files, DataOK, Ending, FlushPcs
<1>1. ASSUME StartService PROVE BufferHasOwner'
  <2>1. (segmentBuffer' = segmentBuffer \/ segmentBuffer' = {})
        /\ \A t \in Threads : pc[t] \notin {"idle", "start", "dead"} =>
             pc'[t] = pc[t] /\ fret'[t] = fret[t]
    BY <1>1 DEF StartService, FreshInstance
  <2> QED
    BY <2>1 DEF BufferHasOwner
<1>2. ASSUME OnStartCommand PROVE BufferHasOwner'
  <2>1. (segmentBuffer' = segmentBuffer \/ segmentBuffer' = {})
        /\ \A t \in Threads : pc[t] \notin {"idle", "start", "dead"} =>
             pc'[t] = pc[t] /\ fret'[t] = fret[t]
    BY <1>2 DEF OnStartCommand, StartRecording, CleanupOldRecordings
  <2> QED
    BY <2>1 DEF BufferHasOwner
<1>3. ASSUME OnStartWithoutDirectory PROVE BufferHasOwner'
  BY <1>3, OwnerStays DEF OnStartWithoutDirectory
<1>4. ASSUME OnDestroy PROVE BufferHasOwner'
  BY <1>4, OwnerStays DEF OnDestroy
<1>5. ASSUME RestartCallback PROVE BufferHasOwner'
  <2>1. (segmentBuffer' = segmentBuffer \/ segmentBuffer' = {})
        /\ \A t \in Threads : pc[t] \notin {"idle", "start", "dead"} =>
             pc'[t] = pc[t] /\ fret'[t] = fret[t]
    BY <1>5 DEF RestartCallback, StartRecording
  <2> QED
    BY <2>1 DEF BufferHasOwner
<1>6. ASSUME NEW r \in Recorders, LoopTest(r) PROVE BufferHasOwner'
  BY <1>6, OwnerStays DEF LoopTest
<1>7. ASSUME NEW r \in Recorders, ReadNothingNew(r) PROVE BufferHasOwner'
  BY <1>7, OwnerStays DEF ReadNothingNew
<1>8. ASSUME NEW r \in Recorders, VoiceStarts(r) PROVE BufferHasOwner'
  BY <1>8, OwnerStays DEF VoiceStarts
<1>9. ASSUME NEW r \in Recorders, CreateNewSegment(r) PROVE BufferHasOwner'
  BY <1>9, OwnerStays DEF CreateNewSegment, Fresh
<1>10. ASSUME NEW r \in Recorders, EndOfSegment(r) PROVE BufferHasOwner'
  BY <1>10, OwnerStays DEF EndOfSegment
<1>11. ASSUME NEW r \in Recorders, DeadObject(r) PROVE BufferHasOwner'
  BY <1>11, OwnerStays DEF DeadObject
<1>12. ASSUME NEW r \in Recorders, PostRestart(r) PROVE BufferHasOwner'
  BY <1>12, OwnerStays DEF PostRestart
<1>13. ASSUME NEW r \in Recorders, NullCurrentPcmFile(r) PROVE BufferHasOwner'
  BY <1>13, OwnerStays DEF NullCurrentPcmFile
<1>14. ASSUME NEW t \in Threads, StopRecording(t) PROVE BufferHasOwner'
  BY <1>14, OwnerStays DEF StopRecording
<1>15. ASSUME NEW t \in Threads, FinalizeSegment(t) PROVE BufferHasOwner'
  BY <1>15, OwnerStays DEF FinalizeSegment
<1>16. ASSUME NEW t \in Threads, ConvertPcmToWav(t) PROVE BufferHasOwner'
  <2>1. /\ pc[t] = "convert"
        /\ Goto(t, "copy") \/ Goto(t, "deletePcm")
        /\ UNCHANGED <<service, segmentBuffer, files, ret, fret, overlapped>>
        /\ \/ UNCHANGED finalizers
           \/ finalizers' = [finalizers EXCEPT ![currentPcmFile] = @ \cup {t}]
    BY <1>16 DEF ConvertPcmToWav
  <2> QED
    BY <2>1, OwnerStays
<1>17. ASSUME NEW t \in Threads, CopyPcm(t) PROVE BufferHasOwner'
  BY <1>17, OwnerStays DEF CopyPcm
<1>18. ASSUME NEW t \in Threads, AddToBuffer(t) PROVE BufferHasOwner'
  <2>1. Ending(t)' /\ pc'[t] \in {"broadcast", "flush"}
    BY <1>18 DEF AddToBuffer
  <2> QED
    BY <2>1 DEF BufferHasOwner
<1>19. ASSUME NEW t \in Threads, BroadcastSaved(t) PROVE BufferHasOwner'
  BY <1>19, OwnerStays DEF BroadcastSaved
<1>20. ASSUME NEW t \in Threads, DeletePcm(t) PROVE BufferHasOwner'
  BY <1>20, OwnerStays DEF DeletePcm
<1>21. ASSUME NEW t \in Threads, ResetVoiceActive(t) PROVE BufferHasOwner'
  BY <1>21, OwnerStays DEF ResetVoiceActive
<1>22. ASSUME NEW t \in Threads, ForgetPcmFile(t) PROVE BufferHasOwner'
  BY <1>22, OwnerStays DEF ForgetPcmFile
<1>23. ASSUME NEW t \in Threads, ReleaseAudio(t) PROVE BufferHasOwner'
  BY <1>23, OwnerStays DEF ReleaseAudio
<1>24. ASSUME NEW t \in Threads, FlushSegmentManifest(t) PROVE BufferHasOwner'
  BY <1>24, OwnerStays DEF FlushSegmentManifest, FlushReturns
<1>25. ASSUME NEW t \in Threads, ReadManifest(t) PROVE BufferHasOwner'
  BY <1>25, OwnerStays DEF ReadManifest
<1>26. ASSUME NEW t \in Threads, AddAllOfBuffer(t) PROVE BufferHasOwner'
  BY <1>26, OwnerStays DEF AddAllOfBuffer
<1>27. ASSUME NEW t \in Threads, ClearBuffer(t) PROVE BufferHasOwner'
  BY <1>27 DEF ClearBuffer, BufferHasOwner
<1>28. ASSUME NEW t \in Threads, WriteTemp(t) PROVE BufferHasOwner'
  BY <1>28, OwnerStays DEF WriteTemp, FlushReturns
<1>29. ASSUME NEW t \in Threads, MoveTemp(t) PROVE BufferHasOwner'
  BY <1>29, OwnerStays DEF MoveTemp, FlushReturns
<1>30. ASSUME NEW t \in Threads, UnlinkManifest(t) PROVE BufferHasOwner'
  BY <1>30, OwnerStays DEF UnlinkManifest
<1>31. ASSUME NEW t \in Threads, RenameTemp(t) PROVE BufferHasOwner'
  BY <1>31, OwnerStays DEF RenameTemp, FlushReturns
<1>32. ASSUME TimePasses PROVE BufferHasOwner'
  BY <1>32 DEF TimePasses, BufferHasOwner
<1>33. ASSUME Crash PROVE BufferHasOwner'
  BY <1>33 DEF Crash, FreshInstance, BufferHasOwner
<1>34. ASSUME UNCHANGED vars PROVE BufferHasOwner'
  BY <1>34 DEF BufferHasOwner
<1> QED
  BY <1>1, <1>2, <1>3, <1>4, <1>5, <1>6, <1>7, <1>8, <1>9, <1>10, <1>11, <1>12, <1>13,
     <1>14, <1>15, <1>16, <1>17, <1>18, <1>19, <1>20, <1>21, <1>22, <1>23, <1>24, <1>25,
     <1>26, <1>27, <1>28, <1>29, <1>30, <1>31, <1>32, <1>33, <1>34, Zenon
     DEF Next, MainThread, RecordingThread, AnyThread

\* No flush is under way but those that go on as they were.
LEMMA CarriesStays ==
  ASSUME FlushCarries, NEW t \in Threads, UNCHANGED <<manifest, tmp>>,
         \A u \in Threads \ {t} : pc'[u] = pc[u] /\ fret'[u] = fret[u] /\ entries'[u] = entries[u],
         pc'[t] \notin FlushPcs \ {"flush"}
  PROVE  FlushCarries'
  BY DEF FlushCarries, Ending, FlushPcs

\* The same when t has replaced manifest or temporary file, and was the only one to end a segment.
LEMMA CarriesAlone ==
  ASSUME FlushCarries, NEW t \in Threads, \A u \in Threads : Ending(u) => u = t,
         \A u \in Threads \ {t} : pc'[u] = pc[u],
         pc'[t] \in FlushPcs \ {"flush"} => Ending(t)',
         pc'[t] \in {"addAll", "clear", "write"} => Entries(manifest') \subseteq entries'[t],
         pc'[t] = "move" => tmp' # NoFile /\ Entries(manifest') \subseteq tmp',
         pc'[t] \notin {"unlink", "rename"}
  PROVE  FlushCarries'
<1>1. \A u \in Threads \ {t} : pc'[u] \notin FlushPcs \ {"flush"}
  BY DEF FlushCarries
<1> QED
  BY <1>1 DEF FlushCarries, FlushPcs

\* Only one thread replaces the manifest at a time, and what it writes has all that was there.
LEMMA FlushCarriesNext ==
  ASSUME AtomicMove, TypeOK, OneRecorder, OneFinisher, MainEnds, NothingEnds,
         BufferHasOwner, FlushCarries, [Next]_vars, ~flushFailed'
  PROVE  FlushCarries'
<1> USE ThreadsAssumption, ManifestValues
    DEF TypeOK, LabelsOK, Pcs, SharedPcs, Goto, Threads, vars, service, mic, segment, rest,
        locals, returns, history, files, DataOK, Ending, FlushPcs, interface
<1>1. ASSUME StartService PROVE FlushCarries'
  <2>1. /\ UNCHANGED <<manifest, tmp, entries, fret>>
        /\ \A t \in Threads : pc'[t] \in {"idle", "start", "dead", "loop"} \/ pc'[t] = pc[t]
    BY <1>1 DEF StartService, FreshInstance
  <2> QED
    BY <2>1 DEF FlushCarries
<1>2. ASSUME OnStartCommand PROVE FlushCarries'
  <2>1. /\ UNCHANGED <<manifest, tmp, entries, fret>>
        /\ \A t \in Threads : pc'[t] \in {"idle", "start", "dead", "loop"} \/ pc'[t] = pc[t]
    BY <1>2 DEF OnStartCommand, StartRecording, CleanupOldRecordings
  <2> QED
    BY <2>1 DEF FlushCarries
<1>3. ASSUME OnStartWithoutDirectory PROVE FlushCarries'
  BY <1>3, CarriesStays DEF OnStartWithoutDirectory
<1>4. ASSUME OnDestroy PROVE FlushCarries'
  BY <1>4, CarriesStays DEF OnDestroy
<1>5. ASSUME RestartCallback PROVE FlushCarries'
  <2>1. /\ UNCHANGED <<manifest, tmp, entries, fret>>
        /\ \A t \in Threads : pc'[t] \in {"idle", "start", "dead", "loop"} \/ pc'[t] = pc[t]
    BY <1>5 DEF RestartCallback, StartRecording
  <2> QED
    BY <2>1 DEF FlushCarries
<1>6. ASSUME NEW r \in Recorders, LoopTest(r) PROVE FlushCarries'
  BY <1>6, CarriesStays DEF LoopTest
<1>7. ASSUME NEW r \in Recorders, ReadNothingNew(r) PROVE FlushCarries'
  BY <1>7, CarriesStays DEF ReadNothingNew
<1>8. ASSUME NEW r \in Recorders, VoiceStarts(r) PROVE FlushCarries'
  BY <1>8, CarriesStays DEF VoiceStarts
<1>9. ASSUME NEW r \in Recorders, CreateNewSegment(r) PROVE FlushCarries'
  BY <1>9, CarriesStays DEF CreateNewSegment, Fresh
<1>10. ASSUME NEW r \in Recorders, EndOfSegment(r) PROVE FlushCarries'
  BY <1>10, CarriesStays DEF EndOfSegment
<1>11. ASSUME NEW r \in Recorders, DeadObject(r) PROVE FlushCarries'
  BY <1>11, CarriesStays DEF DeadObject
<1>12. ASSUME NEW r \in Recorders, PostRestart(r) PROVE FlushCarries'
  BY <1>12, CarriesStays DEF PostRestart
<1>13. ASSUME NEW r \in Recorders, NullCurrentPcmFile(r) PROVE FlushCarries'
  BY <1>13, CarriesStays DEF NullCurrentPcmFile
<1>14. ASSUME NEW t \in Threads, StopRecording(t) PROVE FlushCarries'
  BY <1>14, CarriesStays DEF StopRecording
<1>15. ASSUME NEW t \in Threads, FinalizeSegment(t) PROVE FlushCarries'
  BY <1>15, CarriesStays DEF FinalizeSegment
<1>16. ASSUME NEW t \in Threads, ConvertPcmToWav(t) PROVE FlushCarries'
  <2>1. Goto(t, "copy") \/ Goto(t, "deletePcm")
    BY <1>16 DEF ConvertPcmToWav
  <2>2. UNCHANGED <<manifest, tmp, entries, fret>>
    BY <1>16 DEF ConvertPcmToWav
  <2> QED
    BY <2>1, <2>2, CarriesStays
<1>17. ASSUME NEW t \in Threads, CopyPcm(t) PROVE FlushCarries'
  BY <1>17, CarriesStays DEF CopyPcm
<1>18. ASSUME NEW t \in Threads, AddToBuffer(t) PROVE FlushCarries'
  BY <1>18, CarriesStays DEF AddToBuffer
<1>19. ASSUME NEW t \in Threads, BroadcastSaved(t) PROVE FlushCarries'
  BY <1>19, CarriesStays DEF BroadcastSaved
<1>20. ASSUME NEW t \in Threads, DeletePcm(t) PROVE FlushCarries'
  BY <1>20, CarriesStays DEF DeletePcm
<1>21. ASSUME NEW t \in Threads, ResetVoiceActive(t) PROVE FlushCarries'
  BY <1>21, CarriesStays DEF ResetVoiceActive
<1>22. ASSUME NEW t \in Threads, ForgetPcmFile(t) PROVE FlushCarries'
  BY <1>22, CarriesStays DEF ForgetPcmFile
<1>23. ASSUME NEW t \in Threads, ReleaseAudio(t) PROVE FlushCarries'
  BY <1>23, CarriesStays DEF ReleaseAudio
<1>24. ASSUME NEW t \in Threads, FlushSegmentManifest(t) PROVE FlushCarries'
  <2>1. CASE segmentBuffer = {}
    BY <1>24, <2>1, CarriesStays DEF FlushSegmentManifest, FlushReturns
  <2>2. CASE segmentBuffer # {}
    <3>1. fret[t] # "idle"
      BY <1>24, <2>2 DEF FlushSegmentManifest, BufferHasOwner, NothingEnds, PastStop
    <3>2. Ending(t)' /\ Goto(t, "readManifest") /\ UNCHANGED <<manifest, tmp, entries, fret>>
      BY <1>24, <2>2, <3>1 DEF FlushSegmentManifest
    <3> QED
      BY <3>2 DEF FlushCarries
  <2> QED
    BY <2>1, <2>2
<1>25. ASSUME NEW t \in Threads, ReadManifest(t) PROVE FlushCarries'
  BY <1>25 DEF ReadManifest, FlushCarries
<1>26. ASSUME NEW t \in Threads, AddAllOfBuffer(t) PROVE FlushCarries'
  BY <1>26 DEF AddAllOfBuffer, FlushCarries
<1>27. ASSUME NEW t \in Threads, ClearBuffer(t) PROVE FlushCarries'
  BY <1>27 DEF ClearBuffer, FlushCarries
<1>28. ASSUME NEW t \in Threads, WriteTemp(t) PROVE FlushCarries'
  <2>1. Ending(t)
    BY <1>28 DEF WriteTemp, FlushCarries
  <2>2. \A u \in Threads : Ending(u) => u = t
    BY <2>1, OneEnding DEF OneFinisher
  <2>3. entries[t] # NoFile
    BY <1>28 DEF WriteTemp
  <2> QED
    BY <1>28, <2>2, <2>3, CarriesAlone DEF WriteTemp, FlushReturns, FlushCarries
<1>29. ASSUME NEW t \in Threads, MoveTemp(t) PROVE FlushCarries'
  <2>1. Ending(t) /\ tmp # NoFile
    BY <1>29 DEF MoveTemp, FlushCarries
  <2>2. \A u \in Threads : Ending(u) => u = t
    BY <2>1, OneEnding DEF OneFinisher
  <2>3. FlushReturns(t)
    BY <1>29, <2>1 DEF MoveTemp
  <2>4. pc'[t] \in {"broadcast", "reset"} /\ \A u \in Threads \ {t} : pc'[u] = pc[u]
    BY <1>29, <2>1, <2>3 DEF MoveTemp, FlushReturns
  <2> QED
    BY <2>2, <2>4, CarriesAlone
<1>30. ASSUME NEW t \in Threads, UnlinkManifest(t) PROVE FlushCarries'
  BY <1>30 DEF UnlinkManifest, FlushCarries
<1>31. ASSUME NEW t \in Threads, RenameTemp(t) PROVE FlushCarries'
  BY <1>31 DEF RenameTemp, FlushCarries
<1>32. ASSUME TimePasses PROVE FlushCarries'
  BY <1>32 DEF TimePasses, FlushCarries
<1>33. ASSUME Crash PROVE FlushCarries'
  BY <1>33 DEF Crash, FreshInstance, FlushCarries
<1>34. ASSUME UNCHANGED vars PROVE FlushCarries'
  BY <1>34 DEF FlushCarries
<1> QED
  BY <1>1, <1>2, <1>3, <1>4, <1>5, <1>6, <1>7, <1>8, <1>9, <1>10, <1>11, <1>12, <1>13,
     <1>14, <1>15, <1>16, <1>17, <1>18, <1>19, <1>20, <1>21, <1>22, <1>23, <1>24, <1>25,
     <1>26, <1>27, <1>28, <1>29, <1>30, <1>31, <1>32, <1>33, <1>34, Zenon
     DEF Next, MainThread, RecordingThread, AnyThread

\* IInvManifest is inductive together with the invariant of the service.
LEMMA ManifestInvNext ==
  ASSUME AtomicMove, TypeOK, IInvService, IInvManifest, [Next]_vars
  PROVE  IInvManifest'
<1> SUFFICES ASSUME OneFinisher'
             PROVE  (RecorderEnds /\ MainEnds /\ NothingEnds /\ BufferHasOwner /\ FlushCarries)'
  BY DEF IInvManifest
<1>1. CASE OneFinisher
  BY <1>1, EndingNext, BufferOwnerNext, FlushCarriesNext DEF IInvManifest, IInvService, OneFinisher
<1>2. CASE Afresh'
  BY <1>2 DEF Afresh, RecorderEnds, MainEnds, NothingEnds, BufferHasOwner, FlushCarries, Ending,
              FlushPcs, Leaving, Threads
<1> QED
  BY <1>1, <1>2, FinisherNext

\* The only action that touches the manifest has a list that contains it.
LEMMA ManifestStep ==
  ASSUME AtomicMove, TypeOK, IInvManifest, OneFinisher, [Next]_vars
  PROVE  Entries(manifest) \subseteq Entries(manifest')
<1>1. CASE manifest' = manifest
  BY <1>1
<1>2. ASSUME NEW t \in Threads, MoveTemp(t)
      PROVE  Entries(manifest) \subseteq Entries(manifest')
  <2>1. tmp \in SUBSET Segments /\ Entries(manifest) \subseteq tmp
    BY <1>2 DEF MoveTemp, IInvManifest, FlushCarries, TypeOK, DataOK
  <2>2. Entries(tmp) = tmp
    BY <2>1, ManifestValues DEF Entries
  <2>3. manifest' = tmp \/ manifest' = manifest
    BY <1>2 DEF MoveTemp
  <2> QED
    BY <2>1, <2>2, <2>3
<1>3. ASSUME NEW t \in Threads, UnlinkManifest(t) \/ RenameTemp(t)
      PROVE  FALSE
  BY <1>3 DEF UnlinkManifest, RenameTemp, IInvManifest, FlushCarries
<1>4. CASE MainThread
  BY <1>1, <1>4, Zenon
  DEF MainThread, StartService, OnStartCommand, OnStartWithoutDirectory, OnDestroy, RestartCallback,
      interface
<1>5. CASE \E r \in Recorders : RecordingThread(r)
  BY <1>1, <1>5, Zenon
  DEF RecordingThread, LoopTest, ReadNothingNew, VoiceStarts, CreateNewSegment, EndOfSegment,
      DeadObject, PostRestart, NullCurrentPcmFile, interface
<1>6. CASE \E t \in Threads : AnyThread(t)
  BY <1>1, <1>2, <1>3, <1>6, Zenon
  DEF AnyThread, StopRecording, FinalizeSegment, ConvertPcmToWav, CopyPcm, AddToBuffer, BroadcastSaved,
      DeletePcm, ResetVoiceActive, ForgetPcmFile, ReleaseAudio, FlushSegmentManifest, ReadManifest,
      AddAllOfBuffer, ClearBuffer, WriteTemp, interface
<1>7. CASE TimePasses \/ Crash \/ UNCHANGED vars
  BY <1>1, <1>7, Zenon DEF TimePasses, Crash, vars, interface
<1> QED
  BY <1>4, <1>5, <1>6, <1>7, Zenon DEF Next

\* A failure is not forgotten.
LEMMA FailuresRemain ==
  ASSUME TypeOK, [Next]_vars, flushFailed
  PROVE  flushFailed'
<1>1. CASE MainThread
  BY <1>1, Zenon
  DEF MainThread, StartService, OnStartCommand, OnStartWithoutDirectory, OnDestroy, RestartCallback,
      history
<1>2. CASE \E r \in Recorders : RecordingThread(r)
  BY <1>2, Zenon
  DEF RecordingThread, LoopTest, ReadNothingNew, VoiceStarts, CreateNewSegment, EndOfSegment,
      DeadObject, PostRestart, NullCurrentPcmFile, history
<1>3. CASE \E t \in Threads : AnyThread(t)
  BY <1>3, Zenon
  DEF AnyThread, StopRecording, FinalizeSegment, ConvertPcmToWav, CopyPcm, AddToBuffer,
      BroadcastSaved, DeletePcm, ResetVoiceActive, ForgetPcmFile, ReleaseAudio,
      FlushSegmentManifest, ReadManifest, AddAllOfBuffer, ClearBuffer, WriteTemp, MoveTemp,
      UnlinkManifest, RenameTemp, history
<1>4. CASE TimePasses \/ Crash \/ UNCHANGED vars
  BY <1>4, Zenon DEF TimePasses, Crash, vars, history
<1> QED
  BY <1>1, <1>2, <1>3, <1>4, Zenon DEF Next

\* finalizers is a history.
LEMMA FinalizersRemain ==
  ASSUME TypeOK, [Next]_vars
  PROVE  \A s \in Segments : finalizers[s] \subseteq finalizers'[s]
<1>1. \/ UNCHANGED finalizers
      \/ \E t \in Threads : FinalizeSegment(t) \/ ConvertPcmToWav(t) \/ DeletePcm(t)
  <2>1. CASE MainThread
    BY <2>1, Zenon
    DEF MainThread, StartService, OnStartCommand, OnStartWithoutDirectory, OnDestroy, RestartCallback,
        history
  <2>2. CASE \E r \in Recorders : RecordingThread(r)
    BY <2>2, Zenon
    DEF RecordingThread, LoopTest, ReadNothingNew, VoiceStarts, CreateNewSegment, EndOfSegment,
        DeadObject, PostRestart, NullCurrentPcmFile, history
  <2>3. CASE \E t \in Threads : AnyThread(t)
    BY <2>3, Zenon
    DEF AnyThread, StopRecording, CopyPcm, AddToBuffer, BroadcastSaved, ResetVoiceActive, ForgetPcmFile,
        ReleaseAudio, FlushSegmentManifest, ReadManifest, AddAllOfBuffer, ClearBuffer, WriteTemp,
        MoveTemp, UnlinkManifest, RenameTemp, history
  <2>4. CASE TimePasses \/ Crash \/ UNCHANGED vars
    BY <2>4, Zenon DEF TimePasses, Crash, vars, history
  <2> QED
    BY <2>1, <2>2, <2>3, <2>4, Zenon DEF Next
<1>2. ASSUME NEW t \in Threads, FinalizeSegment(t) \/ ConvertPcmToWav(t) \/ DeletePcm(t)
      PROVE  UNCHANGED finalizers
             \/ finalizers' = [finalizers EXCEPT ![currentPcmFile] = @ \cup {t}]
  BY <1>2 DEF FinalizeSegment, ConvertPcmToWav, DeletePcm
<1> QED
  BY <1>1, <1>2 DEF TypeOK, DataOK

-----------------------------------------------------------------------------
(* The theorems.                                                           *)

LEMMA InitIInv == Init => IInv /\ BufferIsFlushed
<1> SUFFICES ASSUME Init PROVE IInv /\ BufferIsFlushed
  OBVIOUS
<1> USE ThreadsAssumption DEF Init, SourceInit
<1>1. DataOK
  BY DEF DataOK, InterfaceTypeOK, WavStates
<1>2. LabelsOK
  <2>1. \A t \in Threads : {pc[t], ret[t], fret[t]} \subseteq Pcs(t)
    BY DEF Pcs, SharedPcs
  <2> QED
    BY <2>1, PcsAreLabels DEF LabelsOK
<1>3. FileKnown /\ OpenedWavHasFinisher /\ DeletedPcmHasFinisher
  BY DEF FileKnown, Publishing, FlushPcs, OpenedWavHasFinisher, DeletedPcmHasFinisher
<1> QED
  BY <1>1, <1>2, <1>3 DEF IInv, TypeOK, BufferIsFlushed

LEMMA IInvNext == IInv /\ [Next]_vars => IInv'
  BY DataNext, LabelsNext, FileKnownNext, OpenedNext, DeletedNext DEF IInv, TypeOK

\* IInv holds in every reachable state.
THEOREM IInvHolds == Spec => []IInv
<1>1. Init => IInv
  BY InitIInv
<1> QED
  BY <1>1, IInvNext, PTL DEF Spec

\* The type invariant of the recorder.
THEOREM TypeCorrect == Spec => []TypeOK
<1>1. IInv => TypeOK
  BY DEF IInv
<1> QED
  BY <1>1, IInvHolds, PTL

\* notifySegmentSaved never leaves a segment in the buffer without a thread that
\* is on its way to flush it.
THEOREM BufferAlwaysFlushed == Spec => []BufferIsFlushed
<1>1. Init => BufferIsFlushed
  BY InitIInv
<1>2. TypeOK /\ BufferIsFlushed /\ [Next]_vars => BufferIsFlushed'
  BY BufferNext
<1> QED
  BY <1>1, <1>2, TypeCorrect, PTL DEF Spec

\* convertPcmToWav opens a finished WAV again only when a second thread ends the
\* segment.
THEOREM FinishedWavIsKept == Spec => FinishedWavStays
<1>1. IInv /\ [Next]_vars =>
        [\A s \in Segments : wav[s] = "complete" /\ Lone(s)' => wav'[s] # "partial"]_vars
  BY FinishedNext DEF IInv
<1> QED
  BY <1>1, IInvHolds, PTL DEF Spec, FinishedWavStays

\* While file operations succeed, finalizeSegment deletes the PCM file of a
\* segment only when its WAV is whole, unless two threads end the segment; the
\* clean-up may take either file of an old segment first, and does not disturb it.
THEOREM NoTruncatedWav ==
  ASSUME ~IOErrors
  PROVE  Spec => []NeverTruncated
<1>1. Init => IInvTruncated
  BY InitIInv DEF IInvTruncated, Init, SourceInit, OpenSegmentHasPcm,
     PartialWavHasWriter, NeverTruncated
<1>2. IInvTruncated /\ [Next]_vars => IInvTruncated'
  BY IInvNext, OpenNext, PartialNext, TruncatedNext DEF IInvTruncated, IInv
<1>3. IInvTruncated => NeverTruncated
  BY DEF IInvTruncated
<1> QED
  BY <1>1, <1>2, <1>3, PTL DEF Spec

\* The recorder implements SegmentSource: its readers see nothing but what
\* SourceSpec allows.
THEOREM RecorderImplementsSource == Spec => ImplementsSource
<1>1. Init => SourceInit
  BY DEF Init
<1>2. Init => NamesAreCreated
  BY ThreadsAssumption, ManifestValues
     DEF Init, SourceInit, NamesAreCreated, Publishing, FlushPcs, Created, Entries, Threads
<1>3. IInv /\ NamesAreCreated /\ [Next]_vars => NamesAreCreated'
  BY NamesNext DEF IInv
<1>4. IInv /\ NamesAreCreated /\ [Next]_vars => [SourceNext]_interface
  BY SourceStep DEF IInv
<1> QED
  BY <1>1, <1>2, <1>3, <1>4, IInvHolds, PTL DEF Spec, ImplementsSource, SourceSpec

\* IInvService holds in every reachable state.
THEOREM ServiceGoesOn == Spec => []IInvService
<1>1. Init => IInvService
  BY ThreadsAssumption DEF Init, IInvService, OneRecorder, ServiceIsUp, MicrophoneIsKept,
     VoiceHasFile, Serving, Threads
<1>2. TypeOK /\ IInvService /\ [Next]_vars => IInvService'
  BY OneRecorderNext, ServiceIsUpNext, MicrophoneNext, VoiceHasFileNext DEF TypeOK, IInvService
<1> QED
  BY <1>1, <1>2, TypeCorrect, PTL DEF Spec

\* processAudioBuffer can always open the next segment when no thread is at work,
\* unless recording threads overlapped.
THEOREM NeverWedged == Spec => []NotWedged
<1>1. TypeOK /\ IInvService => NotWedged
  BY ThreadsAssumption
     DEF TypeOK, LabelsOK, Pcs, SharedPcs, IInvService, ServiceIsUp, VoiceHasFile, Serving, Settled,
         NotWedged, AtRest, Threads
<1> QED
  BY <1>1, ServiceGoesOn, TypeCorrect, PTL

\* While isRecording is set and no thread is at work there is an AudioRecord, unless
\* recording threads overlapped.
THEOREM ListenerKeepsMicrophone == Spec => []ListenerHasMicrophone
<1>1. IInvService => ListenerHasMicrophone
  BY DEF IInvService, MicrophoneIsKept, ListenerHasMicrophone
<1> QED
  BY <1>1, ServiceGoesOn, PTL

\* ManifestGrows: where Files.move is atomic, and while the file operations of the flushes succeed,
\* no flush loses an entry that an earlier one wrote, though main thread and recording thread
\* both read, merge and replace the file without a lock.
THEOREM ManifestIsKept ==
  ASSUME AtomicMove
  PROVE  Spec => ManifestGrows
<1>1. Init => IInvManifest
  <2> SUFFICES ASSUME Init PROVE IInvManifest
    OBVIOUS
  <2> QED
    BY ThreadsAssumption
    DEF Init, IInvManifest, RecorderEnds, MainEnds, NothingEnds, BufferHasOwner, FlushCarries,
        Ending, FlushPcs, PastStop, Leaving, Threads
<1>2. TypeOK /\ IInvService /\ IInvManifest /\ [Next]_vars => IInvManifest'
  BY ManifestInvNext
<1>3. TypeOK /\ IInvService /\ IInvManifest /\ [Next]_vars =>
        [(~overlapped /\ ~flushFailed' /\ \A s \in Segments : Lone(s)') =>
           Entries(manifest) \subseteq Entries(manifest')]_vars
  <2> SUFFICES ASSUME TypeOK, IInvManifest, [Next]_vars, ~overlapped, ~flushFailed',
                      \A s \in Segments : Lone(s)'
               PROVE  Entries(manifest) \subseteq Entries(manifest')
    OBVIOUS
  <2>1. ~flushFailed /\ \A s \in Segments : finalizers[s] \subseteq finalizers'[s]
    BY FinalizersRemain, FailuresRemain
  <2>2. OneFinisher
    BY <2>1 DEF OneFinisher, Lone
  <2> QED
    BY <2>2, ManifestStep
<1>4. Spec => [](TypeOK /\ IInvService)
  BY TypeCorrect, ServiceGoesOn, PTL
<1> QED
  BY <1>1, <1>2, <1>3, <1>4, PTL DEF Spec, ManifestGrows

=============================================================================
