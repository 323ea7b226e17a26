-------------------------- MODULE BackgroundRecorder --------------------------
(***************************************************************************)
(* The native background recorder, BackgroundRecordingService.kt.          *)
(*                                                                         *)
(* Two kinds of threads run its methods without a lock: the main thread    *)
(* (service callbacks and posted messages) and the recording thread that   *)
(* startRecording creates. Both reach finalizeSegment and                  *)
(* flushSegmentManifest, so every access to a shared field that another    *)
(* thread can separate from the next one is a step of its own; pc says     *)
(* where a thread is. What is not modelled: the audio itself (a segment    *)
(* has audio in its PCM file or not), the notification, the wake lock, and *)
(* join(1000), whose timeout lets a thread go on whatever the other does.  *)
(***************************************************************************)
EXTENDS SegmentSource

CONSTANTS
  Recorders,   \* identities of recording threads; a dead one may be reused
  Main,        \* the main thread
  None,        \* a null currentPcmFile
  IOErrors,    \* whether the file operations that end a segment may fail
  AtomicMove   \* whether Files.move replaces the manifest atomically (SDK 26 on)

ASSUME ThreadsAssumption ==
  /\ Main \notin Recorders
  /\ None \notin Segments
  /\ IOErrors \in BOOLEAN
  /\ AtomicMove \in BOOLEAN

VARIABLES
  up,                  \* the service instance exists
  isRecording,
  isVoiceActive,
  currentPcmFile,
  aged,                \* currentSegmentStartTime is MIN_RECORDING_DURATION_MS ago
  audioRecord,         \* the field is not null
  segmentBuffer,       \* segments not yet in the manifest
  totalSegmentsSaved,
  posted,              \* the delayed restart is in the main looper's queue
  pcm,                 \* voice_<second>_temp.pcm of each segment
  tmp,                 \* background_segments.json.tmp
  pc,
  file,                \* the file convertPcmToWav works on, per thread
  intact,              \* nobody truncated that WAV since this thread opened it
  entries,             \* flushSegmentManifest's local list, per thread
  ret,                 \* where finalizeSegment returns to, per thread
  fret,                \* where flushSegmentManifest returns to, per thread
  finalizers,          \* history: the threads that finalized a segment, wholly or not
  overlapped,          \* history: a recording thread was started while another one ran
  flushFailed          \* history: a file operation of a flush failed

Threads == Recorders \cup {Main}

mic     == <<isRecording, audioRecord, aged>>
segment == <<isVoiceActive, currentPcmFile>>
rest    == <<up, totalSegmentsSaved, posted>>
service == <<mic, segment, rest>>
files   == <<pcm, tmp>>
returns == <<ret, fret>>
locals  == <<file, intact, entries, returns>>
history == <<finalizers, overlapped, flushFailed>>
vars    == <<interface, service, segmentBuffer, files, pc, locals, history>>

SharedPcs == {"stop", "finalize", "convert", "copy", "add", "broadcast",
              "deletePcm", "reset", "forget", "release",
              "flush", "readManifest", "addAll", "clear", "write", "move",
              "unlink", "rename"}
Pcs(t) == SharedPcs \cup IF t = Main THEN {"idle", "start"}
                                     ELSE {"dead", "loop", "read", "create", "post"}
Labels == UNION {Pcs(t) : t \in Threads}

Goto(t, label) == pc' = [pc EXCEPT ![t] = label]

\* Mutant: a name is taken again once its PCM file has been deleted.
FreshReused == {s \in Segments : pcm[s] # "there"}

\* Segments whose second has not been recorded in: a segment stands for the
\* second in its name, and a second does not come again.
Fresh == {s \in Segments : pcm[s] = "absent" /\ wav[s] = "absent"}

-----------------------------------------------------------------------------
Init ==
  /\ SourceInit
  /\ up = FALSE
  /\ isRecording = FALSE
  /\ isVoiceActive = FALSE
  /\ currentPcmFile = None
  /\ aged = FALSE
  /\ audioRecord = FALSE
  /\ segmentBuffer = {}
  /\ totalSegmentsSaved = 0
  /\ posted = FALSE
  /\ pcm = [s \in Segments |-> "absent"]
  /\ tmp = NoFile
  /\ pc = [t \in Threads |-> IF t = Main THEN "idle" ELSE "dead"]
  /\ file = [t \in Threads |-> None]
  /\ intact = [t \in Threads |-> FALSE]
  /\ entries = [t \in Threads |-> {}]
  /\ ret = [t \in Threads |-> "release"]
  /\ fret = [t \in Threads |-> "reset"]
  /\ finalizers = [s \in Segments |-> {}]
  /\ overlapped = FALSE
  /\ flushFailed = FALSE

-----------------------------------------------------------------------------
(* The main thread: service callbacks.                                     *)

\* The fields of a new instance of the service, and of none at all.
FreshInstance ==
  /\ isRecording' = FALSE
  /\ isVoiceActive' = FALSE
  /\ currentPcmFile' = None
  /\ aged' = FALSE
  /\ audioRecord' = FALSE
  /\ segmentBuffer' = {}
  /\ totalSegmentsSaved' = 0
  /\ posted' = FALSE
  /\ overlapped' = FALSE

\* startForegroundService: a new instance is created unless there is one. The
\* model waits for a recording thread that outlived the last instance.
StartService ==
  /\ pc[Main] = "idle"
  /\ \/ /\ up
        /\ UNCHANGED <<service, segmentBuffer, overlapped>>
     \/ /\ ~up
        /\ \A r \in Recorders : pc[r] = "dead"
        /\ FreshInstance
        /\ up' = TRUE
  /\ Goto(Main, "start")
  /\ UNCHANGED <<interface, files, locals, finalizers, flushFailed>>

\* startRecording, run by the main thread that then goes to pcs. Bound: as many
\* recording threads at a time as Recorders has members.
StartRecording(pcs) ==
  \/ /\ isRecording
     /\ pc' = pcs
     /\ UNCHANGED <<mic, overlapped>>
  \/ /\ ~isRecording                 \* AudioRecord is not initialized
     /\ audioRecord' = TRUE
     /\ pc' = pcs
     /\ UNCHANGED <<isRecording, aged, overlapped>>
  \/ /\ ~isRecording
     /\ audioRecord' = TRUE
     /\ isRecording' = TRUE
     /\ aged' = FALSE
     /\ overlapped' = (overlapped \/ \E r \in Recorders : pc[r] # "dead")
     /\ \E r \in Recorders :
          /\ pc[r] = "dead"
          /\ pc' = [pcs EXCEPT ![r] = "loop"]

\* voice_* files past the retention period: WAVs, and PCM files left behind.
\* Each file is judged by its own time and deleted, or not, on its own. What a
\* thread is working on is younger.
CleanupOldRecordings ==
  LET busy == {currentPcmFile} \cup {file[t] : t \in Threads} IN
  \E wavs \in SUBSET (Created \ busy),
     pcms \in SUBSET ({s \in Segments : pcm[s] = "there"} \ busy) :
    /\ wav' = [s \in Segments |-> IF s \in wavs THEN "gone" ELSE wav[s]]
    /\ pcm' = [s \in Segments |-> IF s \in pcms THEN "expired" ELSE pcm[s]]

OnStartCommand ==
  /\ pc[Main] = "start"
  /\ CleanupOldRecordings
  /\ StartRecording([pc EXCEPT ![Main] = "idle"])
  /\ UNCHANGED <<manifest, broadcasts, segment, rest, segmentBuffer, tmp,
                 locals, finalizers, flushFailed>>

\* An intent without a directory (the STOP action of the notification, the
\* null intent of a sticky restart): stopSelf, and onDestroy follows.
OnStartWithoutDirectory ==
  /\ pc[Main] = "start"
  /\ Goto(Main, "stop")
  /\ UNCHANGED <<interface, service, segmentBuffer, files, locals, history>>

\* stopService, stopSelf or the system: onDestroy begins with stopRecording.
OnDestroy ==
  /\ pc[Main] = "idle"
  /\ up
  /\ Goto(Main, "stop")
  /\ UNCHANGED <<interface, service, segmentBuffer, files, locals, history>>

\* Mutant: the loop runs in the callback and not in a thread of its own.
RestartInCallback ==
  /\ pc[Main] = "idle"
  /\ posted
  /\ posted' = FALSE
  /\ StartRecording([pc EXCEPT ![Main] = "loop"])
  /\ UNCHANGED <<interface, up, segment, totalSegmentsSaved, segmentBuffer,
                 files, locals, finalizers, flushFailed>>

\* The message restartRecording posted.
RestartCallback ==
  /\ pc[Main] = "idle"
  /\ posted
  /\ posted' = FALSE
  /\ IF isRecording THEN StartRecording(pc)
                    ELSE UNCHANGED <<mic, pc, overlapped>>
  /\ UNCHANGED <<interface, up, segment, totalSegmentsSaved, segmentBuffer,
                 files, locals, finalizers, flushFailed>>

-----------------------------------------------------------------------------
(* The recording thread.                                                   *)

\* The loop's test. A null audioRecord reads 0 samples: the thread spins.
LoopTest(r) ==
  /\ pc[r] = "loop"
  /\ \/ /\ ~isRecording
        /\ Goto(r, "dead")
     \/ /\ isRecording
        /\ audioRecord
        /\ Goto(r, "read")
  /\ UNCHANGED <<interface, service, segmentBuffer, files, locals, history>>

\* Silence while no segment is open, more audio for the open one, or an error
\* code other than ERROR_DEAD_OBJECT.
ReadNothingNew(r) ==
  /\ pc[r] = "read"
  /\ Goto(r, "loop")
  /\ UNCHANGED <<interface, service, segmentBuffer, files, locals, history>>

\* Bound: only when a segment name is left for every thread creating one.
VoiceStarts(r) ==
  /\ pc[r] = "read"
  /\ ~isVoiceActive
  /\ Cardinality(Fresh) > Cardinality({q \in Recorders : pc[q] = "create"})
  /\ isVoiceActive' = TRUE
  /\ Goto(r, "create")
  /\ UNCHANGED <<interface, mic, rest, currentPcmFile, segmentBuffer, files,
                 locals, history>>

\* Mutant: a file that cannot be created leaves the flag.
CreateWithoutReset(r) ==
  /\ pc[r] = "create"
  /\ aged' = FALSE
  /\ \E s \in Fresh :
       /\ currentPcmFile' = s
       /\ \/ pcm' = [pcm EXCEPT ![s] = "there"]
          \/ IOErrors /\ UNCHANGED pcm
  /\ Goto(r, "loop")
  /\ UNCHANGED <<interface, rest, isRecording, audioRecord, isVoiceActive,
                 segmentBuffer, tmp, locals, history>>

CreateNewSegment(r) ==
  /\ pc[r] = "create"
  /\ aged' = FALSE
  /\ \E s \in Fresh :
       /\ currentPcmFile' = s
       /\ \/ /\ pcm' = [pcm EXCEPT ![s] = "there"]
             /\ UNCHANGED isVoiceActive
          \/ /\ IOErrors
             /\ isVoiceActive' = FALSE
             /\ UNCHANGED pcm
  /\ Goto(r, "loop")
  /\ UNCHANGED <<interface, rest, isRecording, audioRecord, segmentBuffer, tmp,
                 locals, history>>

\* Silence beyond VAD_SILENCE_TIMEOUT_MS or a segment beyond
\* MAX_SEGMENT_DURATION_MS; both exceed MIN_RECORDING_DURATION_MS.
EndOfSegment(r) ==
  /\ pc[r] = "read"
  /\ isVoiceActive
  /\ aged' = TRUE
  /\ ret' = [ret EXCEPT ![r] = "loop"]
  /\ Goto(r, "finalize")
  /\ UNCHANGED <<interface, segment, rest, isRecording, audioRecord,
                 segmentBuffer, files, file, intact, entries, fret, history>>

\* ERROR_DEAD_OBJECT: restartRecording begins with stopRecording.
DeadObject(r) ==
  /\ pc[r] = "read"
  /\ Goto(r, "stop")
  /\ UNCHANGED <<interface, service, segmentBuffer, files, locals, history>>

\* restartRecording posts its message, and the thread returns.
PostRestart(r) ==
  /\ pc[r] = "post"
  /\ posted' = TRUE
  /\ Goto(r, "dead")
  /\ UNCHANGED <<interface, up, mic, segment, totalSegmentsSaved, segmentBuffer,
                 files, locals, history>>

TimePasses ==
  /\ currentPcmFile # None
  /\ ~aged
  /\ aged' = TRUE
  /\ UNCHANGED <<interface, segment, rest, isRecording, audioRecord,
                 segmentBuffer, files, pc, locals, history>>

-----------------------------------------------------------------------------
(* stopRecording and finalizeSegment, run by any thread.                   *)

\* Mutant: stopRecording leaves the flag.
StopWithoutFlag(t) ==
  /\ pc[t] = "stop"
  /\ ret' = [ret EXCEPT ![t] = "release"]
  /\ Goto(t, "finalize")
  /\ UNCHANGED <<interface, service, segmentBuffer, files, file, intact,
                 entries, fret, history>>

StopRecording(t) ==
  /\ pc[t] = "stop"
  /\ isRecording' = FALSE
  /\ ret' = [ret EXCEPT ![t] = "release"]
  /\ Goto(t, "finalize")
  /\ UNCHANGED <<interface, segment, rest, audioRecord, aged, segmentBuffer,
                 files, file, intact, entries, fret, history>>

\* The guard, and past it the closed stream and the test of the duration: a
\* segment that is too short is deleted, any other is converted.
FinalizeSegment(t) ==
  /\ pc[t] = "finalize"
  /\ IF ~isVoiceActive \/ currentPcmFile = None
       THEN Goto(t, ret[t]) /\ UNCHANGED finalizers
       ELSE /\ finalizers' = [finalizers EXCEPT ![currentPcmFile] = @ \cup {t}]
            /\ Goto(t, IF aged THEN "convert" ELSE "deletePcm")
  /\ UNCHANGED <<interface, service, segmentBuffer, files, locals, overlapped,
                 flushFailed>>

\* convertPcmToWav(currentPcmFile!!) opens, and so creates or truncates, the WAV.
ConvertPcmToWav(t) ==
  /\ pc[t] = "convert"
  /\ currentPcmFile # None
  /\ LET s == currentPcmFile IN
       \/ /\ wav' = [wav EXCEPT ![s] = "partial"]
          /\ file' = [file EXCEPT ![t] = s]
          /\ intact' = [u \in Threads |-> IF u = t THEN TRUE
                                          ELSE intact[u] /\ file[u] # s]
          /\ finalizers' = [finalizers EXCEPT ![s] = @ \cup {t}]
          /\ Goto(t, "copy")
       \/ /\ IOErrors
          /\ Goto(t, "deletePcm")
          /\ UNCHANGED <<wav, file, intact, finalizers>>
  /\ UNCHANGED <<manifest, broadcasts, service, segmentBuffer, files, entries,
                 returns, overlapped, flushFailed>>

\* currentPcmFile!! of a null: the recording thread's loop catches the
\* exception; on the main thread it ends the process (see Crash).
NullCurrentPcmFile(r) ==
  /\ r \in Recorders
  /\ pc[r] = "convert"
  /\ currentPcmFile = None
  /\ Goto(r, "loop")
  /\ UNCHANGED <<interface, service, segmentBuffer, files, locals, history>>

\* Mutant: the copy loop stops before a chunk that is not full.
CopyFullChunks(t) ==
  /\ pc[t] = "copy"
  /\ pcm[file[t]] = "there"
  /\ Goto(t, "add")
  /\ intact' = [intact EXCEPT ![t] = FALSE]
  /\ UNCHANGED <<interface, service, segmentBuffer, files, file, entries,
                 returns, history>>

\* Header and PCM data are written. The WAV is whole unless another thread
\* truncated it after this one opened it; then that thread's copy decides.
CopyPcm(t) ==
  /\ pc[t] = "copy"
  /\ \/ /\ pcm[file[t]] = "there"
        /\ wav' = [wav EXCEPT ![file[t]] =
                     IF intact[t] /\ @ = "partial" THEN "complete" ELSE @]
        /\ Goto(t, "add")
        /\ UNCHANGED file
     \/ /\ IOErrors \/ pcm[file[t]] # "there"
        /\ file' = [file EXCEPT ![t] = None]
        /\ Goto(t, "deletePcm")
        /\ UNCHANGED wav
  /\ intact' = [intact EXCEPT ![t] = FALSE]
  /\ UNCHANGED <<manifest, broadcasts, service, segmentBuffer, files, entries,
                 returns, history>>

\* notifySegmentSaved: into the buffer, flushed now if the last flush is
\* MANIFEST_FLUSH_INTERVAL_MS ago, then the broadcast.
AddToBuffer(t) ==
  /\ pc[t] = "add"
  /\ totalSegmentsSaved' = totalSegmentsSaved + 1
  /\ segmentBuffer' = segmentBuffer \cup {file[t]}
  /\ fret' = [fret EXCEPT ![t] = "broadcast"]
  /\ \E label \in {"broadcast", "flush"} : Goto(t, label)
  /\ UNCHANGED <<interface, up, mic, segment, posted, files, file, intact,
                 entries, ret, history>>

BroadcastSaved(t) ==
  /\ pc[t] = "broadcast"
  /\ broadcasts' = [broadcasts EXCEPT ![file[t]] = @ + 1]
  /\ file' = [file EXCEPT ![t] = None]
  /\ Goto(t, "deletePcm")
  /\ UNCHANGED <<wav, manifest, service, segmentBuffer, files, intact, entries,
                 returns, history>>

\* currentPcmFile?.delete() reads the field again; nobody looks at whether it
\* deleted the file. The flush comes next.
DeletePcm(t) ==
  /\ pc[t] = "deletePcm"
  /\ IF currentPcmFile = None
       THEN UNCHANGED <<pcm, finalizers>>
       ELSE /\ \/ pcm' = [pcm EXCEPT ![currentPcmFile] = "deleted"]
               \/ IOErrors /\ UNCHANGED pcm
            /\ finalizers' = [finalizers EXCEPT ![currentPcmFile] = @ \cup {t}]
  /\ fret' = [fret EXCEPT ![t] = "reset"]
  /\ Goto(t, "flush")
  /\ UNCHANGED <<interface, service, segmentBuffer, tmp, file, intact, entries,
                 ret, overlapped, flushFailed>>

ResetVoiceActive(t) ==
  /\ pc[t] = "reset"
  /\ isVoiceActive' = FALSE
  /\ Goto(t, "forget")
  /\ UNCHANGED <<interface, mic, rest, currentPcmFile, segmentBuffer, files,
                 locals, history>>

ForgetPcmFile(t) ==
  /\ pc[t] = "forget"
  /\ currentPcmFile' = None
  /\ Goto(t, ret[t])
  /\ UNCHANGED <<interface, mic, rest, isVoiceActive, segmentBuffer, files,
                 locals, history>>

\* The end of stopRecording: AudioRecord released, the field null, and join.
\* onDestroy then flushes; restartRecording posts its message.
ReleaseAudio(t) ==
  /\ pc[t] = "release"
  /\ audioRecord' = FALSE
  /\ IF t = Main THEN Goto(t, "flush") /\ fret' = [fret EXCEPT ![t] = "idle"]
                 ELSE Goto(t, "post") /\ UNCHANGED fret
  /\ UNCHANGED <<interface, segment, rest, isRecording, aged, segmentBuffer,
                 files, file, intact, entries, ret, history>>

-----------------------------------------------------------------------------
(* flushSegmentManifest, run by any thread.                                *)

\* The flush returns, and its list is garbage. onDestroy is over when its
\* flush is.
FlushReturns(t) ==
  /\ Goto(t, fret[t])
  /\ entries' = [entries EXCEPT ![t] = {}]
  /\ up' = (up /\ fret[t] # "idle")

\* isEmpty() comes first, and the rest of the flush does not look again.
FlushSegmentManifest(t) ==
  /\ pc[t] = "flush"
  /\ IF segmentBuffer = {} THEN FlushReturns(t)
                          ELSE Goto(t, "readManifest") /\ UNCHANGED <<up,
                                                                      entries>>
  /\ UNCHANGED <<interface, mic, segment, totalSegmentsSaved, posted,
                 segmentBuffer, files, file, intact, returns, history>>

\* Mutant: the flush starts from an empty list.
ReadNothing(t) ==
  /\ pc[t] = "readManifest"
  /\ Goto(t, "addAll")
  /\ UNCHANGED <<interface, service, segmentBuffer, files, locals, history>>

\* A manifest that is missing, does not parse or cannot be read counts as empty.
ReadManifest(t) ==
  /\ pc[t] = "readManifest"
  /\ \/ /\ entries' = [entries EXCEPT ![t] = Entries(manifest)]
        /\ UNCHANGED flushFailed
     \/ /\ IOErrors
        /\ flushFailed' = TRUE
        /\ UNCHANGED entries
  /\ Goto(t, "addAll")
  /\ UNCHANGED <<interface, service, segmentBuffer, files, file, intact,
                 returns, finalizers, overlapped>>

\* Mutant: the buffer is cleared without being added.
AddNothing(t) ==
  /\ pc[t] = "addAll"
  /\ Goto(t, "clear")
  /\ UNCHANGED <<interface, service, segmentBuffer, files, locals, history>>

AddAllOfBuffer(t) ==
  /\ pc[t] = "addAll"
  /\ entries' = [entries EXCEPT ![t] = @ \cup segmentBuffer]
  /\ Goto(t, "clear")
  /\ UNCHANGED <<interface, service, segmentBuffer, files, file, intact,
                 returns, history>>

\* Mutant: the buffer is not cleared.
KeepBuffer(t) ==
  /\ pc[t] = "clear"
  /\ Goto(t, "write")
  /\ UNCHANGED <<interface, service, segmentBuffer, files, locals, history>>

ClearBuffer(t) ==
  /\ pc[t] = "clear"
  /\ segmentBuffer' = {}
  /\ Goto(t, "write")
  /\ UNCHANGED <<interface, service, files, locals, history>>

\* tempFile.writeText; an exception ends the flush.
WriteTemp(t) ==
  /\ pc[t] = "write"
  /\ \/ /\ tmp' = entries[t]
        /\ Goto(t, "move")
        /\ UNCHANGED <<up, entries, flushFailed>>
     \/ /\ IOErrors
        /\ flushFailed' = TRUE
        /\ FlushReturns(t)
        /\ UNCHANGED tmp
  /\ UNCHANGED <<interface, mic, segment, totalSegmentsSaved, posted,
                 segmentBuffer, pcm, file, intact, returns, finalizers,
                 overlapped>>

\* Files.move, and the fallback for where it is missing or fails: delete the
\* manifest, rename the temporary file.
MoveTemp(t) ==
  /\ pc[t] = "move"
  /\ \/ /\ AtomicMove /\ tmp # NoFile
        /\ manifest' = tmp
        /\ tmp' = NoFile
        /\ FlushReturns(t)
        /\ UNCHANGED flushFailed
     \/ /\ IOErrors \/ ~AtomicMove \/ tmp = NoFile
        /\ flushFailed' = (flushFailed \/ (AtomicMove /\ tmp # NoFile))
        /\ Goto(t, "unlink")
        /\ UNCHANGED <<manifest, up, tmp, entries>>
  /\ UNCHANGED <<wav, broadcasts, mic, segment, totalSegmentsSaved, posted,
                 segmentBuffer, pcm, file, intact, returns, finalizers,
                 overlapped>>

\* Mutant: the fallback overwrites the manifest in place.
OverwriteManifest(t) ==
  /\ pc[t] = "unlink"
  /\ manifest' = Torn
  /\ Goto(t, "rename")
  /\ UNCHANGED <<wav, broadcasts, service, segmentBuffer, files, locals,
                 history>>

\* A manifest that cannot be deleted is only logged.
UnlinkManifest(t) ==
  /\ pc[t] = "unlink"
  /\ \/ manifest' = NoFile
     \/ IOErrors /\ UNCHANGED manifest
  /\ Goto(t, "rename")
  /\ UNCHANGED <<wav, broadcasts, service, segmentBuffer, files, locals,
                 history>>

\* renameTo answers false when it fails, or when another thread's flush has
\* taken the temporary file: nothing is published then, and the flush is over.
RenameTemp(t) ==
  /\ pc[t] = "rename"
  /\ \/ /\ tmp # NoFile
        /\ manifest' = tmp
        /\ tmp' = NoFile
        /\ UNCHANGED flushFailed
     \/ /\ IOErrors \/ tmp = NoFile
        /\ flushFailed' = (flushFailed \/ tmp # NoFile)
        /\ UNCHANGED <<manifest, tmp>>
  /\ FlushReturns(t)
  /\ UNCHANGED <<wav, broadcasts, mic, segment, totalSegmentsSaved, posted,
                 segmentBuffer, pcm, file, intact, returns, finalizers,
                 overlapped>>

-----------------------------------------------------------------------------
\* The process ends: killed by the system, or a null currentPcmFile!! on the
\* main thread. Files stay; memory, threads and undelivered broadcasts go.
Crash ==
  /\ FreshInstance
  /\ up' = FALSE
  /\ broadcasts' = [s \in Segments |-> 0]
  /\ pc' = [t \in Threads |-> IF t = Main THEN "idle" ELSE "dead"]
  /\ file' = [t \in Threads |-> None]
  /\ intact' = [t \in Threads |-> FALSE]
  /\ entries' = [t \in Threads |-> {}]
  /\ ret' = [t \in Threads |-> "release"]
  /\ fret' = [t \in Threads |-> "reset"]
  /\ UNCHANGED <<wav, manifest, files, finalizers, flushFailed>>

MainThread ==
  \/ StartService \/ OnStartCommand \/ OnStartWithoutDirectory
  \/ OnDestroy \/ RestartCallback

RecordingThread(r) ==
  \/ LoopTest(r) \/ ReadNothingNew(r) \/ VoiceStarts(r) \/ CreateNewSegment(r)
  \/ EndOfSegment(r) \/ DeadObject(r) \/ PostRestart(r) \/ NullCurrentPcmFile(r)

AnyThread(t) ==
  \/ StopRecording(t) \/ FinalizeSegment(t) \/ ConvertPcmToWav(t) \/ CopyPcm(t)
  \/ AddToBuffer(t) \/ BroadcastSaved(t) \/ DeletePcm(t) \/ ResetVoiceActive(t)
  \/ ForgetPcmFile(t) \/ ReleaseAudio(t) \/ FlushSegmentManifest(t)
  \/ ReadManifest(t) \/ AddAllOfBuffer(t) \/ ClearBuffer(t) \/ WriteTemp(t)
  \/ MoveTemp(t) \/ UnlinkManifest(t) \/ RenameTemp(t)

Next ==
  \/ MainThread
  \/ \E r \in Recorders : RecordingThread(r)
  \/ \E t \in Threads : AnyThread(t)
  \/ TimePasses
  \/ Crash

Spec == Init /\ [][Next]_vars

\* The system schedules every thread, and the looper delivers what is posted.
\* Nothing makes the user or the system start or stop the service, makes
\* anybody speak, or ends a process.
Fairness ==
  /\ \A t \in Threads : WF_vars(AnyThread(t))
  /\ \A r \in Recorders : WF_vars(PostRestart(r) \/ NullCurrentPcmFile(r)
                                  \/ LoopTest(r) \/ CreateNewSegment(r))
  /\ WF_vars(RestartCallback)
  /\ WF_vars(OnStartCommand)

FairSpec == Spec /\ Fairness

-----------------------------------------------------------------------------
(* Properties.                                                             *)

\* Where the threads are and return to.
LabelsOK ==
  /\ pc \in [Threads -> Labels]
  /\ ret \in [Threads -> {"loop", "release"}]
  /\ fret \in [Threads -> {"broadcast", "reset", "idle"}]
  /\ \A t \in Threads : {pc[t], ret[t], fret[t]} \subseteq Pcs(t)

DataOK ==
  /\ InterfaceTypeOK
  /\ {up, isRecording, isVoiceActive, aged, audioRecord, posted,
      overlapped, flushFailed} \subseteq BOOLEAN
  /\ currentPcmFile \in Segments \cup {None}
  /\ segmentBuffer \in SUBSET Segments
  /\ totalSegmentsSaved \in Nat
  /\ pcm \in [Segments -> {"absent", "there", "deleted", "expired"}]
  /\ tmp \in {NoFile} \cup SUBSET Segments
  /\ file \in [Threads -> Segments \cup {None}]
  /\ intact \in [Threads -> BOOLEAN]
  /\ entries \in [Threads -> SUBSET Segments]
  /\ finalizers \in [Segments -> SUBSET Threads]

\* The type invariant.
TypeOK == DataOK /\ LabelsOK

\* At most one thread worked on s in finalizeSegment.
Lone(s) == \A t, u \in finalizers[s] : t = u

\* The threads are between two operations, or in the middle of a read.
AtRest == \A t \in Threads : pc[t] \in {"idle", "dead", "loop", "read"}

\* The PCM file is the only copy of the audio until its WAV is written. Unless
\* two threads finalize the segment, or writing the WAV fails, finalizeSegment
\* deletes the PCM file only when the WAV is whole: it leaves no truncated WAV
\* without its source. (What a killed process left truncated may lose its PCM
\* file later, when that file is past the retention period.)
NeverTruncated ==
  \A s \in Segments : Lone(s) /\ pcm[s] = "deleted" => wav[s] # "partial"

\* A segment in the buffer is in nobody's manifest yet. Whenever the buffer
\* holds one, some thread is on its way to flush it: notifySegmentSaved never
\* leaves a segment for a flush that may not come.
BufferIsFlushed ==
  segmentBuffer # {} =>
    \E t \in Threads : pc[t] \in {"broadcast", "deletePcm", "flush",
                                 "readManifest", "addAll", "clear"}

\* Recording goes on after a segment ends, and after one whose file could not be
\* created. A voice-active flag without an open segment would make every later
\* finalizeSegment return at its guard, and no segment would ever be saved again.
\* The service may get there only when it was started again while an earlier
\* recording thread was stopping.
NotWedged ==
  isRecording /\ isVoiceActive /\ AtRest /\ ~overlapped =>
    currentPcmFile # None /\ pcm[currentPcmFile] = "there"

\* While the service says that it listens, it has an AudioRecord to read from,
\* with the same exception.
ListenerHasMicrophone == isRecording /\ AtRest /\ ~overlapped => audioRecord

\* A finished WAV is never opened for writing again, unless two threads
\* finalize its segment.
FinishedWavStays ==
  [][\A s \in Segments : wav[s] = "complete" /\ Lone(s)' => wav'[s] # "partial"]_vars

\* Where the move is atomic, and no file operation of a flush failed, a flush
\* keeps every entry that the manifest had, unless two threads finalize one
\* segment or two recording threads run.
ManifestGrows ==
  [][(~overlapped /\ ~flushFailed' /\ \A s \in Segments : Lone(s)') =>
       Entries(manifest) \subseteq Entries(manifest')]_vars

\* To its readers the recorder is a SegmentSource.
ImplementsSource == SourceSpec

\* A segment that one thread finalizes, and whose WAV is finished, reaches the
\* library both ways, by its broadcast and by the manifest, unless the process
\* ends first or a flush fails to read the manifest, to write its file or to
\* rename it.
SavedIsPublished ==
  \A s \in Segments :
    (Lone(s) /\ \E t \in Threads : pc[t] = "add" /\ file[t] = s) ~>
      \/ broadcasts[s] > 0 /\ s \in Entries(manifest)
      \/ ~Lone(s)
      \/ ~up /\ AtRest
      \/ flushFailed

\* "ERROR_DEAD_OBJECT, trying to restart the recording" (line 216): the restart
\* that restartRecording posts makes the service record again, if it lives.
RestartsAfterDeadObject == posted ~> (isRecording \/ ~up)

\* stopRecording "ends the current segment" (line 532): no segment is open when
\* the service is gone and its threads have ended.
StopEndsSegment ==
  ~up /\ pc[Main] = "idle" /\ (\A r \in Recorders : pc[r] = "dead") =>
    currentPcmFile = None

-----------------------------------------------------------------------------
(* The parts of the inductive invariants. A thread that ends a segment is,  *)
(* in this order, Publishing, at "deletePcm", and AfterDelete, and forgets  *)
(* the open segment last: while a segment is open, whoever touched its      *)
(* files is still there.                                                    *)

FlushPcs == {"flush", "readManifest", "addAll", "clear", "write", "move",
             "unlink", "rename"}

\* The thread is between opening a WAV and having announced it.
Publishing(t) ==
  \/ pc[t] \in {"copy", "add", "broadcast"}
  \/ pc[t] \in FlushPcs /\ fret[t] = "broadcast"

\* Such a thread knows which WAV; with it TypeOK is inductive.
FileKnown == \A t \in Threads : Publishing(t) => file[t] # None

\* The thread has deleted the PCM file and has not yet forgotten the segment.
AfterDelete(t) ==
  \/ pc[t] \in {"reset", "forget"}
  \/ pc[t] \in FlushPcs /\ fret[t] = "reset"

OpenedWavHasFinisher ==
  currentPcmFile # None /\ wav[currentPcmFile] # "absent" =>
    \E t \in finalizers[currentPcmFile] :
      Publishing(t) \/ pc[t] = "deletePcm" \/ AfterDelete(t)

DeletedPcmHasFinisher ==
  currentPcmFile # None /\ pcm[currentPcmFile] = "deleted" =>
    \E t \in finalizers[currentPcmFile] : AfterDelete(t)

\* The next two hold while file operations succeed.
OpenSegmentHasPcm ==
  currentPcmFile # None => pcm[currentPcmFile] \in {"there", "deleted"}

PartialWavHasWriter ==
  currentPcmFile # None /\ wav[currentPcmFile] = "partial" /\ Lone(currentPcmFile) =>
    \E t \in finalizers[currentPcmFile] :
      pc[t] = "copy" /\ file[t] = currentPcmFile /\ intact[t]

\* Names travel from a file that was created to the buffer, a list, the
\* temporary file and the manifest; no open segment has been cleaned up.
NamesAreCreated ==
  /\ \A t \in Threads : Publishing(t) => wav[file[t]] # "absent"
  /\ segmentBuffer \cup UNION {entries[t] : t \in Threads} \subseteq Created
  /\ tmp # NoFile => tmp \subseteq Created
  /\ Entries(manifest) \subseteq Created
  /\ currentPcmFile # None => wav[currentPcmFile] # "gone"

\* Recording threads that were never started one while another ran are one.
OneRecorder ==
  ~overlapped => \A q, r \in Recorders : pc[q] # "dead" /\ pc[r] # "dead" => q = r

\* The main thread is not in onDestroy's stopRecording, or only before it.
Serving == pc[Main] \in {"idle", "start", "stop"}

ServiceIsUp ==
  /\ isRecording => Serving /\ up
  /\ pc[Main] = "start" => up

\* While the service records its thread is not in restartRecording's stop, which
\* would release the AudioRecord.
MicrophoneIsKept ==
  isRecording /\ ~overlapped =>
    /\ audioRecord
    /\ \A r \in Recorders :
         /\ pc[r] \notin {"release", "post"}
         /\ pc[r] \notin {"dead", "loop", "read", "create", "stop"} => ret[r] = "loop"

\* Where a recording thread leaves flag and field as they belong together.
Settled == {"dead", "loop", "read", "stop", "finalize", "convert", "release", "post"}

VoiceHasFile ==
  up /\ Serving /\ ~overlapped =>
    /\ (\A r \in Recorders : pc[r] \in Settled) /\ isVoiceActive =>
         currentPcmFile # None /\ pcm[currentPcmFile] = "there"
    /\ \A r \in Recorders : pc[r] = "forget" => ~isVoiceActive

\* Inductive without further assumptions.
IInv == TypeOK /\ FileKnown /\ OpenedWavHasFinisher /\ DeletedPcmHasFinisher

\* Inductive while file operations succeed.
IInvTruncated ==
  IInv /\ OpenSegmentHasPcm /\ PartialWavHasWriter /\ NeverTruncated

\* Inductive together with TypeOK.
IInvService == OneRecorder /\ ServiceIsUp /\ MicrophoneIsKept /\ VoiceHasFile

\* What ManifestGrows assumes.
OneFinisher == ~overlapped /\ ~flushFailed /\ \A s \in Segments : Lone(s)

\* The thread passed finalizeSegment's guard and has not reset isVoiceActive yet.
Ending(t) ==
  \/ pc[t] \in {"convert", "copy", "add", "broadcast", "deletePcm", "reset"}
  \/ pc[t] \in FlushPcs /\ fret[t] \in {"broadcast", "reset"}

\* While a recording thread ends a segment every other thread passes the guard as well, and so
\* would finalize it too.
RecorderEnds ==
  \A r \in Recorders :
    /\ Ending(r) => /\ isVoiceActive /\ currentPcmFile # None
                    /\ r \in finalizers[currentPcmFile]
    /\ pc[r] = "forget" => ~isVoiceActive

\* Recording threads that will end no segment once isRecording is reset.
Leaving == \A r \in Recorders : pc[r] \in {"create", "loop", "dead"}

\* The same of the main thread, except that a recording thread may open one more segment.
MainEnds ==
  Ending(Main) =>
    /\ \A r \in Recorders : ~Ending(r)
    /\ \/ Leaving
       \/ isVoiceActive /\ currentPcmFile # None /\ Main \in finalizers[currentPcmFile]

\* The main thread is past finalizeSegment in onDestroy, or onDestroy is over.
PastStop ==
  \/ pc[Main] \in {"forget", "release"}
  \/ pc[Main] \in FlushPcs /\ fret[Main] = "idle"
  \/ pc[Main] = "idle" /\ ~up

\* No segment is ended then.
NothingEnds ==
  PastStop =>
    /\ \A r \in Recorders : ~Ending(r)
    /\ Leaving \/ ~isVoiceActive \/ currentPcmFile = None

\* Who put a segment into the buffer flushes it.
BufferHasOwner ==
  segmentBuffer # {} =>
    \E t \in Threads :
      /\ Ending(t)
      /\ pc[t] \in {"broadcast", "deletePcm", "flush", "readManifest", "addAll", "clear"}

\* A flush that found something in the buffer carries what the manifest has, and is not the one
\* of onDestroy.
FlushCarries ==
  \A t \in Threads :
    /\ pc[t] \in FlushPcs \ {"flush"} => Ending(t)
    /\ pc[t] \in {"addAll", "clear", "write"} => Entries(manifest) \subseteq entries[t]
    /\ pc[t] = "move" => tmp # NoFile /\ Entries(manifest) \subseteq tmp
    /\ pc[t] \notin {"unlink", "rename"}

\* Inductive together with IInvService, where the move is atomic.
IInvManifest ==
  OneFinisher =>
    RecorderEnds /\ MainEnds /\ NothingEnds /\ BufferHasOwner /\ FlushCarries

=============================================================================
