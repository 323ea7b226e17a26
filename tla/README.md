# Verification of MemoryPal's recording core

TLA+ models, TLC runs and TLAPS proofs for the parts of MemoryPal (a Flutter application with
an Android service that records the surroundings around the clock and transcribes them with
whisper.cpp on the phone) in which threads, tasks, files, a database and shared memory meet.
Paths below are relative to `src/`; `K/` is `android/app/src/main/kotlin/com/example/memorypal_v3/`,
`D/` is `lib/services/`, `W/` is `whisper.cpp/whisper.cpp/`.

## 1. Inventory

| Component | State | Operations | Speaks to | Hard because | Correct when | Status |
|---|---|---|---|---|---|---|
| Background recorder, `K/BackgroundRecordingService.kt` | fields of the service (`isRecording`, `isVoiceActive`, `currentPcmFile`, `audioRecord`, `segmentBuffer`), PCM and WAV files, `background_segments.json` and its `.tmp` | `onStartCommand`, `startRecording`, `recordingLoop`, `processAudioBuffer`, `finalizeSegment`, `convertPcmToWav`, `flushSegmentManifest`, `restartRecording`, `stopRecording`, `cleanupOldRecordings`, `onDestroy` | the library, by the manifest, the WAV files and the `SEGMENT_SAVED` broadcast | two threads without a lock, a process that may die, files replaced in steps | a segment that was recorded keeps a good copy and reaches the library; the service goes on recording | `BackgroundRecorder` |
| Segment library, `D/recording_service.dart` 54-92, 312-516, 554-703 with `D/database_service.dart` | table of recordings, locals of the running scans and deletions, `_backgroundStatusTimer` | `onSegmentSaved`, `scanAndProcessBackgroundSegments`, `scanOrphanRecordings`, `_processSegment`, `deleteRecording(s)`, the row-only deletions of the detail screen and the agent | recorder (files), screens, transcription | Dart tasks interleave at every `await`; lists read before an `await` are used after it | every complete segment gets a row; what the user deletes stays away; no needless second row | `SegmentLibrary` |
| Foreground session, `D/recording_service.dart` 95-229, 786-835, `lib/screens/chat_screen.dart` 414-510, `K/RecordingService.kt` | `_currentRecording`, timer, the chat's `_voiceInputPath`; the service's flag, stream, `AudioRecord` and thread; PCM and WAV files | start, stop, finalize; voice input; the service's start, stop and conversion | method channel, intents, table, screens | guards tested before and fields set after awaits; the channel answers before the service acts; two users of one service | one row for one recording, with its own audio; isolate, screen and service agree | `RecordingSession` |
| Transcription, `D/recording_service.dart` 725-773, `D/transcription_service.dart`, `D/whisper_service.dart`, `D/whisper_local_service.dart`, `WhisperPlugin.java`, `whisper_jni.cpp` | `_isTranscribing`, `_isInitialized` (twice), `_isLoading`, the plugin's context and executor, the transcripts in the table | `startTranscription`, `initialize`, `transcribe`, the screens' requests, the handlers and tasks of the plugin | table, native engine, screens | one flag per object for one native context; minutes pass between request and answer; the engine may be replaced | a flag has a holder at work; nobody uses a context that was freed; a request ends, and writes only its own row while that exists | `Transcripts`, `Transcription` |
| Native engine, `whisper_full`: `W/src/whisper.cpp` | window position, prompt history, decoders, KV cache | one call of `whisper_full_with_state`: chunks, attempts, tokens | graph allocator, thread pool | retries, beams that exchange places, limits of positions and cells | the cache holds each decoder's history; positions and slots suffice; the window moves on and the call returns | `WhisperFull` |
| Native engine, memory of a graph: `W/ggml/src/ggml-alloc.c` | free blocks of each chunk, reference and view counts | `ggml_gallocr_reserve`, `ggml_gallocr_alloc_graph` | whisper_full, kernels | memory handed on in place, views of views, two places that free | no two live tensors share bytes; memory comes back once | `GraphAllocator` |
| Native engine, thread pool: `W/ggml/src/ggml-cpu/ggml-cpu.c` | mutex, condition, barrier and chunk counters, `n_graph`, `abort` | `ggml_graph_compute`, pause, resume, free; the workers | kernels | lock-free barrier, polling and sleeping workers, counters reset between graphs | each chunk of each node once, after its sources; every call returns | `Threadpool` |
| Call detection and import, `K/CallStateService.kt`, `D/call_state_service.dart`, `D/system_recording_importer.dart` | phone state, last number, start of the call | listener, delayed import, manual scan | table | | one row per call recording | not modelled: nothing calls `CallStateService.initialize`, so the listener never runs; the manual scan is sequential |
| Model download, `D/model_download_service.dart`, `downloadModel` of `D/whisper_local_service.dart` | model file | `downloadModel` | HTTP server | | a completed model is the server's file | not modelled: the former has no caller, the latter tries its sources in turn |
| Periodic services: `D/scheduler_service.dart`, `D/second_brain_orchestrator.dart`, `D/proactive_dialogue_engine.dart`, `D/smart_reminder_engine.dart`, `D/location_service.dart` | timers, daily counters | start, stop, tick | table, notifications | a tick that reschedules after a stop | nothing ticks after stop; limits are kept | not modelled (section 5) |
| Backup and restore, `D/backup_service.dart` | database file | export, import, clear | database | a file replaced in steps while others reopen it | old or new database, never none | not modelled (section 5) |
| AI providers, `D/ai_service_manager.dart` | keys, chosen provider | `askQuestion` with fallback | HTTP | order of fallback | an answer if a provider gives one | not modelled (section 5) |
| Agent; profile, emotion, keyword, item, vector services; imports; notes; settings; notifications; developer tools | the database, caches | sequential functions over text and single rows | database, providers | little concurrency | | not modelled: no control worth a model |
| Screens, widgets, models | | | | | | not modelled: user interface |
| The rest of `whisper.cpp` | tensors, model file | kernels, graph building, other backends, examples, bindings | | arithmetic | | not modelled: data, or not used here |

`PROJECT.json` lists every component with its files, and under `hazards` what is hard to test
in each, at its line, with the properties that would catch it or the reason why none does.

## 2. Modules

| Module | What it is |
|---|---|
| `SegmentSource` | abstract specification of what the recorder shows to the library: the WAV files, the manifest, the broadcasts |
| `BackgroundRecorder` | the Android service, thread by thread and file operation by file operation |
| `SegmentLibrary` | the Dart side; the recorder is its environment, *any* `SegmentSource` |
| `MCBackgroundRecorder`, `MCSegmentLibrary` | instances for TLC (symmetry sets) |
| `MCDeletion` | `SegmentLibrary` with an observer of the user's deletions |
| `BackgroundRecorderProofs`, `SegmentLibraryProofs` | theorems and their proofs |
| `Transcripts` | abstract specification of what transcription promises about the rows |
| `Transcription` | requests, services, platform channel and plugin |
| `RecordingSession` | start, stop and voice input in the isolate, the channel, the recording service and its thread |
| `AudioWindow` | abstract specification of the audio window and the segments of one call |
| `KVCache` | the self-attention cache: cells, slots, sequences (operators) |
| `WhisperFull` | one call of `whisper_full_with_state`; uses `KVCache` |
| `TensorHeap` | abstract specification of an allocator: a set of disjoint ranges |
| `TensorAllocator` | `ggml_dyn_tallocr`: chunks and their sorted free blocks |
| `GraphAllocator` | `ggml_gallocr`: the plan of a graph, node by node; uses `TensorAllocator` |
| `GraphEvaluation` | abstract specification: chunks of nodes are computed once and in order |
| `ComputeGraph` | the graphs that are computed: nodes, chunks, what is read |
| `GgmlBarrier` | `ggml_barrier`, two atomic counters (operators) |
| `BarrierTeam` | threads that only pass the barrier, again and again |
| `Threadpool` | the pool, its client and its workers; uses `GgmlBarrier` and `ComputeGraph` |
| `MCRecordingSession`, `MCTranscription`, `MCWhisperFull`, `MCGraphAllocator`, `MCThreadpool` | instances for TLC |
| `RecordingSessionProofs`, `TranscriptionProofs`, `WhisperFullProofs`, `GraphAllocatorProofs`, `BarrierTeamProofs`, `ThreadpoolProofs` | theorems and their proofs |

The split follows the interface: `BackgroundRecorder` is shown to implement `SourceSpec`
(run `recorder_publishes`, theorem `RecorderImplementsSource`), and `SegmentLibrary` uses the
actions of `SegmentSource` and nothing else of the recorder, so what holds of the library
holds with the real recorder. Definitions marked "Mutant" are deliberately wrong variants of
an action; no specification uses them, and a property is shown to have content by being
violated when the variant replaces the action.

From a row to a transcript the components form a chain, each module resting on what the next one
promises: `Transcription` assumes that a native call returns, which is `Returns` of `WhisperFull`;
`WhisperFull` takes the evaluation of a graph as one step, which is `ImplementsEvaluation` and
`CallsReturn` of `Threadpool`; that chunks read what their sources wrote needs `PlanIsSafe` of
`GraphAllocator`, which uses `TensorAllocator` only as `TensorHeap` allows. In the other direction the
executor of the plugin has one thread, so calls of `whisper_full` and of the pool come one after the
other, as `WhisperFull` and `Threadpool` assume.

### BackgroundRecorder

*State.* The fields of the service keep their names. Files are functions of the segment:
`pcm[s]` (absent, there, deleted, expired) and `wav[s]` (absent, partial, complete, gone). `pc[t]` is where
a thread is; `file`, `entries`, `ret`, `fret` are its locals and return addresses, since
`finalizeSegment` and `flushSegmentManifest` are called from several places by both threads.
`finalizers`, `overlapped` and `flushFailed` are history: they say which interleaving happened,
so that a property can name exactly the runs it excludes.

*Actions.* One per stretch of code between two accesses that another thread can separate:
`FinalizeSegment` (guard and duration test), `ConvertPcmToWav` (opens and so truncates the WAV),
`CopyPcm`, `AddToBuffer`, `BroadcastSaved`, `DeletePcm`, `ResetVoiceActive`, `ForgetPcmFile`,
`StopRecording`, `ReleaseAudio`; the flush is `FlushSegmentManifest` (test), `ReadManifest`,
`AddAllOfBuffer`, `ClearBuffer`, `WriteTemp`, then `MoveTemp` (atomic, SDK 26 on) or
`UnlinkManifest` and `RenameTemp`. `Crash` ends the process in any state.

*Abstractions.* Audio is "the PCM file has some". `aged` stands for the minimum duration of a
segment. `join(1000)` is no step: its timeout lets the caller go on whatever the thread does.
A segment is named by its second; `Fresh` says that a second does not come twice (two recording
threads that open a segment in the same second are left out). `segmentBuffer` is an unsynchronised
`ArrayList`; its operations are atomic here, and `addAll` and `clear` are separate. A service
instance is not created while a recording thread of the last one still runs. With `IOErrors` any of
these may fail: creating a PCM file, opening or copying into a WAV, deleting the PCM file, and, in a flush,
reading the manifest, writing the temporary file, moving it, deleting the manifest, renaming. A flush
that fails sets `flushFailed`; when the manifest is already deleted and the rename fails, nothing is published.
Not modelled is a write error while the PCM file is recorded. `CleanupOldRecordings` judges and deletes each
WAV and each PCM file on its own; a PCM file deleted this way is `expired`, so that `NeverTruncated` can
tell it from one that `finalizeSegment` deleted: a WAV that a killed process left truncated may well lose
its PCM file to the retention.

*Noticed on the way.* With two recording threads, of which the first is in `restartRecording` while the
service is started again, the first one's `currentPcmFile = null` can forget the segment the second has just
opened: the voice-active flag then stays set without a segment, and nothing is saved until the next restart.
`NotWedged` therefore has `~overlapped` as a premise.

### SegmentLibrary

*State.* `rows` is the table (file, the task that inserted it, a number in place of the
AUTOINCREMENT id). Scans, handlers and deletions are tasks with a `pc`; `work`, `read`, `processed`,
`current` are the locals of a scan (`entries`, `processedPaths`, ...), `chosen` and `left` those of
`deleteRecordings`. `app` and `timer` are the isolate and `_backgroundStatusTimer`.

*Actions.* A step is the code between two awaits that touch files or table. `_processSegment` is
`CheckFile` and `InsertRow`, up to five seconds apart (the position is awaited in between) and
entered from three callers. `LookupEntry`, `SnapshotDb`, `InsertRow` and the deletions have the
outcome in which the table fails, which the code takes for "not found" (`database_service.dart`
355, 388). `RewriteManifest` truncates and `WriteManifest` writes: the recorder may replace or
remove the file in between, and two scans may write one file. `AppStops` ends every task where
it is. `DeleteRowOnly` is the deletion in the detail screen and by the agent.

*Abstractions.* Positions, titles, durations and transcription are left out, so is the limit of
10000 recordings of the orphan scan's query, and `clearAllData`. A complete WAV has at least 1 KB.

### Transcription

*State.* The flags of the three Dart objects and the plugin's context (`context`); `rows` is the
transcript column. `pc` is the await a request stands at: automatic requests are named after their
row, the others after the detail screen or the voice input that made them. `call[q]` follows a call
of the platform channel (sent, queued, running, then its answer), `tasks` is the executor's queue.

*Actions.* A Dart step is the code between two awaits: `InsertRecording` inserts the row and runs
`startTranscription` up to its first await, where a request may be dropped; `Serve`, `BeginLoad`,
`LocateModel`, `LoadAnswered` load the model; `CheckFile`, `CheckAudio`, `Transcribed`, `ReadRow`,
`UpdateRow` are the rest. The detail screen has its delay, `Fallback` and `WriteBack`. The plugin's
handlers run on the main thread, `BeginInitialize`, `EndInitialize` and `Transcribe` on its executor.
`EngineDies` is the destruction of the activity: isolate and plugin are new, the rows stay.

*Abstractions.* A text is what was recognized, the text of an error or a placeholder. Every test of a
file, query, conversion and native call has both outcomes; in particular the WAV of a foreground
recording need not be written yet, because `stopRecording` is answered before the service acts. The
order in which the main thread delivers answers is free. Tasks of a dead engine answer to nobody and
their context, which nothing frees, is not counted. Left out: `release` and `dispose`, which have no
caller, the status service, tags, the enrichment by Kimi (it keeps the text).

*Noticed on the way.* A request that finds another one running is dropped for good; the detail screen
replaces a text that was recognized meanwhile, even by a placeholder; and `nativeTranscribe` returns
`"[Error: ...]"` as text, so that an error is saved as the transcript although
`whisper_local_service.dart` 118 says that a failure returns null. The model has all three.

### RecordingSession

*State.* `currentRecording`, the timer that can be cancelled and all that tick, what the home screen
shows, the recording each stop is about to insert, the number of rows of each recording; the chat's
`listening` (`_isRecording`) and `voicePath`. `channel`, `answers` and `intents` are the queues between
isolate, `MainActivity` and service. The service's fields keep their names or are named in the module; `rpc`
is where each recording thread is, `audio[f]` says whose reads are in the PCM file of `f`.

*Actions.* A Dart step is the code between two awaits: `StartRecording`, `LocationKnown`,
`StartAnswered`; `StopRecording`, `StopAnswered`, `InsertRow` with the finally block. The voice input has
`PressMicrophone`, `PermissionKnown`, `StartVoice`, `ReleaseMicrophone`, `EndVoice`. `HandleCall` answers
and sends the intent; `ServiceStarts`, `ServiceStops`, `EndJoin`, `ConvertPcmToWav`, `DeletePcm` run on the main
thread, which `stopRecording` blocks; `TestFlag` and `RecordAudio` are `recordingLoop`. `EngineDies` ends the
isolate while the service records on, `ProcessDies` ends everything. `RebuildHome` and `LeaveChat` are
the tabs, which build their screens anew.

*Mishaps.* The code prevents neither overlapping starts or stops nor a voice input during a recording,
and swallows failures. `mishaps` is history: which kinds have occurred, and which recording threads outlived
`join(1000)` (`Outlived`). Each property names what it does not survive; everything else may happen.
What is excepted is where the code breaks the plain statement:

| Property | Excepts |
|---|---|
| `SidesAgree` | overlapping starts, stops or voice input; a failing channel, table or service; a lost engine |
| `OneRow` | nothing; when two stops overlapped a recording has at most a row for each stop, for the second one finds it still current |
| `RowHasAudio` | overlapping tasks, a failing service or conversion, a lost engine or killed process |
| `OneTimer` | overlapping starts, overlapping stops |
| `OwnAudio` | the audio of exactly those threads that outlived their join, which may get into a later file |
| `AudioIsKept` | a failing conversion, after which the PCM file is deleted all the same; not the killed process |
| `ForgottenWhenSaved` | overlapping starts, a lost engine; when two stops overlapped the stop may have been that of another recording, and when the insertion failed the recording is forgotten without a row |

*Abstractions.* Positions, titles, durations; what is done with a file afterwards (`Transcription`). A file is
named after its task, in the code after the millisecond. Left out: an input for which there is no temporary
directory, a chat that is left while an input begins or ends, and the service's `onDestroy`, which nobody causes.

*Noticed on the way.* The second of two overlapping stops may insert the recording again, or forget one that
was started in between, whose timer then ticks for ever and which nobody can stop. A voice input during a
recording gets no file, and releasing its button ends the recording; a short tap may be over before the
permission is known, and then leaves the service recording. After a stop that the channel failed, the
timer is gone but the recording is still current: a home screen that is built anew shows none, and every
start is refused. `convertPcmToWav` swallows its failure, and the PCM file is deleted all the same.

### WhisperFull

*State.* The locals of `whisper_full_with_state`: `seek`, the prompt history (its length), the attempt's
temperature index, the decoders (tokens, flags, sequence), the KV cache of `KVCache` (cells with a
position and the sequences that read them) and the segments produced so far.

*Actions.* `AtEnd`, `EncodeChunk`, `StartAttempt`, `Sample`, `SampleBeam`, `Update`, `DecodeTokens`,
`Accept`, `Retry`, `Output`, and the error returns `EncodeFails`, `AttemptFails`, `DecodeFails`. The
filters of `whisper_process_logits` (`Permitted`) decide which tokens may come; which comes is open.

*Abstractions.* The network, probabilities and the entropy are open choices. Tokens are text, the end
and timestamps `0 .. MaxTs`; a prompt is its length. The candidates of a beam search are a superset of
the real ones. `offset_ms` is 0 and blanks are suppressed, as the JNI sets them. Left out: callbacks,
grammars, voice detection, DTW and token timestamps, `whisper_full_parallel`. A call with an initial
prompt carried along (`carry_initial_prompt`) and `n_max_text_ctx` below 2 is excluded by an
assumption. What an earlier call on the same state has left of its prompt and of its context is a
parameter (`past0`, `past1`); that a kept prompt still fits is an assumption, for the code cuts a prompt
only when it is new (6917), and a caller that lowers `n_max_text_ctx` between two calls breaks it. The decoders of a batch and the ends of segments are listed by `InOrder`, the
members of a finite set with the smallest first. `HistoryIsCached` compares the cells each decoder sees with the history it should have.

*Noticed on the way.* With the default `best_of` of -1 a beam search keeps an old `best_decoder_id`
(`BeamCall`). When the larger cache cannot be had (-7) the state is freed but stays in the context.
The branch that gives an attempt up over its `seek_delta` is out of reach, because timestamps that
go back are masked.

### TensorAllocator, GraphAllocator

*State.* For the allocator the chunks with their free blocks in address order; for the planner the
reference counts (`n_children`, `n_views`), where each tensor lies, the node it is at and the buffers there are.

*Actions.* `TensorAllocator` has `Allocate` and `Free` with best fit, splitting and merging, and `Reset`;
`TensorHeap` knows only the ranges in use. `GraphAllocator` first builds a graph, then plans it:
`AllocateLeaf`, `CountChildrenAndViews`, and for each node `AllocateParent`, `AllocateDestination` (in the
place of a parent, or anew) and `UpdateParent`, which frees what was read for the last time; `Reserve`
keeps the buffers, replaces them, or finds no memory for new ones and leaves none.

*Abstractions.* One buffer type. Tensors of one size have one layout. Left out: tensors of size zero,
the limit `MAX_FREE_BLOCKS` (an assertion), nodes flagged as input, `GGML_OP_NONE` nodes that only
order others, nodes that write through a view, output flags on views. The graphs are all those of the
bound, with sources before their readers, each node with any sequence of 1 to `MaxSources` of them
(`GGML_MAX_SRC`). Every graph is planned afresh: `ggml_gallocr_needs_realloc` (1007-1065), which lets a
plan serve a later graph of the same shape, is not modelled.

*Noticed on the way.* Best fit starts again in every chunk, although the comment says "within any
chunk"; a view flagged as output does not keep its root.

### GgmlBarrier, BarrierTeam, Threadpool

*State.* The fields of `ggml_threadpool` keep their names: the counters of the barrier, `n_graph`,
`current_chunk`, `stop`, `pause`, `abort`, `ec`, the mutex and the threads asleep at the condition. The client
calls `ggml_graph_compute`, pause, resume and free one after another.

*Actions.* One per access to shared memory that another thread can separate: the test for work and the
sleep, the kick-off under the mutex, the arrival, the spin and the leaving of the barrier, fetching a
chunk, the reset by thread 0, the test for an abort.

*Abstractions.* Memory is sequentially consistent. The model is of the build without OpenMP. That is an
assumption, which the application's build files do not establish: `GGML_OPENMP` is ON by default, and
where the NDK finds OpenMP its barrier and team are used instead, which are not ours to model.
Pause and resume are single steps of the client, as each is one stretch of code under the mutex. The 16-bit number of graphs and the barrier's counters do not wrap in the bounds. `llamafile`'s
product is off. Priorities, affinities and NUMA are left out. Sleeping threads may wake up for nothing.

## 3. Runs

| Run | Instance | Shows |
|---|---|---|
| `recorder_segments` | 1 recording thread, 2 segments, atomic move, no failures | `TypeOK`; `ListenerHasMicrophone`: a service that listens has its `AudioRecord`, unless the service was started again while an earlier recording thread was stopping; `NeverTruncated`: `finalizeSegment` deletes the PCM file only when the WAV is whole, and `FinishedWavStays`: a finished WAV is not opened again, both unless two threads finalize the segment; `ManifestGrows`: a flush loses no entry, unless two threads finalize a segment or two recording threads run |
| `recorder_publishes` | 1 thread, 1 segment, failing files, non-atomic move, fairness | `NotWedged`: the service never gets stuck with a voice-active flag and no open segment, although main and recording thread both reset it and creating a file may fail, with the same exception as `ListenerHasMicrophone`; `BufferIsFlushed`; `ImplementsSource` (refinement); `SavedIsPublished`: a saved segment reaches the library both by broadcast and by manifest, unless a flush failed |
| `recorder_restart` | as above, no failures | **violated**: `RestartsAfterDeadObject`. `restartRecording` clears the flag its own callback tests |
| `recorder_stop` | 1 thread, 1 segment | **violated**: `StopEndsSegment`. The recording thread opens a segment after `stopRecording` ended the last |
| `library_rows` | 2 overlapping scans, 1 deletion, 1 failure, 1 segment | `AtMostOneRowPerScanner`: surplus rows are those of overlapping scans, broadcasts and failures only; `ListDeletionRemovesFile`: a row deleted in the list has lost its file |
| `library_eventually` | 1 scan, 1 broadcast handler, 2 segments, a table that does not fail, fairness | `EventuallyInLibrary`: with the timer active every complete segment is in the table again and again, whatever manifest and broadcasts lose |
| `library_deletion` | 1 scan, 1 segment | **violated**: `DeletionIsFinal`. The detail screen leaves the file, the orphan scan brings the recording back |
| `session` | 2 recordings, 1 voice input, 2 stops, any two mishaps | with the exceptions listed under RecordingSession: `SidesAgree`: at rest isolate, screen and service agree on whether and what they record; `OneRow`, `RowHasAudio`: a recording has one row, and its WAV is complete once the service has caught up, although the row is saved first; `OneTimer`: nothing ticks that cannot be cancelled; `ForgottenWhenSaved`: only a stop that tried to save a row makes the isolate forget; `OwnAudio`, `AudioIsKept`: audio is neither mixed nor lost |
| `threadpool` | 3 threads, 3 chunks, 2 graphs of a product, an empty node and rows; aborts, pauses | `QuietBetweenGraphs`: when the caller prepares a graph, no worker is still in the last; `ImplementsEvaluation` (refinement): every chunk once, after all chunks of the nodes before; `CallsReturn`: compute and the joins of free return, whether workers poll, sleep or are paused, and although threads wake up for nothing; pause and resume are single steps, so of their own return it says nothing |
| `graph_allocator` | every graph of 5 tensors with up to two sources per node: leafs, weights, views, in-place and other operations, an output; 2 chunks | `NothingShared`, `NothingLost`: free and used ranges partition each chunk; `PlanIsSafe`: no tensor is overwritten before its last reader; `MemoryIsReturned`: at the end only outputs hold memory; `PlanFitsBuffers`: the plan lies in the buffers, unless they could not be had; `UsesAllocator`, `UsesHeap`: the planner's steps are legal calls of the allocator, down to the abstract heap |
| `whisper_full` | calls with 1 and 2 decoders, greedy and beam, long, short and no context, a prompt kept from an earlier call, 3 chunks at most | `HistoryIsCached`: what a decoder attends to is its own history, through retries, beams and copies; `PositionsFit`, `SlotsSuffice`: no call runs out of positions or of adjoining cells; `ImplementsWindow` (refinement): the window moves forward by at most a chunk and segments are in order; `Returns` |
| `transcription` | 2 rows, a detail screen, a voice input, failures and the loss of the engine at any time | `FlagsAreHeld`: each flag is set exactly while its only holder works; `ModelStaysLoaded`: the Dart flags are never ahead of the plugin and no load frees a context another request relies on; `ImplementsTranscripts` (refinement): a request writes at its end, in its row, while that exists, and every request ends |

*Bounds.* Two threads are enough for most races of the recorder: the main thread and a recording thread;
two recording threads at a time (a restart that overtakes the first) are too many states with two segments, and
what they may do is left to the proofs, which hold for any number. Two segments let a flush carry an entry of an earlier
one. One segment is enough for the duplicate rows and the deletions of the library, whose properties
speak of one segment; two let a scan rewrite a manifest in part, or end at a file that vanished.
`MaxPending` bounds undelivered broadcasts of a segment, `MaxRows` stops the handler from taking
broadcasts when the table has so many rows (handlers add rows without limit), `MaxErrors` bounds the
failures. The scans need no bound: `AtMostOneRowPerScanner` bounds their rows.
In the pool three threads let one be late at a barrier that the other two have left, three chunks let a
thread fetch more than once (the code's factor of four chunks per thread is `ChunkFactor`, here 1), two
graphs let a thread carry something of the first into the second (`MaxGraphs`). Five tensors are enough
for a view of a view or a chain of in-place operations with a second reader and a node that is placed where
memory was freed too early; `MaxSources` 2 lets a node read one tensor twice or two tensors in either order
(a third source takes the same loop once more, and the theorems hold for any number); two chunks for a tensor that does not fit the first. `NTextCtx` 16 leaves room for a history, the task tokens and half a context of
text, so that truncation of the prompt, the limit of new tokens and the padding of cells (`KVPad`) all occur;
`MaxTs` 2 gives a timestamp at the begin, within and at the end of a chunk. Two rows let automatic
requests compete; with the screen and the voice input three objects load the model at once.
In the session two stops and two starts overlap, and a second recording follows the first on the same service, or
the voice input comes between. `MaxMishaps` 2 lets any two mishaps occur in a behaviour, each kind as often as it
likes and a thread outliving its join as one of them; the proofs have no such bound.
Three recordings show that `OneTimer` needs the premise about stops, which two do not; the proof needs it too.

*Fairness.* Recorder: the system schedules every thread, so each step of the shared code and each
posted message happens; nothing is assumed of the user, of speech or of crashes. Library: the isolate
runs every task that can run, and a timer that stays active fires. The home screen need never be
opened, so `EventuallyInLibrary` has the timer as its premise; only `startBackgroundRecording` starts
it, and after a restart of the application nothing does (see the hazards). Transcription: the isolate runs
what is ready, the main thread and the executor serve what is queued; the user, the table and the engine
owe nothing. Pool: the system schedules caller and workers (weak), and a thread that wants a mutex which
is free again and again gets it (strong): a condition variable that wakes up for nothing takes the mutex
over and over, so weak fairness would not let the others in. `whisper_full`: the thread goes on, `WF(Next)`,
written out as the formula TLC checks fastest; termination is the window's progress.

*Deadlock* is checked in every run; where a component comes to rest for good
(`Finished`, `returned`, `freed`; `Rest` of the session) a step that changes nothing says so.

## 4. Proofs

For any number of segments, recording threads, scans, handlers, deletions, recordings, failures, requests,
tensors, nodes and threads:

| Theorem | Says |
|---|---|
| `TypeCorrect`, `LibraryTypeCorrect` | the type invariants |
| `BufferAlwaysFlushed` | `BufferIsFlushed` |
| `FinishedWavIsKept` | `FinishedWavStays` |
| `NoTruncatedWav` | `NeverTruncated`, assuming `~IOErrors` |
| `NeverWedged` | `NotWedged` |
| `ListenerKeepsMicrophone` | `ListenerHasMicrophone` |
| `ManifestIsKept` | `ManifestGrows`, assuming `AtomicMove` as the run does |
| `RecorderImplementsSource` | the refinement `Spec => SourceSpec` |
| `OneRowPerScanner` | `AtMostOneRowPerScanner` |
| `ListDeletionIsComplete` | `ListDeletionRemovesFile` |
| `TranscriptionTypeCorrect`, `FlagsAreAlwaysHeld`, `ModelAlwaysStays` | the invariants of `Transcription` |
| `TranscriptionImplementsTranscripts` | the refinement `Spec => TranscriptsSafety` |
| `SessionTypeCorrect`, `OneRowOnly`, `OneTimerOnly`, `ForgetsWhatIsSaved` | `TypeOK`, `OneRow`, `OneTimer`, `ForgottenWhenSaved` of `RecordingSession` |
| `AudioIsAlwaysKept`, `AudioIsAlwaysOwn` | `AudioIsKept`, `OwnAudio` |
| `SavedRowHasAudio` | `RowHasAudio` |
| `SidesAlwaysAgree` | `SidesAgree` |
| `PositionsAlwaysFit` | `PositionsFit`, for every model, prompt and parameters |
| `SlotsAlwaysSuffice`, `HistoryIsAlwaysCached` | `SlotsSuffice`, `HistoryIsCached`, for any number of tokens, attempts and decoders up to the eight allowed |
| `WindowAdvances` | every chunk moves the window forward, by at most a chunk |
| `WindowIsImplemented` | the refinement of `AudioWindow` by `WhisperFull` |
| `NothingIsShared`, `NothingIsLost` | `NothingShared`, `NothingLost` of `TensorAllocator`, for any sequence of calls and sizes |
| `AllocatorImplementsHeap` | the refinement of `TensorHeap` |
| `PlannerUsesAllocator`, `PlannerUsesHeap` | the planner calls the allocator as it may, for any graph, any number of nodes and of sources |
| `PlanIsAlwaysSafe` | `PlanIsSafe` |
| `MemoryIsAlwaysReturned`, `PlanAlwaysFits` | `MemoryIsReturned`, `PlanFitsBuffers` |
| `BarrierKeepsTeamInStep` | any number of threads passes the barrier together, round after round |
| `PoolTypeCorrect` | `TypeOK` of the pool, with the bound of the barrier's counter |
| `PoolIsQuiet` | `QuietBetweenGraphs`, for any graph and any number of threads |
| `PoolEvaluatesGraphs` | the refinement of `GraphEvaluation` by the pool |

*Assumptions.* The named `ASSUME`s: the identities of threads and tasks are distinct, the flags are
Booleans, the bounds are naturals, there are finitely many deletions, and the values for "no manifest"
and "manifest that does not parse" are no sets of segments.

*Recorder.* `TypeOK` alone is not inductive: a thread that is about to announce a segment must know
which (`FileKnown`). `FinishedWavStays` needs to know why no lone thread reopens a finished WAV: while a
segment is open, whoever touched its files is still inside `finalizeSegment` and among its `finalizers`
(`OpenedWavHasFinisher`, `DeletedPcmHasFinisher`). Their conjunction is `IInv`. `NeverTruncated` adds
that a partial WAV of a lone finalizer has that thread still copying into it (`IInvTruncated`). The
refinement adds that every name on its way to the manifest is of a file that was created
(`NamesAreCreated`). `NotWedged` and `ListenerHasMicrophone` need to know what a service that was never
started over an old thread looks like (`IInvService`): one recording thread at most is alive, `isRecording`
says that the main thread has not begun to stop, and the flag and the field of the segment settle together.
`ManifestGrows` needs who may write the manifest: with one finisher at a time, whatever is in the buffer has a
thread that will flush it (`BufferHasOwner`), and a flush under way, of which no file operation failed,
carries all that the manifest has (`FlushCarries`); together `IInvManifest`.

*Library.* `ScansInv`: a scanner that may insert a segment without another lookup (`MayAdd`) has no row
of it but for failures (`LookedUp`); each step preserves it because it asks before it may add (`Asks`)
and adds one row at most (`Adds`). Finiteness of the table is part of it: a new row's number exists by
the pigeonhole principle (`NewRowIsNew`). `DeletionInv`: what a deletion has looked at is gone
(`LookedAt`), because rows are about files that were created (`RowsOfCreated`) and a file that is gone
does not come back. These invariants were checked by TLC on the runs' instances before they were proved.

*Transcription.* Why nobody uses a context that a load frees: while one request loads, `localReady` is
false and no other is past its load (`LoadsAreOrdered`), because only `isLoading` lets one begin, and a
request that is past its load keeps `localReady` true. `CallsAreAwaited` and `QueuedOnce` tie an answer to
the request that waits for it. `TextIsKnown` is what the refinement needs: a request that is about to write
has a text. Together with the run's invariants
they are `IInv`.

*Session.* `SessionInv`: a start that is alone finds nothing current and nothing ticking (`StartsAreAlone`,
`TicksForCurrent`), a stop that is alone saves what is current (`TicksForCurrent`), and what has a row is not
current, and each of its rows was, or will be, added by a stop of its own (`SavedIsOver`), which bounds them by
the number of stops. `ServiceInv`: until its WAV is complete, what the service works on
is in a PCM file (`WorkIsOnDisk`), and a thread that is alive and was not given up by its join writes into the
present recording, which is its own (`ThreadIsPresent`). `SidesInv` joins both with the queues between them: what the service will record
once it has served its queue is what the isolate holds to be recorded (`ClaimedIsRecorded`), a start in the queue
will find the service at rest (`StartsFindRest`), and, while conversions succeed, what is over has its WAV, or a stop of it waits in the queue
(`EndedIsConverted`). `ShownIsCurrent` says the same of the home screen and the timers. At rest the queues are
empty, which leaves `SidesAgree` and `RowHasAudio`.

*Whisper.* `PositionsFit` follows from what a prompt may take (`PromptInv`) and from a decoder having as
many tokens as steps were taken (`DecodersInv`). `WindowAdvances` rests on `seek_delta`: it is a chunk at first,
and a timestamp that changes it is not the first one.
The cache: a predicate `Holds(cache, c, q)` (sequence q has cell c) stands for all of it, and there is one lemma for
each operation that says what it does to `Holds` (`CopyGives`, `RemoveTakes`, `SharedGives`, `ReshuffledGives`,
`DecodeGives`). The loops over the decoders are folds of the community modules; `FoldExists` and `FoldInTurn`
turn a fold into the line of its intermediate values, over which `StepByStep` does the induction. `CacheInv`: each
decoder that goes on has every position of its history in one cell, computed from the tokens up to it
(`HasHistory`), and no cell above `HighWater`, the prompt and a cell for each decoder and each token, is in use
(`Below`), nor does the search for free cells begin above it. So there is room below the end of the cache:
`CellsSuffice` weighs the high water against the padding of the cache by its number of decoders. In a beam search
that copied cells in place the second decoder would take what the first had already overwritten; the spare sequences
are why `Taken` speaks of the cells before the exchange.
The window: the timestamps of a decoder do not go back, none lies beyond its `seek_delta`, and without any the
window has not moved (`InWindow`); while a token is taken in, the newest is left out and is not before the others
(`GoesOn`), because the filters mask timestamps that go back. So the segments, which end at timestamps, are in order
and inside the window (`SegmentEndsAre`); that with `WindowInv` is `MoveWindow`.

*Allocator and planner.* `NothingShared` needs that a chunk which is not in use has neither blocks nor
allocations (`UnusedEmpty`). `NothingLost` is inductive with it (`Complete`): a block that starts where the freed
one ended would have been its neighbour and merged. The planner's invariant is `PlanInv`. The counters are not
what they are called but what is still to come: `n_children` counts the readings that the planner has not reached,
`n_views` the views that it has not seen read for the last time (`Counts`). What has memory is wanted and what has
lost it is not read any more, except by the node that took it over (`HeldIsWanted`, `LostIsRead`), and the live
ranges are exactly those of the tensors that have memory (`Memory`). Hence no node so far overwrites what is still
needed (`SafeSoFar`), and at the end nothing but outputs and weights is held. The graphs are assumed to list their
leafs first, as `ggml_cgraph` keeps them apart from the nodes (`AddLeaf`).

*Barrier and pool.* The barrier's counter counts the threads that have arrived in this round (`CounterCounts`), the
last to arrive is alone in setting the others free (`LastIsAlone`), and a thread one round behind is one that
spins and has been let go (`InRound`). For the pool a graph is a line of levels, two for each node, with a wall
wherever the code has a barrier. All threads of a graph are between the same two walls, if those that the barrier
has let go count as being behind it already (`InStep`), so those that wait at a barrier wait at the same one;
a thread that is still inside it after the graph has ended is such a one (`Stale`). That is `PoolInv`, which gives
`TypeOK` and `QuietBetweenGraphs`. The refinement adds `WorkInv`: how far a thread is (`Progress`, five
steps for each node) tells which pieces of its own it has computed (`OwnFinished`), no two threads hold the same
chunk (`OneHolder`), nobody holds one that is computed (`HeldIsToCome`), and every chunk is computed, held, or not
given out yet (`NoneForgotten`). With the walls it follows that what comes before a piece is finished when the
piece begins, that nobody is ahead of the caller when it asks whether to abort (`NobodyIsAhead`), and that nothing is
left when it returns.

TLC checked the inductive invariants before they were proved, most of them on the runs' instances, `PoolInv` and
`WorkInv` on six and seven graphs with different chunks and numbers of threads.

*Only model-checked:* `CallsReturn`, `Returns`, `SavedIsPublished`, `EventuallyInLibrary` and the leads-to part of
`ImplementsTranscripts` (liveness under fairness is beyond the prover), and the violations.

## 5. Not modelled, and plan

Not modelled because nothing reaches it in this application: the automatic import of calls
(`CallStateService.initialize` has no caller) and `ModelDownloadService`, which would append the answer 200 to a
Range request to the part there is (`D/model_download_service.dart` 98).

Not modelled because there is no control to check: screens and data classes, the sequential services over text
and single rows (agent, profile, emotion, keyword, item, vector, imports, notes, settings, notifications),
developer tools; of the native engine the kernels, graph building, model loading and everything the application
does not call. Most of the repository's lines are of that kind: vendored kernels, other backends, examples.

Still worth a module, in this order:

1. `SegmentPipeline`: `BackgroundRecorder` and `SegmentLibrary` over shared files, to check end to end what
   the abstract interface now gives, for one segment.
2. `PeriodicServices` (a location update is scheduled again after a stop, `D/location_service.dart` 76),
   `BackupRestore` (a crash between deletion and copy, `D/backup_service.dart` 125), the provider fallback; the WAV
   reader as a pure function.
