--------------------------- MODULE Transcription ---------------------------
(***************************************************************************)
(* How the application gets a recording transcribed: the automatic request *)
(* that follows the insertion of a row (recording_service.dart), the one   *)
(* of the detail screen (transcription_service.dart) and the voice input   *)
(* of the chat share WhisperLocalService, whose calls cross the platform   *)
(* channel to WhisperPlugin.java: a handler on the main thread and one     *)
(* executor thread, which owns the native context.                         *)
(*                                                                         *)
(* Dart runs one task at a time and switches at awaits that wait for a     *)
(* file, the table, the network or the platform; a step here is the code   *)
(* between two of them. Files come and go: a test of a file has both       *)
(* outcomes. The WAV of a foreground recording need not even be written    *)
(* yet, because stopRecording is answered before the service acts.         *)
(***************************************************************************)
EXTENDS Sequences, Naturals, FiniteSets

CONSTANTS Rows, Screens, Voices

ASSUME RequestsAreDistinct ==
  /\ Rows \cap Screens = {}
  /\ Voices \cap (Rows \cup Screens) = {}

VARIABLES
  isTranscribing,  \* RecordingService._isTranscribing
  serviceReady,    \* WhisperService._isInitialized
  localReady,      \* WhisperLocalService._isInitialized
  isLoading,       \* WhisperLocalService._isLoading
  rows,            \* the transcript of each row
  shown,           \* widget.recording of a detail screen
  pc,              \* what a request awaits
  text,            \* the text it has got
  call,            \* its call of the platform channel
  tasks,           \* the executor's queue
  context          \* the plugin has a native context

flags    == <<isTranscribing, serviceReady, localReady, isLoading>>
requests == <<pc, text, shown>>
plugin   == <<call, tasks, context>>
vars     == <<flags, rows, requests, plugin>>

Requests == Rows \cup Screens \cup Voices
Waiting  == {"idle", "delay", "locateModel", "loading", "checkFile", "checkAudio",
             "transcribing", "readRow", "updateRow", "fallback", "writeBack"}
Spoken   == {"speech", "failure"}
Answers  == Spoken \cup {"ok", "error"}

Goto(q, label) == pc' = [pc EXCEPT ![q] = label]
Stored(r)      == rows[r] \notin {"absent", "deleted"}

Init ==
  /\ isTranscribing = FALSE /\ serviceReady = FALSE
  /\ localReady = FALSE /\ isLoading = FALSE
  /\ rows = [r \in Rows |-> "absent"]
  /\ shown \in [Screens -> Rows]
  /\ pc = [q \in Requests |-> "idle"]
  /\ text = [q \in Requests |-> "none"]
  /\ call = [q \in Requests |-> "none"]
  /\ tasks = <<>>
  /\ context = FALSE

-----------------------------------------------------------------------------
(* The end of a request.                                                   *)

\* Mutant: the flag is not reset when a request ends without a result.
FinishOnly(q) ==
  /\ Goto(q, "idle")
  /\ UNCHANGED isTranscribing

\* startTranscription resets the flag in its finally block.
Finish(q) ==
  /\ Goto(q, "idle")
  /\ isTranscribing' = (isTranscribing /\ q \notin Rows)

\* Nothing was recognized: the detail screen falls back, the others give up.
NoResult(q) ==
  IF q \in Screens THEN Goto(q, "fallback") /\ UNCHANGED isTranscribing
                   ELSE Finish(q)

\* Mutant: the row is written whether or not the table still has it.
SaveRow(r, value) == rows' = [rows EXCEPT ![r] = value]

\* updateRecording: UPDATE ... WHERE id = ?
UpdateRecording(r, value) ==
  rows' = IF Stored(r) THEN [rows EXCEPT ![r] = value] ELSE rows

-----------------------------------------------------------------------------
(* Loading the model.                                                      *)

\* Mutant: a second request loads the model too.
BeginLoadAnyway(q) ==
  /\ ~localReady
  /\ isLoading' = TRUE
  /\ Goto(q, "locateModel")

\* WhisperLocalService.initialize up to its first await.
BeginLoad(q) ==
  /\ ~localReady /\ ~isLoading
  /\ isLoading' = TRUE
  /\ Goto(q, "locateModel")

\* WhisperService.initialize lets q on to the transcription, or loads.
Serve(q) ==
  \/ /\ serviceReady \/ localReady
     /\ serviceReady' = TRUE
     /\ Goto(q, "checkFile")
     /\ UNCHANGED isLoading
  \/ ~serviceReady /\ BeginLoad(q) /\ UNCHANGED serviceReady

\* It fails when somebody else is loading.
Refused == ~serviceReady /\ ~localReady /\ isLoading

\* WhisperLocalService.transcribe: it loads the model itself if it must.
LocalTranscribe(q) ==
  \/ localReady /\ Goto(q, "checkAudio") /\ UNCHANGED <<isTranscribing, isLoading>>
  \/ BeginLoad(q) /\ UNCHANGED isTranscribing
  \/ ~localReady /\ isLoading /\ NoResult(q) /\ UNCHANGED isLoading

\* The model is looked for, and copied from the assets if there is none.
LocateModel(q) ==
  /\ pc[q] = "locateModel"
  /\ \/ /\ Goto(q, "loading")
        /\ call' = [call EXCEPT ![q] = "sent"]
        /\ UNCHANGED <<isTranscribing, isLoading>>
     \/ /\ isLoading' = FALSE
        /\ NoResult(q)
        /\ UNCHANGED call
  /\ UNCHANGED <<serviceReady, localReady, rows, text, shown, tasks, context>>

\* The plugin has answered initialize. WhisperService, if it waits, comes next.
LoadAnswered(q) ==
  /\ pc[q] = "loading"
  /\ call[q] \in Answers
  /\ call' = [call EXCEPT ![q] = "none"]
  /\ isLoading' = FALSE
  /\ IF call[q] = "ok"
       THEN /\ localReady' = TRUE
            /\ serviceReady' = (serviceReady \/ q \notin Screens)
            /\ Goto(q, IF q \in Screens \/ serviceReady THEN "checkAudio" ELSE "checkFile")
            /\ UNCHANGED isTranscribing
       ELSE NoResult(q) /\ UNCHANGED <<localReady, serviceReady>>
  /\ UNCHANGED <<rows, text, shown, tasks, context>>

-----------------------------------------------------------------------------
(* The requests.                                                           *)

\* A row is inserted and startTranscription called. A request that finds the
\* flag set, or somebody loading, is dropped and never made again.
InsertRecording(r) ==
  /\ rows[r] = "absent"
  /\ rows' = [rows EXCEPT ![r] = "empty"]
  /\ \/ (isTranscribing \/ Refused) /\ UNCHANGED <<flags, pc>>
     \/ /\ ~isTranscribing
        /\ isTranscribing' = TRUE
        /\ Serve(r)
        /\ UNCHANGED localReady
  /\ UNCHANGED <<text, shown, plugin>>

\* WhisperService.transcribe for the chat.
VoiceInput(v) ==
  /\ pc[v] = "idle"
  /\ Serve(v)
  /\ UNCHANGED <<isTranscribing, localReady, rows, text, shown, plugin>>

\* The button of the detail screen, once there is a model.
RequestTranscription(d) ==
  /\ pc[d] = "idle"
  /\ \E r \in Rows : Stored(r) /\ shown' = [shown EXCEPT ![d] = r]
  /\ Goto(d, "delay")
  /\ UNCHANGED <<flags, rows, text, plugin>>

\* Half a second that stands for the loading of the model.
DelayEnds(d) ==
  /\ pc[d] = "delay"
  /\ LocalTranscribe(d)
  /\ UNCHANGED <<serviceReady, localReady, rows, text, shown, plugin>>

CheckFile(q) ==
  /\ pc[q] = "checkFile"
  /\ LocalTranscribe(q) \/ (NoResult(q) /\ UNCHANGED isLoading)
  /\ UNCHANGED <<serviceReady, localReady, rows, text, shown, plugin>>

CheckAudio(q) ==
  /\ pc[q] = "checkAudio"
  /\ \/ /\ Goto(q, "transcribing")
        /\ call' = [call EXCEPT ![q] = "sent"]
        /\ UNCHANGED isTranscribing
     \/ NoResult(q) /\ UNCHANGED call
  /\ UNCHANGED <<serviceReady, localReady, isLoading, rows, text, shown, tasks, context>>

\* Mutant: the request ends with the error, and its call stays open.
TranscribedOpen(q) ==
  /\ pc[q] = "transcribing"
  /\ call[q] = "error"
  /\ NoResult(q)
  /\ UNCHANGED <<serviceReady, localReady, isLoading, rows, text, shown, plugin>>

\* The plugin has answered transcribe: with a text, which may be the text of an
\* error, or with an error. A voice input puts the text into the chat and is done.
Transcribed(q) ==
  /\ pc[q] = "transcribing"
  /\ call[q] \in Answers
  /\ call' = [call EXCEPT ![q] = "none"]
  /\ IF call[q] = "error" THEN NoResult(q) /\ UNCHANGED text
     ELSE /\ text' = IF q \in Voices THEN text ELSE [text EXCEPT ![q] = call[q]]
          /\ \/ q \in Rows /\ Goto(q, "readRow") /\ UNCHANGED isTranscribing
             \/ q \in Screens /\ Goto(q, "writeBack") /\ UNCHANGED isTranscribing
             \/ q \in Voices /\ Finish(q)
  /\ UNCHANGED <<serviceReady, localReady, isLoading, rows, shown, tasks, context>>

\* getRecording: the row may be gone, or the query fail.
ReadRow(r) ==
  /\ pc[r] = "readRow"
  /\ \/ Stored(r) /\ Goto(r, "updateRow") /\ UNCHANGED <<isTranscribing, text>>
     \/ Finish(r) /\ text' = [text EXCEPT ![r] = "none"]
  /\ UNCHANGED <<serviceReady, localReady, isLoading, rows, shown, plugin>>

UpdateRow(r) ==
  /\ pc[r] = "updateRow"
  /\ UpdateRecording(r, text[r]) \/ UNCHANGED rows
  /\ text' = [text EXCEPT ![r] = "none"]
  /\ Finish(r)
  /\ UNCHANGED <<serviceReady, localReady, isLoading, shown, plugin>>

\* _transcribeWithLocal: a description of the file in place of a transcript, or
\* nothing when there is no file.
Fallback(d) ==
  /\ pc[d] = "fallback"
  /\ \/ Goto(d, "writeBack") /\ text' = [text EXCEPT ![d] = "placeholder"]
     \/ Goto(d, "idle") /\ UNCHANGED text
  /\ UNCHANGED <<flags, rows, shown, plugin>>

\* The text, which Kimi may have enriched, replaces what the row has, whoever
\* wrote that meanwhile; nothing is written when the screen was left.
WriteBack(d) ==
  /\ pc[d] = "writeBack"
  /\ UpdateRecording(shown[d], text[d]) \/ UNCHANGED rows
  /\ text' = [text EXCEPT ![d] = "none"]
  /\ Goto(d, "idle")
  /\ UNCHANGED <<flags, shown, plugin>>

DeleteRecording(r) ==
  /\ Stored(r)
  /\ rows' = [rows EXCEPT ![r] = "deleted"]
  /\ UNCHANGED <<flags, requests, plugin>>

\* The activity is destroyed: its isolate and its plugin are replaced. What the
\* old executor still does is answered to nobody, and its context never freed.
EngineDies ==
  /\ isTranscribing' = FALSE /\ serviceReady' = FALSE
  /\ localReady' = FALSE /\ isLoading' = FALSE
  /\ pc' = [q \in Requests |-> "idle"]
  /\ text' = [q \in Requests |-> "none"]
  /\ call' = [q \in Requests |-> "none"]
  /\ tasks' = <<>>
  /\ context' = FALSE
  /\ UNCHANGED <<rows, shown>>

-----------------------------------------------------------------------------
(* WhisperPlugin.                                                          *)

Queue(q) ==
  /\ call' = [call EXCEPT ![q] = "queued"]
  /\ tasks' = Append(tasks, q)

Reply(q, answer) == call' = [call EXCEPT ![q] = answer]

\* handleInitialize on the main thread: no library, no model file.
HandleInitialize(q) ==
  /\ pc[q] = "loading"
  /\ call[q] = "sent"
  /\ Queue(q) \/ (Reply(q, "error") /\ UNCHANGED tasks)
  /\ UNCHANGED <<flags, rows, requests, context>>

\* handleTranscribe on the main thread: no context, no audio.
HandleTranscribe(q) ==
  /\ pc[q] = "transcribing"
  /\ call[q] = "sent"
  /\ (context /\ Queue(q)) \/ (Reply(q, "error") /\ UNCHANGED tasks)
  /\ UNCHANGED <<flags, rows, requests, context>>

\* The executor takes the next task when it has none.
Take(q) ==
  /\ tasks # <<>>
  /\ q = Head(tasks)
  /\ \A p \in Requests : call[p] # "running"
  /\ tasks' = Tail(tasks)

\* The context there is is freed, and nativeInit begins.
BeginInitialize(q) ==
  /\ pc[q] = "loading"
  /\ Take(q)
  /\ context' = FALSE
  /\ Reply(q, "running")
  /\ UNCHANGED <<flags, rows, requests>>

EndInitialize(q) ==
  /\ call[q] = "running"
  /\ \/ context' = TRUE /\ Reply(q, "ok")
     \/ UNCHANGED context /\ Reply(q, "error")
  /\ UNCHANGED <<flags, rows, requests, tasks>>

\* Conversion and nativeTranscribe, whose error texts count as a transcript. An
\* empty text and a context that is null end in an error.
Transcribe(q) ==
  /\ pc[q] = "transcribing"
  /\ Take(q)
  /\ Reply(q, "error") \/ (context /\ \E t \in Spoken : Reply(q, t))
  /\ UNCHANGED <<flags, rows, requests, context>>

-----------------------------------------------------------------------------
RequestStep(q) ==
  \/ LocateModel(q) \/ LoadAnswered(q) \/ CheckFile(q) \/ CheckAudio(q) \/ Transcribed(q)

ScreenStep(d) == DelayEnds(d) \/ Fallback(d) \/ WriteBack(d)

RowStep(r) == ReadRow(r) \/ UpdateRow(r)

PluginStep(q) ==
  \/ HandleInitialize(q) \/ HandleTranscribe(q)
  \/ BeginInitialize(q) \/ EndInitialize(q) \/ Transcribe(q)

Next ==
  \/ \E q \in Requests : RequestStep(q) \/ PluginStep(q)
  \/ \E d \in Screens : RequestTranscription(d) \/ ScreenStep(d)
  \/ \E r \in Rows : InsertRecording(r) \/ RowStep(r) \/ DeleteRecording(r)
  \/ \E v \in Voices : VoiceInput(v)
  \/ EngineDies

Spec == Init /\ [][Next]_vars

\* The isolate runs what is ready, the main thread handles its messages, and the
\* executor its tasks: a native call returns (see Returns of WhisperFull).
Fairness ==
  /\ \A q \in Requests : WF_vars(RequestStep(q)) /\ WF_vars(PluginStep(q))
  /\ \A d \in Screens : WF_vars(ScreenStep(d))
  /\ \A r \in Rows : WF_vars(RowStep(r))

FairSpec == Spec /\ Fairness

-----------------------------------------------------------------------------
(* Properties.                                                             *)

FlagsTyped == {isTranscribing, serviceReady, localReady, isLoading, context} \subseteq BOOLEAN

RequestsTyped ==
  /\ rows \in [Rows -> Spoken \cup {"absent", "deleted", "empty", "placeholder"}]
  /\ shown \in [Screens -> Rows]
  /\ pc \in [Requests -> Waiting]
  /\ text \in [Requests -> Spoken \cup {"none", "placeholder"}]

CallsTyped ==
  /\ call \in [Requests -> Answers \cup {"none", "sent", "queued", "running"}]
  /\ tasks \in Seq(Requests)

CallsAreAwaited ==
  \A q \in Requests : call[q] # "none" <=> pc[q] \in {"loading", "transcribing"}

TasksAreQueued == \A i \in 1 .. Len(tasks) : call[tasks[i]] = "queued"

QueuedOnce == \A i, j \in 1 .. Len(tasks) : tasks[i] = tasks[j] => i = j

\* Every variable has its type; a call is open exactly while its request awaits
\* it, and the executor's queue holds each queued call once.
TypeOK ==
  /\ FlagsTyped /\ RequestsTyped /\ CallsTyped
  /\ CallsAreAwaited /\ TasksAreQueued /\ QueuedOnce

Automatic == {r \in Rows : pc[r] # "idle"}
Loaders   == {q \in Requests : pc[q] \in {"locateModel", "loading"}}

\* A flag is set exactly while its holder is at work, whatever fails on the way,
\* and it has one holder: an automatic request holds _isTranscribing, the
\* request that loads the model holds _isLoading. A flag left behind would stop
\* every later transcription until the application is restarted.
FlagsAreHeld ==
  /\ isTranscribing <=> Automatic # {}
  /\ isLoading <=> Loaders # {}
  /\ \A p, q \in Automatic : p = q
  /\ \A p, q \in Loaders : p = q

\* The flags that say the model is loaded are copies, in two Dart objects, of
\* what the plugin knows: they are never ahead of it, and no request that has
\* gone on to its transcription finds the context freed by another one's load.
ModelStaysLoaded ==
  /\ serviceReady => localReady
  /\ localReady => context
  /\ \A q \in Requests : pc[q] \in {"checkFile", "checkAudio", "transcribing"} => context

\* Seen from the table, each request runs and ends once, as Transcripts says.
Promise == INSTANCE Transcripts WITH busy <- {q \in Requests : pc[q] # "idle"}
ImplementsTranscripts == Promise!TranscriptsSpec

-----------------------------------------------------------------------------
(* The inductive invariant behind the safety properties.                   *)

\* Who waits for a load and who is past it. While one request loads, no other is
\* past its load: so nobody uses the context that a load frees.
LoadsAreOrdered ==
  /\ isLoading => ~localReady
  /\ serviceReady => localReady
  /\ localReady => context
  /\ \A q \in Requests :
       /\ pc[q] \in {"checkFile", "checkAudio", "transcribing"} => localReady
       /\ call[q] \in {"ok", "running"} => pc[q] = "loading"
       /\ call[q] \in Spoken => pc[q] = "transcribing"
       /\ call[q] = "ok" => context

\* A request that is about to write has a text to write.
TextIsKnown ==
  /\ \A r \in Rows : pc[r] \in {"readRow", "updateRow"} => text[r] \in Spoken
  /\ \A d \in Screens : pc[d] = "writeBack" => text[d] # "none"

IInv == TypeOK /\ FlagsAreHeld /\ LoadsAreOrdered /\ TextIsKnown

=============================================================================
