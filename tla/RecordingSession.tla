--------------------------- MODULE RecordingSession ---------------------------
(***************************************************************************)
(* Recordings that the user starts and stops: startRecording, stopRecording*)
(* and _finalizeRecording of recording_service.dart, the voice input of    *)
(* chat_screen.dart, the platform channel of MainActivity.kt and the       *)
(* service RecordingService.kt that they share.                            *)
(*                                                                         *)
(* A step of the isolate is the code between two awaits. The channel only  *)
(* puts an intent into the queue of the main thread and answers "true"; the*)
(* service acts on the intent later, and may do nothing. A file is named   *)
(* after the task that asks for it (in the code, after the millisecond).   *)
(* Left out: positions, titles and durations, what the transcription does  *)
(* with a file (see Transcription), an input for which there is no         *)
(* temporary directory, a chat that is left while an input begins or ends, *)
(* and onDestroy of the service, which nobody stops.                       *)
(***************************************************************************)
EXTENDS Naturals, Sequences, FiniteSets

CONSTANTS
  Starts,    \* calls of startRecording, each for a recording of its own
  Inputs,    \* presses of the microphone in the chat
  Stops,     \* calls of stopRecording, and releases of that microphone
  MaxMishaps,  \* bound: mishaps in a behaviour
  None, StopIntent

\* What the code does not expect: overlapping tasks, and what may fail.
Kinds == {"twoStarts", "twoStops", "voice", "channel", "table", "service", "conversion", "engine"}

ASSUME SessionAssumption ==
  /\ Starts \cap Inputs = {} /\ (Starts \cup Inputs) \cap Stops = {}
  /\ (Starts \cup Inputs) \cap Kinds = {} /\ IsFiniteSet(Stops)
  /\ {None, StopIntent} \cap (Starts \cup Inputs \cup Stops) = {} /\ None # StopIntent
  /\ MaxMishaps \in Nat

VARIABLES
  pc,                \* the await a task is at
  currentRecording,  \* _currentRecording: its file
  timer, ticking,    \* _recordingTimer; all timers that were not cancelled
  shown,             \* _isRecording of the home screen
  saves,             \* the recording that a stop inserts
  rows,              \* how many rows the table has of a file
  finger, listening, \* the chat: the microphone is pressed; _isRecording
  voicePath,         \* _voiceInputPath
  channel, answers,  \* calls to MainActivity in their order, and its answers
  intents,           \* for onStartCommand: a file to record, or to stop
  isRecording, path, out, mic, thread,
                     \* the service: currentFilePath, pcmOutputStream, audioRecord, recordingThread
  main,              \* where the main thread is in stopRecording
  rpc,               \* where the recording thread of a file is
  audio,             \* whose reads were written into the PCM file
  pcm, wav,
  mishaps            \* history: what occurred of Kinds, and the files whose thread outlived its join

session == <<currentRecording, timer, ticking, shown, saves, rows>>
chat    == <<finger, listening, voicePath>>
queues  == <<channel, answers, intents>>
service == <<isRecording, path, out, mic, thread, main>>
files   == <<audio, pcm, wav>>
vars    == <<pc, session, chat, queues, service, rpc, files, mishaps>>

Files == Starts \cup Inputs
Tasks == Files \cup Stops

Goto(t, label) == pc' = [pc EXCEPT ![t] = label]
\* What the code does not expect happens. Bound: MaxMishaps in all.
Mishaps(new) ==
  /\ mishaps' = mishaps \cup new
  /\ Cardinality(mishaps') <= MaxMishaps

Fails(kind) == Mishaps({kind})
Note(kind, if) == Mishaps(IF if THEN {kind} ELSE {})

Elements(s) == {s[i] : i \in 1 .. Len(s)}

Busy(t) == pc[t] \notin {"idle", "done"}
Saving(t) == pc[t] \in {"stopping", "saving"}
Releasing(t) == pc[t] \in {"releasing", "released"}

\* The service records, or is about to, for one of these tasks.
Serves(tasks) == (isRecording /\ path \in tasks) \/ tasks \cap Elements(intents) # {}

SessionInUse ==
  \/ currentRecording # None \/ Serves(Starts)
  \/ \E q \in Starts : Busy(q)
  \/ \E t \in Stops : Saving(t)

VoiceInUse ==
  \/ listening \/ Serves(Inputs)
  \/ \E v \in Inputs : Busy(v)
  \/ \E t \in Stops : Releasing(t)

\* Nothing is under way on either side of the channel.
AtRest ==
  /\ \A t \in Tasks : ~Busy(t)
  /\ channel = <<>> /\ answers = <<>> /\ intents = <<>> /\ main = "idle"

Init ==
  /\ pc = [t \in Tasks |-> "idle"]
  /\ currentRecording = None /\ timer = None /\ ticking = {} /\ shown = FALSE
  /\ saves = [t \in Stops |-> None]
  /\ rows = [q \in Starts |-> 0]
  /\ finger = FALSE /\ listening = FALSE /\ voicePath = None
  /\ channel = <<>> /\ answers = <<>> /\ intents = <<>>
  /\ isRecording = FALSE /\ path = None /\ out = None /\ mic = FALSE /\ thread = None
  /\ main = "idle"
  /\ rpc = [f \in Files |-> "dead"]
  /\ audio = [f \in Files |-> {}]
  /\ pcm = {}
  /\ wav = [f \in Files |-> "absent"]
  /\ mishaps = {}

-----------------------------------------------------------------------------
(* The isolate: a session.                                                 *)

\* The guard, then the directory and the position are awaited.
StartRecording(q) ==
  /\ pc[q] = "idle"
  /\ currentRecording = None
  /\ Goto(q, "location")
  /\ Mishaps({kind \in {"twoStarts", "voice"} :
                IF kind = "voice" THEN VoiceInUse ELSE \E r \in Starts : Busy(r)})
  /\ UNCHANGED <<session, chat, queues, service, rpc, files>>

LocationKnown(q) ==
  /\ pc[q] = "location"
  /\ \/ Goto(q, "starting") /\ channel' = Append(channel, q)
     \/ Goto(q, "done") /\ UNCHANGED channel          \* an exception
  /\ UNCHANGED <<session, chat, answers, intents, service, rpc, files, mishaps>>

\* t takes the answer to its call, which is the next one.
TakeAnswer(t) == answers # <<>> /\ Head(answers).to = t /\ answers' = Tail(answers)
Succeeded == Head(answers).ok

StartAnswered(q) ==
  /\ pc[q] = "starting"
  /\ TakeAnswer(q)
  /\ Goto(q, "done")
  /\ \/ /\ Succeeded
        /\ currentRecording' = q
        /\ timer' = q
        /\ ticking' = ticking \cup {q}
        /\ shown' = TRUE
     \/ /\ ~Succeeded
        /\ UNCHANGED <<currentRecording, timer, ticking, shown>>
  /\ UNCHANGED <<saves, rows, chat, channel, intents, service, rpc, files, mishaps>>

\* Each second the listeners are told that a recording goes on.
Tick ==
  /\ ticking # {} /\ ~shown
  /\ shown' = TRUE
  /\ UNCHANGED <<pc, currentRecording, timer, ticking, saves, rows, chat, queues, service, rpc,
                 files, mishaps>>

\* The user goes to another screen and back: the state of the home screen is a new one.
RebuildHome ==
  /\ shown
  /\ shown' = FALSE
  /\ UNCHANGED <<pc, currentRecording, timer, ticking, saves, rows, chat, queues, service, rpc,
                 files, mishaps>>

\* Mutant: the timer goes on until the recording is saved, if it is.
MutantStop(t) ==
  /\ pc[t] = "idle"
  /\ currentRecording # None
  /\ timer' = None
  /\ channel' = Append(channel, t)
  /\ Goto(t, "stopping")
  /\ Note("twoStops", \E u \in Stops : Saving(u))
  /\ UNCHANGED <<currentRecording, ticking, shown, saves, rows, chat, answers, intents, service,
                 rpc, files>>

StopRecording(t) ==
  /\ pc[t] = "idle"
  /\ currentRecording # None
  /\ ticking' = ticking \ {timer}
  /\ timer' = None
  /\ channel' = Append(channel, t)
  /\ Goto(t, "stopping")
  /\ Note("twoStops", \E u \in Stops : Saving(u))
  /\ UNCHANGED <<currentRecording, shown, saves, rows, chat, answers, intents, service, rpc, files>>

\* Mutant: the recording is forgotten when the channel fails.
MutantAnswered(t) ==
  /\ pc[t] = "stopping"
  /\ TakeAnswer(t)
  /\ \/ /\ Succeeded /\ currentRecording # None
        /\ saves' = [saves EXCEPT ![t] = currentRecording]
        /\ Goto(t, "saving")
        /\ UNCHANGED currentRecording
     \/ /\ Succeeded => currentRecording = None
        /\ currentRecording' = None
        /\ Goto(t, "idle")
        /\ UNCHANGED saves
  /\ UNCHANGED <<timer, ticking, shown, rows, chat, channel, intents, service, rpc, files, mishaps>>

\* _finalizeRecording up to the insertion; composing the title awaits nothing else.
StopAnswered(t) ==
  /\ pc[t] = "stopping"
  /\ TakeAnswer(t)
  /\ \/ /\ Succeeded /\ currentRecording # None
        /\ saves' = [saves EXCEPT ![t] = currentRecording]
        /\ Goto(t, "saving")
     \/ /\ Succeeded => currentRecording = None
        /\ Goto(t, "idle")
        /\ UNCHANGED saves
  /\ UNCHANGED <<currentRecording, timer, ticking, shown, rows, chat, channel, intents, service,
                 rpc, files, mishaps>>

\* Mutant: what was current when the row is inserted is forgotten only after a success.
MutantInsert(t) ==
  /\ pc[t] = "saving"
  /\ \/ /\ rows' = [rows EXCEPT ![saves[t]] = @ + 1]
        /\ shown' = FALSE
        /\ UNCHANGED <<currentRecording, mishaps>>
     \/ /\ Fails("table")
        /\ UNCHANGED <<currentRecording, rows, shown>>
  /\ saves' = [saves EXCEPT ![t] = None]
  /\ Goto(t, "idle")
  /\ UNCHANGED <<timer, ticking, chat, queues, service, rpc, files>>

\* The insertion and the finally block, which forgets whatever recording is current.
InsertRow(t) ==
  /\ pc[t] = "saving"
  /\ \/ /\ rows' = [rows EXCEPT ![saves[t]] = @ + 1]
        /\ shown' = FALSE
        /\ UNCHANGED mishaps
     \/ /\ Fails("table")
        /\ UNCHANGED <<rows, shown>>
  /\ currentRecording' = None
  /\ saves' = [saves EXCEPT ![t] = None]
  /\ Goto(t, "idle")
  /\ UNCHANGED <<timer, ticking, chat, queues, service, rpc, files>>

-----------------------------------------------------------------------------
(* The isolate: the voice input, which asks nobody whether a recording runs. *)

\* _startVoiceInput: the permission is awaited.
PressMicrophone(v) ==
  /\ pc[v] = "idle" /\ ~finger
  /\ finger' = TRUE
  /\ Goto(v, "permission")
  /\ UNCHANGED <<session, listening, voicePath, queues, service, rpc, files, mishaps>>

PermissionKnown(v) ==
  /\ pc[v] = "permission"
  /\ \/ Goto(v, "directory") /\ listening' = TRUE
     \/ Goto(v, "done") /\ UNCHANGED listening
  /\ UNCHANGED <<session, finger, voicePath, queues, service, rpc, files, mishaps>>

StartVoice(v) ==
  /\ pc[v] = "directory"
  /\ voicePath' = v
  /\ channel' = Append(channel, v)
  /\ Goto(v, "starting")
  /\ Note("voice", SessionInUse)
  /\ UNCHANGED <<session, finger, listening, answers, intents, service, rpc, files>>

VoiceAnswered(v) ==
  /\ pc[v] = "starting"
  /\ TakeAnswer(v)
  /\ Goto(v, "done")
  /\ UNCHANGED <<session, chat, channel, intents, service, rpc, files, mishaps>>

\* _stopVoiceInput; when the permission is still awaited there is nothing to stop.
ReleaseMicrophone ==
  /\ finger
  /\ finger' = FALSE
  /\ \/ /\ ~listening
        /\ UNCHANGED <<pc, listening, channel, mishaps>>
     \/ /\ listening
        /\ listening' = FALSE
        /\ \E t \in Stops :
             /\ pc[t] = "idle"
             /\ Goto(t, "releasing")
             /\ channel' = Append(channel, t)
        /\ Note("voice", SessionInUse)
  /\ UNCHANGED <<session, voicePath, answers, intents, service, rpc, files>>

\* The user goes to another screen: the state of the chat is lost, the service is not told.
LeaveChat ==
  /\ listening /\ ~finger
  /\ \A v \in Inputs : ~Busy(v)
  /\ \A t \in Stops : ~Releasing(t)
  /\ listening' = FALSE /\ voicePath' = None
  /\ UNCHANGED <<pc, session, finger, queues, service, rpc, files, mishaps>>

ReleaseAnswered(t) ==
  /\ pc[t] = "releasing"
  /\ TakeAnswer(t)
  /\ Goto(t, "released")
  /\ UNCHANGED <<session, chat, channel, intents, service, rpc, files, mishaps>>

\* An input that was too short, or that failed, keeps its file, if there is one. After the
\* transcription the file is deleted.
EndVoice(t) ==
  /\ pc[t] = "released"
  /\ \/ voicePath' = None /\ UNCHANGED wav
     \/ UNCHANGED <<voicePath, wav>>
     \/ /\ voicePath # None
        /\ voicePath' = None
        /\ wav' = [wav EXCEPT ![voicePath] = IF @ = "absent" THEN @ ELSE "deleted"]
  /\ Goto(t, "idle")
  /\ UNCHANGED <<session, finger, listening, queues, service, rpc, audio, pcm, mishaps>>

-----------------------------------------------------------------------------
(* The main thread: MainActivity's handler, and onStartCommand of the service. *)

HandleCall ==
  /\ main = "idle" /\ channel # <<>>
  /\ channel' = Tail(channel)
  /\ LET t == Head(channel) IN
       \/ /\ answers' = Append(answers, [to |-> t, ok |-> TRUE])
          /\ intents' = Append(intents, IF t \in Stops THEN StopIntent ELSE t)
          /\ UNCHANGED mishaps
       \/ /\ answers' = Append(answers, [to |-> t, ok |-> FALSE])
          /\ Fails("channel")
          /\ UNCHANGED intents
  /\ UNCHANGED <<pc, session, chat, service, rpc, files>>

\* startRecording of the service: while it records, the intent is dropped.
ServiceStarts(f) ==
  /\ main = "idle" /\ intents # <<>> /\ Head(intents) = f
  /\ intents' = Tail(intents)
  /\ IF isRecording
     THEN UNCHANGED <<path, out, pcm, isRecording, mic, thread, rpc, mishaps>>
     ELSE /\ path' = f
          /\ \/ /\ out' = f /\ pcm' = pcm \cup {f}
                /\ isRecording' = TRUE /\ mic' = TRUE /\ thread' = f
                /\ rpc' = [rpc EXCEPT ![f] = "test"]
                /\ UNCHANGED mishaps
             \/ /\ Fails("service")               \* there is no stream, or no AudioRecord
                /\ \/ UNCHANGED <<out, pcm, mic>>
                   \/ out' = f /\ pcm' = pcm \cup {f} /\ mic' \in {mic, FALSE}
                /\ UNCHANGED <<isRecording, thread, rpc>>
  /\ UNCHANGED <<pc, session, chat, channel, answers, main, audio, wav>>

\* stopRecording of the service, up to the join.
ServiceStops ==
  /\ main = "idle" /\ intents # <<>> /\ Head(intents) = StopIntent
  /\ intents' = Tail(intents)
  /\ isRecording' = FALSE
  /\ main' = IF isRecording THEN "join" ELSE "idle"
  /\ UNCHANGED <<pc, session, chat, channel, answers, path, out, mic, thread, rpc, files, mishaps>>

\* Mutant: nobody waits for the thread.
MutantJoin ==
  /\ main = "join"
  /\ mic' = FALSE /\ out' = None /\ thread' = None
  /\ main' = "convert"
  /\ UNCHANGED <<pc, session, chat, queues, isRecording, path, rpc, files, mishaps>>

\* The thread that join(1000) gave up on, if it did.
Outlived == {f \in Files : f = thread /\ rpc[f] # "dead"}

\* join(1000) returns; AudioRecord and stream are closed.
EndJoin ==
  /\ main = "join"
  /\ thread' = None
  /\ \/ /\ Mishaps(Outlived)
        /\ mic' = FALSE /\ out' = None
        /\ main' = "convert"
     \/ /\ Mishaps(Outlived \cup {"service"})          \* AudioRecord or stream throws
        /\ main' = "idle"
        /\ mic' \in {mic, FALSE}
        /\ UNCHANGED out
  /\ UNCHANGED <<pc, session, chat, queues, isRecording, path, rpc, files>>

\* Mutant: the PCM file is deleted first, and nothing is left to convert.
MutantConvert ==
  /\ main = "convert"
  /\ pcm' = pcm \ {path}
  /\ main' = "written"
  /\ UNCHANGED <<pc, session, chat, queues, isRecording, path, out, mic, thread, rpc, audio, wav,
                 mishaps>>

\* convertPcmToWav swallows what goes wrong.
ConvertPcmToWav ==
  /\ main = "convert"
  /\ main' = "written"
  /\ \/ wav' = [wav EXCEPT ![path] = "complete"] /\ UNCHANGED mishaps
     \/ Fails("conversion") /\ UNCHANGED wav
  /\ UNCHANGED <<pc, session, chat, queues, isRecording, path, out, mic, thread, rpc, audio, pcm>>

DeletePcm ==
  /\ main = "written"
  /\ pcm' = pcm \ {path}
  /\ main' = "idle"
  /\ UNCHANGED <<pc, session, chat, queues, isRecording, path, out, mic, thread, rpc, audio, wav,
                 mishaps>>

-----------------------------------------------------------------------------
(* recordingLoop, on a thread of its own.                                   *)

TestFlag(f) ==
  /\ rpc[f] = "test"
  /\ rpc' = [rpc EXCEPT ![f] = IF isRecording THEN "read" ELSE "dead"]
  /\ UNCHANGED <<pc, session, chat, queues, service, files, mishaps>>

\* read from the AudioRecord and writePcmData to the stream, those there are now.
RecordAudio(f) ==
  /\ rpc[f] = "read"
  /\ rpc' = [rpc EXCEPT ![f] = "test"]
  /\ \/ mic /\ out # None /\ audio' = [audio EXCEPT ![out] = @ \cup {f}]
     \/ UNCHANGED audio                                \* nothing read, or not written
  /\ UNCHANGED <<pc, session, chat, queues, service, pcm, wav, mishaps>>

-----------------------------------------------------------------------------
(* Ends that nobody asked for.                                              *)

\* The isolate and the channel are gone, and with them every task.
LoseIsolate ==
  /\ pc' = [t \in Tasks |-> IF t \in Stops THEN "idle" ELSE IF Busy(t) THEN "done" ELSE pc[t]]
  /\ currentRecording' = None /\ timer' = None /\ ticking' = {} /\ shown' = FALSE
  /\ saves' = [t \in Stops |-> None]
  /\ finger' = FALSE /\ listening' = FALSE /\ voicePath' = None
  /\ channel' = <<>> /\ answers' = <<>>
  /\ UNCHANGED rows

\* The activity is destroyed; the service and its queue go on.
EngineDies ==
  /\ main = "idle"
  /\ LoseIsolate
  /\ Fails("engine")
  /\ UNCHANGED <<intents, service, rpc, files>>

\* The process is killed, perhaps in the middle of writing a WAV.
ProcessDies ==
  /\ LoseIsolate
  /\ Fails("engine")
  /\ intents' = <<>>
  /\ isRecording' = FALSE /\ path' = None /\ out' = None /\ mic' = FALSE /\ thread' = None
  /\ main' = "idle"
  /\ rpc' = [f \in Files |-> "dead"]
  /\ \/ UNCHANGED wav
     \/ main = "convert" /\ wav' = [wav EXCEPT ![path] = "partial"]
  /\ UNCHANGED <<audio, pcm>>

-----------------------------------------------------------------------------
Isolate ==
  \/ \E q \in Starts : LocationKnown(q) \/ StartAnswered(q)
  \/ \E t \in Stops : StopAnswered(t) \/ InsertRow(t) \/ ReleaseAnswered(t) \/ EndVoice(t)
  \/ \E v \in Inputs : PermissionKnown(v) \/ StartVoice(v) \/ VoiceAnswered(v)

MainThread ==
  HandleCall \/ ServiceStops \/ EndJoin \/ ConvertPcmToWav \/ DeletePcm
  \/ \E f \in Files : ServiceStarts(f)

Recorder(f) == TestFlag(f) \/ RecordAudio(f)

User ==
  \/ \E q \in Starts : StartRecording(q)
  \/ \E t \in Stops : StopRecording(t)
  \/ \E v \in Inputs : PressMicrophone(v)
  \/ ReleaseMicrophone \/ LeaveChat \/ RebuildHome

\* The user has nothing more to ask for.
Rest == AtRest /\ UNCHANGED vars

Next ==
  \/ User \/ Isolate \/ Tick \/ MainThread \/ Rest
  \/ \E f \in Files : Recorder(f)
  \/ EngineDies \/ ProcessDies

Spec == Init /\ [][Next]_vars

\* The isolate runs what is ready, the main thread serves what is queued, a recording thread
\* does not stand still.
FairSpec ==
  Spec /\ WF_vars(Isolate) /\ WF_vars(MainThread) /\ \A f \in Files : WF_vars(Recorder(f))

-----------------------------------------------------------------------------
SessionTyped ==
  /\ pc \in [Tasks -> {"idle", "location", "starting", "done", "stopping", "saving", "permission",
                       "directory", "releasing", "released"}]
  /\ currentRecording \in Starts \cup {None} /\ timer \in Starts \cup {None}
  /\ ticking \subseteq Starts
  /\ saves \in [Stops -> Starts \cup {None}] /\ rows \in [Starts -> Nat]

ServiceTyped ==
  /\ isRecording \in BOOLEAN /\ mic \in BOOLEAN
  /\ path \in Files \cup {None} /\ out \in Files \cup {None} /\ thread \in Files \cup {None}
  /\ main \in {"idle", "join", "convert", "written"}
  /\ rpc \in [Files -> {"dead", "test", "read"}]
  /\ audio \in [Files -> SUBSET Files] /\ pcm \subseteq Files
  /\ wav \in [Files -> {"absent", "partial", "complete", "deleted"}]
  /\ voicePath \in Inputs \cup {None}

QueuesTyped ==
  /\ shown \in BOOLEAN /\ finger \in BOOLEAN /\ listening \in BOOLEAN
  /\ channel \in Seq(Tasks) /\ answers \in Seq([to : Tasks, ok : BOOLEAN])
  /\ intents \in Seq(Files \cup {StopIntent})
  /\ mishaps \subseteq Kinds \cup Files

TypeOK == SessionTyped /\ ServiceTyped /\ QueuesTyped

Without(excluded) == mishaps \cap excluded = {}

\* The isolate, the home screen and the service, which learn of each other by queues only,
\* agree on whether a recording runs and on its file, unless tasks overlapped or failed. A home
\* screen that was built anew is told by the next tick.
SidesAgree ==
  AtRest /\ Without({"twoStarts", "twoStops", "voice", "channel", "table", "service", "engine"}) =>
    /\ shown => currentRecording # None
    /\ currentRecording # None => shown \/ ticking # {}
    /\ currentRecording # None => isRecording /\ path = currentRecording
    /\ isRecording /\ path \in Starts => path = currentRecording

\* A recording has one row. Stops that ran at a time may each have added one, for the second
\* finds the recording still current, but no stop adds two, nor does one that began later.
OneRow ==
  \A q \in Starts : rows[q] <= IF "twoStops" \in mishaps THEN Cardinality(Stops) ELSE 1

\* A row that was saved has its WAV once the service has caught up: the answer "true" that the
\* row was saved on does not say so. Where tasks overlapped, the service or its conversion
\* failed, or the engine or the process was lost, a row may stay without audio.
RowHasAudio ==
  AtRest /\ Without({"twoStarts", "twoStops", "voice", "service", "conversion", "engine"}) =>
    \A q \in Starts : rows[q] > 0 => wav[q] = "complete"

\* Only the timer that can be cancelled ticks, unless two starts ran at a time, or the second of
\* two stops forgot the recording that was started in between: any other timer would tell the
\* screen for ever that a recording runs.
OneTimer == Without({"twoStarts", "twoStops"}) => ticking \subseteq {timer}

\* A file holds what was read by its own thread. Only a thread that the main thread did not
\* wait for to its end can get into another recording, whatever else overlaps or fails.
OwnAudio == \A f \in Files : audio[f] \subseteq {f} \cup mishaps

\* What was recorded exists in one form at least, whatever overlaps or fails, and also after the
\* process was killed, with two exceptions: the PCM file is deleted although the conversion
\* failed (RecordingService.kt:241), and the user's input after its use.
AudioIsKept ==
  Without({"conversion"}) =>
    \A f \in Files : audio[f] # {} => f \in pcm \/ wav[f] \in {"complete", "deleted"}

\* The isolate forgets a recording only in the finally block of a stop that has tried to insert
\* its row, whatever awaits of the channel and the table lie in between. When the insertion
\* fails it is forgotten all the same, without a row; and when two stops ran at a time it may
\* have been the stop of the recording before. Left out: of two starts at a time the second one
\* replaces the first one's recording, and a lost engine has forgotten everything.
ForgottenWhenSaved ==
  [][/\ currentRecording # None /\ currentRecording' # currentRecording
     /\ mishaps' \cap {"twoStarts", "engine"} = {}
     => \E t \in Stops :
          /\ saves[t] # None /\ saves'[t] = None
          /\ saves[t] = currentRecording \/ "twoStops" \in mishaps'
          /\ rows'[saves[t]] > rows[saves[t]] \/ "table" \in mishaps']_vars
-----------------------------------------------------------------------------
(* What makes these properties inductive.                                   *)

\* One start at a time, and while it is under way nothing is current.
StartsAreAlone ==
  Without({"twoStarts"}) =>
    \A q \in Starts : Busy(q) => currentRecording = None /\ \A r \in Starts : Busy(r) => r = q

StopsAreAlone ==
  Without({"twoStops"}) => \A t, u \in Stops : Saving(t) /\ Saving(u) => t = u

\* Nothing ticks for a recording that is not current, or that a stop is saving.
TicksForCurrent ==
  Without({"twoStarts", "twoStops"}) =>
    /\ currentRecording = None => ticking = {}
    /\ \A t \in Stops :
         Saving(t) => /\ currentRecording # None /\ ticking = {}
                      /\ pc[t] = "saving" => saves[t] = currentRecording

\* Only what was started is current or is saved.
StartedBefore ==
  /\ currentRecording # None => pc[currentRecording] = "done"
  /\ \A t \in Stops : /\ saves[t] # None <=> pc[t] = "saving"
                      /\ saves[t] # None => pc[saves[t]] = "done"

\* The stops that are about to insert a row of q.
SavesOf(q) == {t \in Stops : saves[t] = q}

\* What has its row is over, and each row of it was or will be added by another stop.
SavedIsOver ==
  \A q \in Starts :
    /\ rows[q] > 0 => pc[q] = "done" /\ currentRecording # q
    /\ rows[q] + Cardinality(SavesOf(q)) <= Cardinality(Stops)
    /\ Without({"twoStops"}) /\ rows[q] > 0 => rows[q] = 1 /\ SavesOf(q) = {}

SessionInv ==
  /\ SessionTyped /\ StartsAreAlone /\ StopsAreAlone /\ OneTimer /\ TicksForCurrent
  /\ StartedBefore /\ SavedIsOver

\* What the service works on is on disk, as PCM until the WAV is complete.
WorkIsOnDisk ==
  /\ out # None => out \in pcm
  /\ isRecording => main = "idle" /\ path # None /\ out = path
  /\ main \in {"join", "convert"} => path \in pcm
  /\ main \in {"convert", "written"} => out = None
  /\ main = "written" => path # None
  /\ main = "written" /\ Without({"conversion"}) => wav[path] \in {"complete", "deleted"}

\* A thread that is alive, and was waited for, is the one of the present recording.
ThreadIsPresent ==
  \A f \in Files \ mishaps : rpc[f] # "dead" =>
    thread = f /\ out = f /\ (isRecording \/ main = "join")

ServiceInv == ServiceTyped /\ AudioIsKept /\ OwnAudio /\ WorkIsOnDisk /\ ThreadIsPresent

\* A call and its answer are of a task that waits for them, and there is one of the two.
Waits(t) == IF t \in Stops THEN pc[t] \in {"stopping", "releasing"} ELSE pc[t] = "starting"

CallsAreWaitedFor ==
  /\ \A i \in 1 .. Len(channel) : Waits(channel[i])
  /\ \A i \in 1 .. Len(answers) : Waits(answers[i].to)
  /\ \A i, j \in 1 .. Len(channel) : channel[i] = channel[j] => i = j
  /\ \A i, j \in 1 .. Len(answers) : answers[i].to = answers[j].to => i = j
  /\ \A i \in 1 .. Len(channel), j \in 1 .. Len(answers) : channel[i] # answers[j].to

Accepted == {answers[i].to : i \in {j \in 1 .. Len(answers) : answers[j].ok}}

\* A stop was accepted, and the isolate has not forgotten the recording yet.
Ending == \E t \in Stops : pc[t] = "saving" \/ (pc[t] = "stopping" /\ t \in Accepted)

\* What the isolate holds to be recorded, and what the service will record when it has served
\* its queue.
Claimed(q) == (pc[q] = "starting" /\ q \in Accepted) \/ (currentRecording = q /\ ~Ending)

Recorded(q) ==
  \/ isRecording /\ path = q /\ intents = <<>>
  \/ intents # <<>> /\ intents[Len(intents)] = q

\* The service will not be recording.
Quiet == IF intents = <<>> THEN ~isRecording ELSE intents[Len(intents)] = StopIntent

\* The recording of q is over, or a stop of it waits in the queue.
IsConverted(q) ==
  \/ wav[q] = "complete"
  \/ main \in {"join", "convert"} /\ path = q
  \/ isRecording /\ path = q /\ intents # <<>>
  \/ \E i \in 1 .. Len(intents) : i < Len(intents) /\ intents[i] = q

Undisturbed == Without({"twoStarts", "twoStops", "voice", "service", "engine"})

\* While there is a session the voice input does not use the channel, nor the service.
VoiceStandsAside ==
  SessionInUse =>
    /\ ~Serves(Inputs)
    /\ \A v \in Inputs : pc[v] # "starting"
    /\ \A t \in Stops : pc[t] # "releasing"

\* A start in the queue finds the service at rest, and so will the one that is being called.
StartsFindRest ==
  /\ \A i \in 1 .. Len(intents) : intents[i] \in Starts =>
       IF i = 1 THEN ~isRecording ELSE intents[i - 1] = StopIntent
  /\ \A q \in Starts : Busy(q) /\ q \notin Accepted => Quiet

ClaimedIsRecorded == \A q \in Starts : Recorded(q) <=> Claimed(q)

EndedIsConverted ==
  Without({"conversion"}) =>
    \A q \in Starts : rows[q] > 0 \/ (currentRecording = q /\ Ending) => IsConverted(q)

SidesInv ==
  Undisturbed => VoiceStandsAside /\ StartsFindRest /\ ClaimedIsRecorded /\ EndedIsConverted

\* Each accepted start ticks until it is stopped, and the screen shows nothing else.
ShownIsCurrent ==
  Without({"twoStarts", "twoStops", "channel", "table"}) =>
    /\ \A i \in 1 .. Len(answers) : answers[i].ok
    /\ shown => currentRecording # None
    /\ currentRecording # None => ticking # {} \/ \E t \in Stops : Saving(t)
=============================================================================
