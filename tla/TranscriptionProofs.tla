------------------------- MODULE TranscriptionProofs -------------------------
(***************************************************************************)
(* Transcription keeps its flags and its model, for any number of rows,    *)
(* screens and voice inputs, and implements the safety part of             *)
(* Transcripts. The lemmas say of each action that it preserves IInv.      *)
(***************************************************************************)
EXTENDS Transcription, TLAPS

LEMMA InitEstablishes ==
  ASSUME Init
  PROVE  IInv
  <1>1. TypeOK
    <2>1. FlagsTyped /\ RequestsTyped
      BY DEF Init, FlagsTyped, RequestsTyped, Waiting
    <2>2. CallsTyped /\ CallsAreAwaited
      BY DEF Init, CallsTyped, CallsAreAwaited
    <2>3. TasksAreQueued /\ QueuedOnce
      BY DEF Init, TasksAreQueued, QueuedOnce
    <2>. QED
      BY <2>1, <2>2, <2>3 DEF TypeOK
  <1>2. FlagsAreHeld
    BY RequestsAreDistinct DEF Init, FlagsAreHeld, Automatic, Loaders, Requests
  <1>3. LoadsAreOrdered /\ TextIsKnown
    BY DEF Init, LoadsAreOrdered, TextIsKnown, Spoken, Requests
  <1>. QED
    BY <1>1, <1>2, <1>3 DEF IInv

\* The request that loads goes on to call the plugin, or ends and gives the load up.
LEMMA LocateModelKeeps ==
  ASSUME IInv, NEW q \in Requests, LocateModel(q)
  PROVE  IInv'
  <1>. USE RequestsAreDistinct DEF IInv, TypeOK, Requests, vars, flags, requests, plugin,
           LocateModel, NoResult, Finish, Goto
  <1>1. FlagsTyped'
    BY DEF FlagsTyped
  <1>2. RequestsTyped'
    BY DEF RequestsTyped, Waiting
  <1>3. CallsTyped'
    BY DEF CallsTyped
  <1>4. CallsAreAwaited'
    BY DEF RequestsTyped, CallsTyped, CallsAreAwaited
  <1>5. TasksAreQueued'
    BY DEF CallsTyped, CallsAreAwaited, TasksAreQueued
  <1>6. QueuedOnce'
    BY DEF QueuedOnce
  <1>7. FlagsAreHeld'
    BY DEF FlagsTyped, RequestsTyped, FlagsAreHeld, Automatic, Loaders,
           LoadsAreOrdered
  <1>8. LoadsAreOrdered'
    BY DEF RequestsTyped, CallsTyped, LoadsAreOrdered, Spoken
  <1>9. TextIsKnown'
    BY DEF RequestsTyped, TextIsKnown
  <1>. QED
    BY <1>1, <1>2, <1>3, <1>4, <1>5, <1>6, <1>7, <1>8, <1>9

\* The load is over: its request was the only one, and a context that was loaded is still there.
LEMMA LoadAnsweredKeeps ==
  ASSUME IInv, NEW q \in Requests, LoadAnswered(q)
  PROVE  IInv'
  <1>. USE RequestsAreDistinct DEF IInv, TypeOK, Requests, vars, flags, requests, plugin,
           LoadAnswered, NoResult, Finish, Goto
  <1>1. FlagsTyped'
    BY DEF FlagsTyped
  <1>2. RequestsTyped'
    BY DEF RequestsTyped, Waiting
  <1>3. CallsTyped'
    BY DEF CallsTyped
  <1>4. CallsAreAwaited'
    BY DEF RequestsTyped, CallsTyped, CallsAreAwaited
  <1>5. TasksAreQueued'
    BY DEF TasksAreQueued, Spoken, Answers
  <1>6. QueuedOnce'
    BY DEF QueuedOnce
  <1>7. FlagsAreHeld'
    BY DEF FlagsTyped, RequestsTyped, FlagsAreHeld, Automatic, Loaders,
           LoadsAreOrdered
  <1>8. LoadsAreOrdered'
    BY DEF RequestsTyped, CallsTyped, LoadsAreOrdered, Spoken
  <1>9. TextIsKnown'
    BY DEF RequestsTyped, TextIsKnown
  <1>. QED
    BY <1>1, <1>2, <1>3, <1>4, <1>5, <1>6, <1>7, <1>8, <1>9

\* A request past its load goes on, loads itself, or ends.
LEMMA CheckFileKeeps ==
  ASSUME IInv, NEW q \in Requests, CheckFile(q)
  PROVE  IInv'
  <1>. USE RequestsAreDistinct DEF IInv, TypeOK, Requests, vars, flags, requests, plugin,
           CheckFile, LocalTranscribe, BeginLoad, NoResult, Finish, Goto
  <1>1. FlagsTyped'
    BY DEF FlagsTyped
  <1>2. RequestsTyped'
    BY DEF RequestsTyped, Waiting
  <1>3. CallsTyped'
    BY DEF CallsTyped
  <1>4. CallsAreAwaited'
    <2>1. PICK next \in {"checkAudio", "locateModel", "fallback", "idle"} :
             pc' = [pc EXCEPT ![q] = next]
      OBVIOUS
    <2>. QED
      BY <2>1 DEF RequestsTyped, CallsAreAwaited
  <1>5. TasksAreQueued'
    BY DEF TasksAreQueued
  <1>6. QueuedOnce'
    BY DEF QueuedOnce
  <1>7. FlagsAreHeld'
    BY DEF FlagsTyped, RequestsTyped, FlagsAreHeld, Automatic, Loaders,
           LoadsAreOrdered
  <1>8. LoadsAreOrdered'
    BY DEF RequestsTyped, LoadsAreOrdered
  <1>9. TextIsKnown'
    BY DEF RequestsTyped, TextIsKnown
  <1>. QED
    BY <1>1, <1>2, <1>3, <1>4, <1>5, <1>6, <1>7, <1>8, <1>9

\* A request that is let on to the plugin has a loaded model.
LEMMA CheckAudioKeeps ==
  ASSUME IInv, NEW q \in Requests, CheckAudio(q)
  PROVE  IInv'
  <1>. USE RequestsAreDistinct DEF IInv, TypeOK, Requests, vars, flags, requests, plugin,
           CheckAudio, NoResult, Finish, Goto
  <1>1. FlagsTyped'
    BY DEF FlagsTyped
  <1>2. RequestsTyped'
    BY DEF RequestsTyped, Waiting
  <1>3. CallsTyped'
    BY DEF CallsTyped
  <1>4. CallsAreAwaited'
    BY DEF RequestsTyped, CallsTyped, CallsAreAwaited
  <1>5. TasksAreQueued'
    BY DEF CallsTyped, CallsAreAwaited, TasksAreQueued
  <1>6. QueuedOnce'
    BY DEF QueuedOnce
  <1>7. FlagsAreHeld'
    BY DEF FlagsTyped, RequestsTyped, FlagsAreHeld, Automatic, Loaders,
           LoadsAreOrdered
  <1>8. LoadsAreOrdered'
    <2>1. CASE Goto(q, "transcribing") /\ call' = [call EXCEPT ![q] = "sent"]
      BY <2>1 DEF RequestsTyped, CallsTyped, LoadsAreOrdered, Spoken
    <2>2. CASE NoResult(q) /\ UNCHANGED call
      BY <2>2 DEF RequestsTyped, CallsTyped, LoadsAreOrdered
    <2>3. QED
      BY <2>1, <2>2
  <1>9. TextIsKnown'
    BY DEF RequestsTyped, TextIsKnown
  <1>. QED
    BY <1>1, <1>2, <1>3, <1>4, <1>5, <1>6, <1>7, <1>8, <1>9

\* The answer ends the call; a text is remembered for the write.
LEMMA TranscribedKeeps ==
  ASSUME IInv, NEW q \in Requests, Transcribed(q)
  PROVE  IInv'
  <1>. USE RequestsAreDistinct DEF IInv, TypeOK, Requests, vars, flags, requests, plugin,
           Transcribed, NoResult, Finish, Goto
  <1>1. FlagsTyped'
    BY DEF FlagsTyped
  <1>2. RequestsTyped'
    BY DEF RequestsTyped, LoadsAreOrdered, Answers, Waiting
  <1>3. CallsTyped'
    BY DEF CallsTyped
  <1>4. CallsAreAwaited'
    BY DEF RequestsTyped, CallsTyped, CallsAreAwaited
  <1>5. TasksAreQueued'
    BY DEF TasksAreQueued, Spoken, Answers
  <1>6. QueuedOnce'
    BY DEF QueuedOnce
  <1>7. FlagsAreHeld'
    BY DEF FlagsTyped, RequestsTyped, FlagsAreHeld, Automatic, Loaders,
           LoadsAreOrdered
  <1>8. LoadsAreOrdered'
    BY DEF RequestsTyped, CallsTyped, LoadsAreOrdered, Spoken
  <1>9. TextIsKnown'
    BY DEF RequestsTyped, TextIsKnown, Spoken, Answers, LoadsAreOrdered
  <1>. QED
    BY <1>1, <1>2, <1>3, <1>4, <1>5, <1>6, <1>7, <1>8, <1>9

\* A call that was sent is not in the queue yet.
LEMMA HandleInitializeKeeps ==
  ASSUME IInv, NEW q \in Requests, HandleInitialize(q)
  PROVE  IInv'
  <1>. USE RequestsAreDistinct DEF IInv, TypeOK, Requests, vars, flags, requests, plugin,
           HandleInitialize, Queue, Reply
  <1>1. FlagsTyped'
    BY DEF FlagsTyped
  <1>2. RequestsTyped'
    BY DEF RequestsTyped
  <1>3. CallsTyped'
    BY DEF CallsTyped, Answers
  <1>4. CallsAreAwaited'
    BY DEF CallsTyped, CallsAreAwaited
  <1>5. TasksAreQueued'
    BY DEF CallsTyped, TasksAreQueued
  <1>6. QueuedOnce'
    BY DEF TasksAreQueued, QueuedOnce
  <1>7. FlagsAreHeld'
    BY DEF FlagsAreHeld, Automatic, Loaders
  <1>8. LoadsAreOrdered'
    BY DEF CallsTyped, LoadsAreOrdered, Spoken
  <1>9. TextIsKnown'
    BY DEF TextIsKnown
  <1>. QED
    BY <1>1, <1>2, <1>3, <1>4, <1>5, <1>6, <1>7, <1>8, <1>9

\* A call that was sent is not in the queue yet.
LEMMA HandleTranscribeKeeps ==
  ASSUME IInv, NEW q \in Requests, HandleTranscribe(q)
  PROVE  IInv'
  <1>. USE RequestsAreDistinct DEF IInv, TypeOK, Requests, vars, flags, requests, plugin,
           HandleTranscribe, Queue, Reply
  <1>1. FlagsTyped'
    BY DEF FlagsTyped
  <1>2. RequestsTyped'
    BY DEF RequestsTyped
  <1>3. CallsTyped'
    BY DEF CallsTyped, Answers
  <1>4. CallsAreAwaited'
    BY DEF CallsTyped, CallsAreAwaited
  <1>5. TasksAreQueued'
    BY DEF CallsTyped, TasksAreQueued
  <1>6. QueuedOnce'
    BY SMTT(30) DEF TasksAreQueued, QueuedOnce
  <1>7. FlagsAreHeld'
    BY DEF FlagsAreHeld, Automatic, Loaders
  <1>8. LoadsAreOrdered'
    BY DEF CallsTyped, LoadsAreOrdered
  <1>9. TextIsKnown'
    BY DEF TextIsKnown
  <1>. QED
    BY <1>1, <1>2, <1>3, <1>4, <1>5, <1>6, <1>7, <1>8, <1>9

\* Nobody but this request loads, so nobody needs the context that is freed.
LEMMA BeginInitializeKeeps ==
  ASSUME IInv, NEW q \in Requests, BeginInitialize(q)
  PROVE  IInv'
  <1>. USE RequestsAreDistinct DEF IInv, TypeOK, Requests, vars, flags, requests, plugin,
           BeginInitialize, Take, Reply
  <1>1. FlagsTyped'
    BY DEF FlagsTyped
  <1>2. RequestsTyped'
    BY DEF RequestsTyped
  <1>3. CallsTyped'
    BY DEF CallsTyped
  <1>4. CallsAreAwaited'
    BY DEF CallsAreAwaited
  <1>5. TasksAreQueued'
    BY DEF TasksAreQueued, QueuedOnce
  <1>6. QueuedOnce'
    BY DEF QueuedOnce
  <1>7. FlagsAreHeld'
    BY DEF FlagsAreHeld, Automatic, Loaders
  <1>8. LoadsAreOrdered'
    BY DEF CallsTyped, FlagsAreHeld, Loaders, LoadsAreOrdered, Spoken
  <1>9. TextIsKnown'
    BY DEF TextIsKnown
  <1>. QED
    BY <1>1, <1>2, <1>3, <1>4, <1>5, <1>6, <1>7, <1>8, <1>9

\* The load was this request's.
LEMMA EndInitializeKeeps ==
  ASSUME IInv, NEW q \in Requests, EndInitialize(q)
  PROVE  IInv'
  <1>. USE RequestsAreDistinct DEF IInv, TypeOK, Requests, vars, flags, requests, plugin,
           EndInitialize, Reply
  <1>1. FlagsTyped'
    BY DEF FlagsTyped
  <1>2. RequestsTyped'
    BY DEF RequestsTyped
  <1>3. CallsTyped'
    BY DEF CallsTyped, Answers
  <1>4. CallsAreAwaited'
    BY DEF CallsTyped, CallsAreAwaited
  <1>5. TasksAreQueued'
    BY DEF CallsTyped, TasksAreQueued
  <1>6. QueuedOnce'
    BY DEF QueuedOnce
  <1>7. FlagsAreHeld'
    BY DEF FlagsAreHeld, Automatic, Loaders
  <1>8. LoadsAreOrdered'
    BY DEF CallsTyped, LoadsAreOrdered, Spoken
  <1>9. TextIsKnown'
    BY DEF TextIsKnown
  <1>. QED
    BY <1>1, <1>2, <1>3, <1>4, <1>5, <1>6, <1>7, <1>8, <1>9

\* The task leaves the queue as its call is answered.
LEMMA TranscribeKeeps ==
  ASSUME IInv, NEW q \in Requests, Transcribe(q)
  PROVE  IInv'
  <1>. USE RequestsAreDistinct DEF IInv, TypeOK, Requests, vars, flags, requests, plugin,
           Transcribe, Take, Reply
  <1>1. FlagsTyped'
    BY DEF FlagsTyped
  <1>2. RequestsTyped'
    BY DEF RequestsTyped
  <1>3. CallsTyped'
    BY DEF CallsTyped, Answers
  <1>4. CallsAreAwaited'
    BY SMTT(30) DEF CallsTyped, CallsAreAwaited, Spoken
  <1>5. TasksAreQueued'
    BY DEF CallsTyped, TasksAreQueued, QueuedOnce
  <1>6. QueuedOnce'
    BY DEF QueuedOnce
  <1>7. FlagsAreHeld'
    BY DEF FlagsAreHeld, Automatic, Loaders
  <1>8. LoadsAreOrdered'
    BY DEF CallsTyped, LoadsAreOrdered, Spoken
  <1>9. TextIsKnown'
    BY DEF TextIsKnown
  <1>. QED
    BY <1>1, <1>2, <1>3, <1>4, <1>5, <1>6, <1>7, <1>8, <1>9

\* A screen begins to wait; nothing else changes.
LEMMA RequestTranscriptionKeeps ==
  ASSUME IInv, NEW d \in Screens, RequestTranscription(d)
  PROVE  IInv'
  <1>. USE RequestsAreDistinct DEF IInv, TypeOK, Requests, vars, flags, requests, plugin,
           RequestTranscription, Goto
  <1>1. FlagsTyped'
    BY DEF FlagsTyped
  <1>2. RequestsTyped'
    BY DEF RequestsTyped, Waiting
  <1>3. CallsTyped'
    BY DEF CallsTyped
  <1>4. CallsAreAwaited'
    BY DEF CallsAreAwaited
  <1>5. TasksAreQueued'
    BY DEF TasksAreQueued
  <1>6. QueuedOnce'
    BY DEF QueuedOnce
  <1>7. FlagsAreHeld'
    BY DEF FlagsAreHeld, Automatic, Loaders
  <1>8. LoadsAreOrdered'
    BY DEF LoadsAreOrdered
  <1>9. TextIsKnown'
    BY DEF TextIsKnown
  <1>. QED
    BY <1>1, <1>2, <1>3, <1>4, <1>5, <1>6, <1>7, <1>8, <1>9

\* A screen loads the model, goes on, or falls back.
LEMMA DelayEndsKeeps ==
  ASSUME IInv, NEW d \in Screens, DelayEnds(d)
  PROVE  IInv'
  <1>. USE RequestsAreDistinct DEF IInv, TypeOK, Requests, vars, flags, requests, plugin,
           DelayEnds, LocalTranscribe, BeginLoad, NoResult, Finish, Goto
  <1>1. FlagsTyped'
    BY DEF FlagsTyped
  <1>2. RequestsTyped'
    BY DEF RequestsTyped, Waiting
  <1>3. CallsTyped'
    BY DEF CallsTyped
  <1>4. CallsAreAwaited'
    BY DEF RequestsTyped, CallsAreAwaited
  <1>5. TasksAreQueued'
    BY DEF TasksAreQueued
  <1>6. QueuedOnce'
    BY DEF QueuedOnce
  <1>7. FlagsAreHeld'
    BY DEF RequestsTyped, FlagsAreHeld, Automatic, Loaders
  <1>8. LoadsAreOrdered'
    BY DEF RequestsTyped, LoadsAreOrdered
  <1>9. TextIsKnown'
    BY DEF RequestsTyped, TextIsKnown
  <1>. QED
    BY <1>1, <1>2, <1>3, <1>4, <1>5, <1>6, <1>7, <1>8, <1>9

\* A screen gets a description to write.
LEMMA FallbackKeeps ==
  ASSUME IInv, NEW d \in Screens, Fallback(d)
  PROVE  IInv'
  <1>. USE RequestsAreDistinct DEF IInv, TypeOK, Requests, vars, flags, requests, plugin,
           Fallback, Goto
  <1>1. FlagsTyped'
    BY DEF FlagsTyped
  <1>2. RequestsTyped'
    BY DEF RequestsTyped, Waiting
  <1>3. CallsTyped'
    BY DEF CallsTyped
  <1>4. CallsAreAwaited'
    BY DEF RequestsTyped, CallsAreAwaited
  <1>5. TasksAreQueued'
    BY DEF TasksAreQueued
  <1>6. QueuedOnce'
    BY DEF QueuedOnce
  <1>7. FlagsAreHeld'
    BY DEF RequestsTyped, FlagsAreHeld, Automatic, Loaders
  <1>8. LoadsAreOrdered'
    BY DEF RequestsTyped, LoadsAreOrdered
  <1>9. TextIsKnown'
    BY DEF RequestsTyped, TextIsKnown
  <1>. QED
    BY <1>1, <1>2, <1>3, <1>4, <1>5, <1>6, <1>7, <1>8, <1>9

\* A screen writes and is done.
LEMMA WriteBackKeeps ==
  ASSUME IInv, NEW d \in Screens, WriteBack(d)
  PROVE  IInv'
  <1>. USE RequestsAreDistinct DEF IInv, TypeOK, Requests, vars, flags, requests, plugin,
           WriteBack, UpdateRecording, Goto
  <1>1. FlagsTyped'
    BY DEF FlagsTyped
  <1>2. RequestsTyped'
    BY DEF RequestsTyped, Waiting, TextIsKnown
  <1>3. CallsTyped'
    BY DEF CallsTyped
  <1>4. CallsAreAwaited'
    BY DEF CallsAreAwaited
  <1>5. TasksAreQueued'
    BY DEF TasksAreQueued
  <1>6. QueuedOnce'
    BY DEF QueuedOnce
  <1>7. FlagsAreHeld'
    BY DEF FlagsAreHeld, Automatic, Loaders
  <1>8. LoadsAreOrdered'
    BY DEF LoadsAreOrdered
  <1>9. TextIsKnown'
    BY DEF RequestsTyped, TextIsKnown
  <1>. QED
    BY <1>1, <1>2, <1>3, <1>4, <1>5, <1>6, <1>7, <1>8, <1>9

\* No automatic request runs when the flag is not set, so this one is alone.
LEMMA InsertRecordingKeeps ==
  ASSUME IInv, NEW r \in Rows, InsertRecording(r)
  PROVE  IInv'
  <1>. USE RequestsAreDistinct DEF IInv, TypeOK, Requests, vars, flags, requests, plugin,
           InsertRecording, Serve, BeginLoad, Goto
  <1>1. FlagsTyped'
    BY DEF FlagsTyped
  <1>2. RequestsTyped'
    BY DEF RequestsTyped, Waiting
  <1>3. CallsTyped'
    BY DEF CallsTyped
  <1>4. CallsAreAwaited'
    BY DEF RequestsTyped, CallsAreAwaited, FlagsAreHeld, Automatic
  <1>5. TasksAreQueued'
    BY DEF TasksAreQueued
  <1>6. QueuedOnce'
    BY DEF QueuedOnce
  <1>7. FlagsAreHeld'
    BY DEF RequestsTyped, FlagsAreHeld, Automatic, Loaders
  <1>8. LoadsAreOrdered'
    BY DEF RequestsTyped, FlagsAreHeld, LoadsAreOrdered, Automatic
  <1>9. TextIsKnown'
    BY DEF RequestsTyped, TextIsKnown
  <1>. QED
    BY <1>1, <1>2, <1>3, <1>4, <1>5, <1>6, <1>7, <1>8, <1>9

\* The automatic request goes on to its write, or ends and releases the flag.
LEMMA ReadRowKeeps ==
  ASSUME IInv, NEW r \in Rows, ReadRow(r)
  PROVE  IInv'
  <1>. USE RequestsAreDistinct DEF IInv, TypeOK, Requests, vars, flags, requests, plugin,
           ReadRow, Finish, Goto
  <1>1. FlagsTyped'
    BY DEF FlagsTyped
  <1>2. RequestsTyped'
    BY DEF RequestsTyped, Waiting
  <1>3. CallsTyped'
    BY DEF CallsTyped
  <1>4. CallsAreAwaited'
    BY DEF RequestsTyped, CallsAreAwaited
  <1>5. TasksAreQueued'
    BY DEF TasksAreQueued
  <1>6. QueuedOnce'
    BY DEF QueuedOnce
  <1>7. FlagsAreHeld'
    BY DEF FlagsTyped, RequestsTyped, FlagsAreHeld, Automatic, Loaders,
           LoadsAreOrdered
  <1>8. LoadsAreOrdered'
    BY DEF RequestsTyped, LoadsAreOrdered
  <1>9. TextIsKnown'
    BY DEF RequestsTyped, TextIsKnown
  <1>. QED
    BY <1>1, <1>2, <1>3, <1>4, <1>5, <1>6, <1>7, <1>8, <1>9

\* The automatic request ends and releases the flag.
LEMMA UpdateRowKeeps ==
  ASSUME IInv, NEW r \in Rows, UpdateRow(r)
  PROVE  IInv'
  <1>. USE RequestsAreDistinct DEF IInv, TypeOK, Requests, vars, flags, requests, plugin,
           UpdateRow, UpdateRecording, Finish, Goto
  <1>1. FlagsTyped'
    BY DEF FlagsTyped
  <1>2. RequestsTyped'
    BY DEF RequestsTyped, Waiting, TextIsKnown
  <1>3. CallsTyped'
    BY DEF CallsTyped
  <1>4. CallsAreAwaited'
    BY DEF CallsAreAwaited
  <1>5. TasksAreQueued'
    BY DEF TasksAreQueued
  <1>6. QueuedOnce'
    BY DEF QueuedOnce
  <1>7. FlagsAreHeld'
    <2>1. /\ \A q \in Requests : pc'[q] = IF q = r THEN "idle" ELSE pc[q]
          /\ pc[r] = "updateRow" /\ UNCHANGED isLoading
          /\ isTranscribing' = (isTranscribing /\ r \notin Rows)
      BY DEF RequestsTyped
    <2>2. r \in Automatic /\ \A q \in Automatic : q = r
      BY <2>1 DEF FlagsAreHeld, Automatic
    <2>3. Automatic' = {} /\ ~isTranscribing'
      BY <2>1, <2>2 DEF Automatic
    <2>4. Loaders' = Loaders
      BY <2>1 DEF Loaders
    <2>. QED
      BY <2>1, <2>3, <2>4 DEF FlagsAreHeld
  <1>8. LoadsAreOrdered'
    BY DEF LoadsAreOrdered
  <1>9. TextIsKnown'
    BY DEF RequestsTyped, TextIsKnown
  <1>. QED
    BY <1>1, <1>2, <1>3, <1>4, <1>5, <1>6, <1>7, <1>8, <1>9

\* Only the table changes.
LEMMA DeleteRecordingKeeps ==
  ASSUME IInv, NEW r \in Rows, DeleteRecording(r)
  PROVE  IInv'
  <1>. USE RequestsAreDistinct DEF IInv, TypeOK, Requests, vars, flags, requests, plugin,
           DeleteRecording
  <1>1. FlagsTyped'
    BY DEF FlagsTyped
  <1>2. RequestsTyped'
    BY DEF RequestsTyped
  <1>3. CallsTyped'
    BY DEF CallsTyped
  <1>4. CallsAreAwaited'
    BY DEF CallsAreAwaited
  <1>5. TasksAreQueued'
    BY DEF TasksAreQueued
  <1>6. QueuedOnce'
    BY DEF QueuedOnce
  <1>7. FlagsAreHeld'
    BY DEF FlagsAreHeld, Automatic, Loaders
  <1>8. LoadsAreOrdered'
    BY DEF LoadsAreOrdered
  <1>9. TextIsKnown'
    BY DEF TextIsKnown
  <1>. QED
    BY <1>1, <1>2, <1>3, <1>4, <1>5, <1>6, <1>7, <1>8, <1>9

\* A voice input goes on, or loads when nobody else does.
LEMMA VoiceInputKeeps ==
  ASSUME IInv, NEW v \in Voices, VoiceInput(v)
  PROVE  IInv'
  <1>. USE RequestsAreDistinct DEF IInv, TypeOK, Requests, vars, flags, requests, plugin,
           VoiceInput, Serve, BeginLoad, Goto
  <1>1. FlagsTyped'
    BY DEF FlagsTyped
  <1>2. RequestsTyped'
    BY DEF RequestsTyped, Waiting
  <1>3. CallsTyped'
    BY DEF CallsTyped
  <1>4. CallsAreAwaited'
    BY DEF RequestsTyped, CallsAreAwaited
  <1>5. TasksAreQueued'
    BY DEF TasksAreQueued
  <1>6. QueuedOnce'
    BY DEF QueuedOnce
  <1>7. FlagsAreHeld'
    BY DEF RequestsTyped, FlagsAreHeld, Automatic, Loaders
  <1>8. LoadsAreOrdered'
    BY DEF RequestsTyped, LoadsAreOrdered
  <1>9. TextIsKnown'
    BY DEF RequestsTyped, TextIsKnown
  <1>. QED
    BY <1>1, <1>2, <1>3, <1>4, <1>5, <1>6, <1>7, <1>8, <1>9

\* Everything that IInv speaks of begins again, but for rows and screens.
LEMMA EngineDiesKeeps ==
  ASSUME IInv, EngineDies
  PROVE  IInv'
  <1>1. TypeOK'
    <2>1. FlagsTyped' /\ RequestsTyped'
      BY DEF EngineDies, IInv, TypeOK, FlagsTyped, RequestsTyped, Waiting
    <2>2. CallsTyped' /\ CallsAreAwaited'
      BY DEF EngineDies, CallsTyped, CallsAreAwaited
    <2>3. TasksAreQueued' /\ QueuedOnce'
      BY DEF EngineDies, TasksAreQueued, QueuedOnce
    <2>. QED
      BY <2>1, <2>2, <2>3 DEF TypeOK
  <1>2. FlagsAreHeld'
    BY RequestsAreDistinct DEF EngineDies, FlagsAreHeld, Automatic, Loaders, Requests
  <1>3. LoadsAreOrdered' /\ TextIsKnown'
    BY DEF EngineDies, LoadsAreOrdered, TextIsKnown, Spoken, Requests
  <1>. QED
    BY <1>1, <1>2, <1>3 DEF IInv

LEMMA StutterKeeps ==
  ASSUME IInv, UNCHANGED vars
  PROVE  IInv'
  <1>. USE DEF vars, flags, requests, plugin
  <1>1. TypeOK'
    BY DEF IInv, TypeOK, FlagsTyped, RequestsTyped, CallsTyped, CallsAreAwaited,
           TasksAreQueued, QueuedOnce
  <1>2. FlagsAreHeld'
    BY DEF IInv, FlagsAreHeld, Automatic, Loaders
  <1>3. LoadsAreOrdered' /\ TextIsKnown'
    BY DEF IInv, LoadsAreOrdered, TextIsKnown
  <1>. QED
    BY <1>1, <1>2, <1>3 DEF IInv

LEMMA NextKeeps ==
  ASSUME IInv, [Next]_vars
  PROVE  IInv'
  <1>1. ASSUME NEW q \in Requests, RequestStep(q) PROVE IInv'
    BY <1>1, LocateModelKeeps, LoadAnsweredKeeps, CheckFileKeeps, CheckAudioKeeps,
       TranscribedKeeps DEF RequestStep
  <1>2. ASSUME NEW q \in Requests, PluginStep(q) PROVE IInv'
    BY <1>2, HandleInitializeKeeps, HandleTranscribeKeeps, BeginInitializeKeeps,
       EndInitializeKeeps, TranscribeKeeps DEF PluginStep
  <1>3. ASSUME NEW d \in Screens, RequestTranscription(d) \/ ScreenStep(d) PROVE IInv'
    BY <1>3, RequestTranscriptionKeeps, DelayEndsKeeps, FallbackKeeps, WriteBackKeeps
       DEF ScreenStep
  <1>4. ASSUME NEW r \in Rows, InsertRecording(r) \/ RowStep(r) \/ DeleteRecording(r)
        PROVE  IInv'
    BY <1>4, InsertRecordingKeeps, ReadRowKeeps, UpdateRowKeeps, DeleteRecordingKeeps
       DEF RowStep
  <1>5. ASSUME NEW v \in Voices, VoiceInput(v) PROVE IInv'
    BY <1>5, VoiceInputKeeps
  <1>. QED
    BY <1>1, <1>2, <1>3, <1>4, <1>5, EngineDiesKeeps, StutterKeeps DEF Next

LEMMA AlwaysIInv == Spec => []IInv
  <1>1. Init => IInv
    BY InitEstablishes
  <1>2. IInv /\ [Next]_vars => IInv'
    BY NextKeeps
  <1>. QED
    BY <1>1, <1>2, PTL DEF Spec

\* The types, the calls that are open and the queue of the executor are as TypeOK
\* says, whatever the requests do.
THEOREM TranscriptionTypeCorrect == Spec => []TypeOK
  <1>1. IInv => TypeOK
    BY DEF IInv
  <1>. QED
    BY <1>1, AlwaysIInv, PTL

\* _isTranscribing and _isLoading are set exactly while their one holder is at
\* work: no path of failure leaves one behind.
THEOREM FlagsAreAlwaysHeld == Spec => []FlagsAreHeld
  <1>1. IInv => FlagsAreHeld
    BY DEF IInv
  <1>. QED
    BY <1>1, AlwaysIInv, PTL

\* No flag of Dart says that the model is loaded when the plugin has no context,
\* and no request past its load meets one that was freed.
THEOREM ModelAlwaysStays == Spec => []ModelStaysLoaded
  <1>1. IInv => ModelStaysLoaded
    BY DEF IInv, ModelStaysLoaded, LoadsAreOrdered
  <1>. QED
    BY <1>1, AlwaysIInv, PTL

-----------------------------------------------------------------------------
(* The refinement.                                                         *)

Busy == {q \in Requests : pc[q] # "idle"}

\* A step in which no request begins or ends and no row changes.
LEMMA QuietSteps ==
  ASSUME UNCHANGED <<rows, shown>>, Busy' = Busy
  PROVE  UNCHANGED Promise!transcriptsVars
  BY DEF Busy, Promise!transcriptsVars

\* A request that ends without a write.
LEMMA EndingSteps ==
  ASSUME NEW q \in Requests, q \in Busy, Busy' = Busy \ {q}, UNCHANGED <<rows, shown>>
  PROVE  Promise!TranscriptsNext
  <1>1. Promise!End(q)
    BY DEF Promise!End, Busy
  <1>. QED
    BY <1>1 DEF Promise!TranscriptsNext, Promise!Requests, Requests

\* What the request's own steps do to the set of requests that run.
LEMMA GotoBusy ==
  ASSUME IInv, NEW q \in Requests, NEW label \in Waiting, Goto(q, label)
  PROVE  Busy' = IF label = "idle" THEN Busy \ {q} ELSE Busy \cup {q}
  BY DEF IInv, TypeOK, RequestsTyped, Goto, Busy

LEMMA RequestRefines ==
  ASSUME IInv, NEW q \in Requests, RequestStep(q)
  PROVE  Promise!TranscriptsNext \/ UNCHANGED Promise!transcriptsVars
  <1>1. q \in Busy /\ UNCHANGED <<rows, shown>>
    BY DEF RequestStep, LocateModel, LoadAnswered, CheckFile, CheckAudio, Transcribed, Busy
  <1>2. PICK label \in Waiting : Goto(q, label)
    <2>. USE DEF Waiting, NoResult, Finish
    <2>1. CASE LocateModel(q)
      BY <2>1 DEF LocateModel
    <2>2. CASE LoadAnswered(q)
      BY <2>2 DEF LoadAnswered
    <2>3. CASE CheckFile(q)
      BY <2>3 DEF CheckFile, LocalTranscribe, BeginLoad
    <2>4. CASE CheckAudio(q)
      BY <2>4 DEF CheckAudio
    <2>5. CASE Transcribed(q)
      BY <2>5 DEF Transcribed
    <2>. QED
      BY <2>1, <2>2, <2>3, <2>4, <2>5 DEF RequestStep
  <1>3. Busy' = Busy \/ Busy' = Busy \ {q}
    BY <1>1, <1>2, GotoBusy
  <1>. QED
    BY <1>1, <1>3, QuietSteps, EndingSteps

LEMMA PluginRefines ==
  ASSUME NEW q \in Requests, PluginStep(q)
  PROVE  UNCHANGED Promise!transcriptsVars
  <1>1. UNCHANGED <<rows, requests>>
    BY DEF PluginStep, HandleInitialize, HandleTranscribe, BeginInitialize, EndInitialize,
           Transcribe
  <1>. QED
    BY <1>1, QuietSteps DEF requests, Busy

LEMMA ScreenRefines ==
  ASSUME IInv, NEW d \in Screens, RequestTranscription(d) \/ ScreenStep(d)
  PROVE  Promise!TranscriptsNext \/ UNCHANGED Promise!transcriptsVars
  <1>. USE RequestsAreDistinct DEF Requests, Waiting, flags, plugin
  <1>1. CASE RequestTranscription(d)
    <2>1. d \notin Busy /\ Busy' = Busy \cup {d}
      BY <1>1, GotoBusy DEF RequestTranscription, Busy
    <2>2. Promise!Ask(d)
      BY <1>1, <2>1 DEF RequestTranscription, Promise!Ask, Busy, IInv, TypeOK, RequestsTyped
    <2>. QED
      BY <2>2 DEF Promise!TranscriptsNext, Promise!Requests
  <1>2. CASE DelayEnds(d)
    <2>1. Busy' = Busy
      BY <1>2, GotoBusy DEF DelayEnds, LocalTranscribe, BeginLoad, NoResult, Busy
    <2>. QED
      BY <1>2, <2>1, QuietSteps DEF DelayEnds
  <1>3. CASE Fallback(d)
    <2>1. d \in Busy
      BY <1>3 DEF Fallback, Busy
    <2>2. Busy' = Busy \/ Busy' = Busy \ {d}
      BY <1>3, <2>1, GotoBusy DEF Fallback
    <2>. QED
      BY <1>3, <2>1, <2>2, QuietSteps, EndingSteps DEF Fallback
  <1>4. CASE WriteBack(d)
    <2>1. d \in Busy /\ Busy' = Busy \ {d}
      BY <1>4, GotoBusy DEF WriteBack, Busy
    <2>2. /\ shown[d] \in Rows
          /\ text[d] \in Spoken \cup {"placeholder"}
      BY <1>4 DEF WriteBack, IInv, TypeOK, RequestsTyped, TextIsKnown
    <2>3. \/ UNCHANGED rows
          \/ Promise!Stored(shown[d]) /\ rows' = [rows EXCEPT ![shown[d]] = text[d]]
      BY <1>4 DEF WriteBack, UpdateRecording, Stored, Promise!Stored
    <2>4. Promise!End(d)
      BY <1>4, <2>1, <2>2, <2>3 DEF Promise!End, Promise!MayWrite, Promise!Spoken,
         Promise!Transcript, Spoken, Busy, WriteBack
    <2>. QED
      BY <2>4 DEF Promise!TranscriptsNext, Promise!Requests
  <1>. QED
    BY <1>1, <1>2, <1>3, <1>4 DEF ScreenStep

LEMMA RowRefines ==
  ASSUME IInv, NEW r \in Rows, InsertRecording(r) \/ RowStep(r) \/ DeleteRecording(r)
  PROVE  Promise!TranscriptsNext \/ UNCHANGED Promise!transcriptsVars
  <1>. USE RequestsAreDistinct DEF Requests, Waiting, flags, requests, plugin
  <1>1. CASE InsertRecording(r)
    <2>1. \/ UNCHANGED pc
          \/ /\ Busy \cap Rows = {}
             /\ Busy' = Busy \cup {r}
      <3>1. CASE UNCHANGED pc
        BY <3>1
      <3>2. CASE ~isTranscribing /\ Serve(r)
        BY <3>2, GotoBusy DEF Serve, BeginLoad, IInv, FlagsAreHeld, Automatic, Busy
      <3>. QED
        BY <1>1, <3>1, <3>2 DEF InsertRecording
    <2>2. Promise!Insert(r)
      BY <1>1, <2>1 DEF InsertRecording, Promise!Insert, Busy
    <2>. QED
      BY <2>2 DEF Promise!TranscriptsNext
  <1>2. CASE ReadRow(r)
    <2>1. r \in Busy
      BY <1>2 DEF ReadRow, Busy
    <2>2. Busy' = Busy \/ Busy' = Busy \ {r}
      BY <1>2, <2>1, GotoBusy DEF ReadRow, Finish
    <2>. QED
      BY <1>2, <2>1, <2>2, QuietSteps, EndingSteps DEF ReadRow
  <1>3. CASE UpdateRow(r)
    <2>1. r \in Busy /\ Busy' = Busy \ {r}
      BY <1>3, GotoBusy DEF UpdateRow, Finish, Busy
    <2>2. text[r] \in Spoken
      BY <1>3 DEF UpdateRow, IInv, TextIsKnown
    <2>3. \/ UNCHANGED rows
          \/ Promise!Stored(r) /\ rows' = [rows EXCEPT ![r] = text[r]]
      BY <1>3 DEF UpdateRow, UpdateRecording, Stored, Promise!Stored
    <2>4. Promise!End(r)
      BY <1>3, <2>1, <2>2, <2>3 DEF Promise!End, Promise!MayWrite, Promise!Spoken,
         Promise!Transcript, Spoken, Busy, UpdateRow
    <2>. QED
      BY <2>4 DEF Promise!TranscriptsNext, Promise!Requests
  <1>4. CASE DeleteRecording(r)
    <2>1. Promise!Delete(r)
      BY <1>4 DEF DeleteRecording, Promise!Delete, Stored, Promise!Stored
    <2>. QED
      BY <2>1 DEF Promise!TranscriptsNext
  <1>. QED
    BY <1>1, <1>2, <1>3, <1>4 DEF RowStep

LEMMA VoiceRefines ==
  ASSUME IInv, NEW v \in Voices, VoiceInput(v)
  PROVE  Promise!TranscriptsNext
  <1>. USE RequestsAreDistinct DEF Requests
  <1>1. v \notin Busy /\ Busy' = Busy \cup {v}
    BY GotoBusy DEF VoiceInput, Serve, BeginLoad, Busy, Waiting
  <1>2. Promise!Ask(v)
    BY <1>1 DEF VoiceInput, Promise!Ask, Busy, IInv, TypeOK, RequestsTyped
  <1>. QED
    BY <1>2 DEF Promise!TranscriptsNext, Promise!Requests

LEMMA EngineRefines ==
  ASSUME EngineDies
  PROVE  Promise!TranscriptsNext
  <1>1. Promise!Leave
    BY DEF EngineDies, Promise!Leave
  <1>. QED
    BY <1>1 DEF Promise!TranscriptsNext

\* A request that writes does so when it ends, into its own row and only while the
\* table has it; automatic requests run one at a time: the safety of Transcripts.
THEOREM TranscriptionImplementsTranscripts == Spec => Promise!TranscriptsSafety
  <1>1. Init => Promise!TranscriptsInit
    BY DEF Init, Promise!TranscriptsInit
  <1>2. IInv /\ [Next]_vars => [Promise!TranscriptsNext]_Promise!transcriptsVars
    <2>. SUFFICES ASSUME IInv, [Next]_vars
                  PROVE  Promise!TranscriptsNext \/ UNCHANGED Promise!transcriptsVars
      OBVIOUS
    <2>1. CASE UNCHANGED vars
      BY <2>1, QuietSteps DEF vars, requests, Busy
    <2>. QED
      BY <2>1, RequestRefines, PluginRefines, ScreenRefines, RowRefines, VoiceRefines,
         EngineRefines DEF Next
  <1>. QED
    BY <1>1, <1>2, AlwaysIInv, PTL DEF Spec, Promise!TranscriptsSafety

=============================================================================
