----------------------- MODULE RecordingSessionProofs -----------------------
(***************************************************************************)
(* What holds of RecordingSession for any number of recordings, inputs,    *)
(* stops and mishaps: first of the isolate and the table, then of the      *)
(* service and its files, at last of both and the queues between them. The *)
(* lemmas say of each action what it preserves.                            *)
(***************************************************************************)
EXTENDS RecordingSession, SequenceTheorems, FiniteSetTheorems, TLAPS

-----------------------------------------------------------------------------
(* The isolate: SessionInv.                                                *)

\* No more stops save a recording than there are.
LEMMA SavesCounted ==
  ASSUME NEW q
  PROVE  /\ IsFiniteSet(SavesOf(q)) /\ Cardinality(SavesOf(q)) \in Nat
         /\ Cardinality(Stops) \in Nat /\ Cardinality(SavesOf(q)) <= Cardinality(Stops)
  <1>1. IsFiniteSet(Stops) /\ SavesOf(q) \subseteq Stops
    BY SessionAssumption DEF SavesOf
  <1>. QED
    BY <1>1, FS_Subset, FS_CardinalityType

LEMMA InitStartsSession ==
  ASSUME Init
  PROVE  SessionInv
  <1>. USE SessionAssumption DEF Init, Busy, Saving, Tasks, Files
  <1>1. SessionTyped /\ StartsAreAlone /\ StopsAreAlone /\ OneTimer /\ TicksForCurrent
    BY DEF SessionTyped, StartsAreAlone, StopsAreAlone, OneTimer, TicksForCurrent
  <1>2. StartedBefore
    BY DEF StartedBefore
  <1>3. SavedIsOver
    <2>1. \A q \in Starts : rows[q] = 0
      OBVIOUS
    <2>2. ASSUME NEW q \in Starts
          PROVE  rows[q] + Cardinality(SavesOf(q)) <= Cardinality(Stops)
      BY <2>1, SavesCounted
    <2>. QED
      BY <2>1, <2>2 DEF SavedIsOver
  <1>. QED
    BY <1>1, <1>2, <1>3 DEF SessionInv

\* Neither is a row added nor does a stop begin or end to save, and nothing that has a row
\* becomes current.
LEMMA SavedAside ==
  ASSUME SessionTyped, SavedIsOver, mishaps \subseteq mishaps', UNCHANGED <<saves, rows>>,
         \A q \in Starts : pc[q] = "done" => pc'[q] = "done",
         \A q \in Starts : pc[q] = "done" /\ currentRecording' = q => currentRecording = q
  PROVE  SavedIsOver'
  <1>1. \A q \in Starts : SavesOf(q)' = SavesOf(q)
    BY DEF SavesOf
  <1>. QED
    BY <1>1 DEF SavedIsOver, SessionTyped, Without

\* A step that leaves the session alone, and the tasks as busy as they were, preserves it.
LEMMA SessionAside ==
  ASSUME SessionInv, SessionTyped', mishaps \subseteq mishaps',
         UNCHANGED <<currentRecording, timer, ticking, saves, rows>>,
         \A q \in Starts : pc'[q] = pc[q],
         \A t \in Stops : pc'[t] = pc[t] \/ (~Saving(t) /\ ~Saving(t)')
  PROVE  SessionInv'
  <1>. USE SessionAssumption DEF SessionInv, SessionTyped, Without
  <1>1. StartsAreAlone'
    BY DEF StartsAreAlone, Busy
  <1>2. StopsAreAlone'
    BY DEF StopsAreAlone, Saving
  <1>3. OneTimer'
    BY DEF OneTimer
  <1>4. TicksForCurrent'
    BY DEF TicksForCurrent, Saving
  <1>5. StartedBefore'
    BY DEF StartedBefore, Saving
  <1>6. SavedIsOver'
    BY SavedAside
  <1>. QED
    BY <1>1, <1>2, <1>3, <1>4, <1>5, <1>6

LEMMA StartRecordingKeepsSession ==
  ASSUME SessionInv, NEW q \in Starts, StartRecording(q)
  PROVE  SessionInv'
  <1>. USE SessionAssumption
       DEF SessionInv, SessionTyped, Without, StartRecording, Mishaps, Goto, session, Tasks, Files
  <1>1. SessionTyped'
    OBVIOUS
  <1>2. StartsAreAlone'
    BY DEF StartsAreAlone, Busy
  <1>3. StopsAreAlone'
    BY DEF StopsAreAlone, Saving
  <1>4. OneTimer'
    BY DEF OneTimer
  <1>5. TicksForCurrent'
    BY DEF TicksForCurrent, Saving
  <1>6. StartedBefore'
    BY DEF StartedBefore
  <1>7. SavedIsOver'
    BY SavedAside
  <1>. QED
    BY <1>1, <1>2, <1>3, <1>4, <1>5, <1>6, <1>7

LEMMA LocationKnownKeepsSession ==
  ASSUME SessionInv, NEW q \in Starts, LocationKnown(q)
  PROVE  SessionInv'
  <1>. USE SessionAssumption
       DEF SessionInv, SessionTyped, Without, LocationKnown, Goto, session, Tasks, Files
  <1>1. SessionTyped'
    OBVIOUS
  <1>a. /\ \A r \in Starts : Busy(r)' => Busy(r)
        /\ UNCHANGED <<currentRecording, mishaps>>
    BY DEF Busy
  <1>2. StartsAreAlone'
    <2>1. StartsAreAlone
      BY Zenon
    <2>. QED
      BY <1>a, <2>1 DEF StartsAreAlone
  <1>3. StopsAreAlone'
    BY DEF StopsAreAlone, Saving
  <1>4. OneTimer'
    BY DEF OneTimer
  <1>5. TicksForCurrent'
    BY DEF TicksForCurrent, Saving
  <1>6. StartedBefore'
    BY DEF StartedBefore
  <1>7. SavedIsOver'
    BY SavedAside
  <1>. QED
    BY <1>1, <1>2, <1>3, <1>4, <1>5, <1>6, <1>7

\* Nothing was current and nothing ticked, since this was the only start.
LEMMA StartAnsweredKeepsSession ==
  ASSUME SessionInv, NEW q \in Starts, StartAnswered(q)
  PROVE  SessionInv'
  <1>. USE SessionAssumption
       DEF SessionInv, SessionTyped, Without, StartAnswered, Goto, Tasks, Files
  <1>1. SessionTyped'
    OBVIOUS
  <1>2. StartsAreAlone'
    BY DEF StartsAreAlone, Busy
  <1>3. StopsAreAlone'
    BY DEF StopsAreAlone, Saving
  <1>4. OneTimer'
    BY DEF OneTimer, StartsAreAlone, TicksForCurrent, Busy
  <1>5. TicksForCurrent'
    BY DEF StartsAreAlone, TicksForCurrent, Busy, Saving
  <1>6. StartedBefore'
    BY DEF StartedBefore
  <1>7. SavedIsOver'
    BY SavedAside
  <1>. QED
    BY <1>1, <1>2, <1>3, <1>4, <1>5, <1>6, <1>7

LEMMA StopRecordingKeepsSession ==
  ASSUME SessionInv, NEW t \in Stops, StopRecording(t)
  PROVE  SessionInv'
  <1>. USE SessionAssumption
       DEF SessionInv, SessionTyped, Without, StopRecording, Note, Mishaps, Goto, Tasks, Files
  <1>1. SessionTyped'
    OBVIOUS
  <1>2. StartsAreAlone'
    BY DEF StartsAreAlone, Busy
  <1>3. StopsAreAlone'
    BY DEF StopsAreAlone, Saving
  <1>4. OneTimer'
    BY DEF OneTimer
  <1>5. TicksForCurrent'
    BY DEF TicksForCurrent, OneTimer, Saving
  <1>6. StartedBefore'
    BY DEF StartedBefore
  <1>7. SavedIsOver'
    BY SavedAside
  <1>. QED
    BY <1>1, <1>2, <1>3, <1>4, <1>5, <1>6, <1>7

LEMMA StopAnsweredKeepsSession ==
  ASSUME SessionInv, NEW t \in Stops, StopAnswered(t)
  PROVE  SessionInv'
  <1>. USE SessionAssumption
       DEF SessionInv, SessionTyped, Without, StopAnswered, Goto, Tasks, Files
  <1>1. SessionTyped'
    OBVIOUS
  <1>2. StartsAreAlone'
    BY DEF StartsAreAlone, Busy
  <1>3. StopsAreAlone'
    BY DEF StopsAreAlone, Saving
  <1>4. OneTimer'
    BY DEF OneTimer
  <1>5. TicksForCurrent'
    BY DEF TicksForCurrent, Saving
  <1>6. StartedBefore'
    BY DEF StartedBefore
  <1>7. SavedIsOver'
    <2>1. CASE UNCHANGED saves
      BY <2>1, SavedAside
    <2>2. CASE currentRecording # None /\ saves' = [saves EXCEPT ![t] = currentRecording]
      <3>1. /\ currentRecording \in Starts /\ saves[t] = None /\ rows[currentRecording] = 0
            /\ UNCHANGED <<rows, currentRecording, mishaps>> /\ \A q \in Starts : pc'[q] = pc[q]
        BY <2>2 DEF StartedBefore, SavedIsOver
      <3>2. \A q \in Starts \ {currentRecording} : SavesOf(q)' = SavesOf(q)
        BY <2>2, <3>1 DEF SavesOf
      <3>3. /\ Cardinality(SavesOf(currentRecording)') <= Cardinality(Stops)
            /\ Cardinality(SavesOf(currentRecording)') \in Nat
        <4>1. IsFiniteSet(Stops) /\ SavesOf(currentRecording)' \subseteq Stops
          BY SessionAssumption DEF SavesOf
        <4>. QED
          BY <4>1, FS_Subset, FS_CardinalityType
      <3>4. ASSUME NEW q \in Starts
            PROVE  (rows[q] + Cardinality(SavesOf(q)) <= Cardinality(Stops))'
        <4>1. CASE q = currentRecording
          BY <3>1, <3>3, <4>1
        <4>2. CASE q # currentRecording
          BY <3>1, <3>2, <4>2 DEF SavedIsOver
        <4>. QED
          BY <4>1, <4>2
      <3>. QED
        BY <3>1, <3>2, <3>4 DEF SavedIsOver
    <2>. QED
      BY <2>1, <2>2
  <1>. QED
    BY <1>1, <1>2, <1>3, <1>4, <1>5, <1>6, <1>7

\* The stop gives its claim on a row for the row; if it is the only one there was no row before.
LEMMA InsertRowKeepsSession ==
  ASSUME SessionInv, NEW t \in Stops, InsertRow(t)
  PROVE  SessionInv'
  <1>. USE SessionAssumption
       DEF SessionInv, SessionTyped, Without, InsertRow, Fails, Mishaps, Goto, Tasks, Files
  <1>1. SessionTyped'
    BY DEF StartedBefore
  <1>2. StartsAreAlone'
    BY DEF StartsAreAlone, Busy
  <1>3. StopsAreAlone'
    BY DEF StopsAreAlone, Saving
  <1>4. OneTimer'
    BY DEF OneTimer
  <1>5. TicksForCurrent'
    BY DEF TicksForCurrent, StopsAreAlone, Saving
  <1>6. StartedBefore'
    BY DEF StartedBefore
  <1>7. SavedIsOver'
    <2>0. PICK s \in Starts : saves[t] = s
      BY DEF StartedBefore
    <2>1. /\ pc[s] = "done" /\ pc[t] = "saving"
          /\ currentRecording' = None /\ saves' = [saves EXCEPT ![t] = None]
          /\ \/ rows' = [rows EXCEPT ![s] = @ + 1]
             \/ UNCHANGED rows
          /\ mishaps \subseteq mishaps' /\ \A q \in Starts : pc'[q] = pc[q]
      BY <2>0 DEF StartedBefore
    <2>2. SavesOf(s)' = SavesOf(s) \ {t} /\ t \in SavesOf(s)
      BY <2>0, <2>1 DEF SavesOf
    <2>3. Cardinality(SavesOf(s)') = Cardinality(SavesOf(s)) - 1
      BY <2>2, SavesCounted, FS_RemoveElement
    <2>4. \A q \in Starts \ {s} : SavesOf(q)' = SavesOf(q)
      BY <2>0, <2>1 DEF SavesOf
    <2>5. Without({"twoStops"})' => rows[s] = 0 /\ SavesOf(s) = {t}
      <3>1. mishaps' \cap {"twoStops"} = {} => mishaps \cap {"twoStops"} = {}
        BY <2>1
      <3>2. mishaps \cap {"twoStops"} = {} => \A u \in SavesOf(s) : u = t
        BY <2>1 DEF StopsAreAlone, StartedBefore, Saving, SavesOf
      <3>3. mishaps \cap {"twoStops"} = {} => rows[s] = 0
        BY <2>2 DEF SavedIsOver
      <3>. QED
        BY <2>2, <3>1, <3>2, <3>3
    <2>6. \A q \in Starts : rows[q] + Cardinality(SavesOf(q)) <= Cardinality(Stops)
      BY DEF SavedIsOver
    <2>7. ASSUME NEW q \in Starts
          PROVE  (rows[q] + Cardinality(SavesOf(q)) <= Cardinality(Stops))'
      <3>1. CASE q = s
        <4>. DEFINE c == Cardinality(SavesOf(q))
                    d == Cardinality(SavesOf(q)')
                    m == Cardinality(Stops)
        <4>1. c \in Nat /\ m \in Nat /\ d = c - 1 /\ rows[q] + c <= m
          BY <2>3, <2>6, <3>1, SavesCounted
        <4>2. rows[q] \in Nat /\ rows'[q] \in {rows[q], rows[q] + 1}
          BY <2>1, <3>1
        <4>3. rows'[q] + d <= m
          <5>. HIDE DEF c, d, m
          <5>. QED
            BY <4>1, <4>2
        <4>. QED
          BY <4>3
      <3>2. CASE q # s
        BY <2>1, <2>4, <2>6, <3>2
      <3>. QED
        BY <3>1, <3>2
    <2>8. ASSUME NEW q \in Starts
          PROVE  /\ rows'[q] > 0 => pc'[q] = "done" /\ currentRecording' # q
                 /\ Without({"twoStops"})' /\ rows'[q] > 0 => rows'[q] = 1 /\ SavesOf(q)' = {}
      <3>1. CASE q = s
        <4>1. pc'[q] = "done" /\ currentRecording' # q
          BY <2>1, <3>1
        <4>2. Without({"twoStops"})' => rows'[q] \in {0, 1}
          BY <2>1, <2>5, <3>1
        <4>3. Without({"twoStops"})' => SavesOf(q)' = {}
          BY <2>2, <2>5, <3>1
        <4>. HIDE DEF Without
        <4>. QED
          BY <4>1, <4>2, <4>3
      <3>2. CASE q # s
        BY <2>1, <2>4, <3>2 DEF SavedIsOver
      <3>. QED
        BY <3>1, <3>2
    <2>. QED
      BY <2>7, <2>8 DEF SavedIsOver
  <1>. QED
    BY <1>1, <1>2, <1>3, <1>4, <1>5, <1>6, <1>7

LEMMA LoseIsolateKeepsSession ==
  ASSUME SessionInv, LoseIsolate, mishaps \subseteq mishaps'
  PROVE  SessionInv'
  <1>. USE SessionAssumption
       DEF SessionInv, SessionTyped, Without, LoseIsolate, Tasks, Files
  <1>1. SessionTyped'
    BY DEF Busy
  <1>2. StartsAreAlone'
    BY DEF StartsAreAlone, Busy
  <1>3. StopsAreAlone'
    BY DEF StopsAreAlone, Saving
  <1>4. OneTimer'
    BY DEF OneTimer
  <1>5. TicksForCurrent'
    BY DEF TicksForCurrent, Saving
  <1>6. StartedBefore'
    BY DEF StartedBefore
  <1>7. SavedIsOver'
    <2>1. \A q \in Starts : SavesOf(q)' = {}
      BY DEF SavesOf
    <2>2. ASSUME NEW q \in Starts
          PROVE  (rows[q] + Cardinality(SavesOf(q)) <= Cardinality(Stops))'
      <3>. DEFINE c == Cardinality(SavesOf(q))
                  m == Cardinality(Stops)
      <3>1. rows[q] + c <= m /\ rows[q] \in Nat /\ c \in Nat /\ m \in Nat
        BY SavesCounted DEF SavedIsOver
      <3>2. rows'[q] = rows[q] /\ Cardinality(SavesOf(q)') = 0
        BY <2>1, FS_EmptySet
      <3>3. rows[q] <= m
        <4>. HIDE DEF c, m
        <4>. QED
          BY <3>1
      <3>. QED
        BY <3>1, <3>2, <3>3
    <2>. QED
      BY <2>1, <2>2 DEF SavedIsOver, Busy
  <1>. QED
    BY <1>1, <1>2, <1>3, <1>4, <1>5, <1>6, <1>7

\* What the voice input, the channel, the service and the screens do.
LEMMA VoiceKeepsSession ==
  ASSUME SessionInv,
         \/ \E v \in Inputs : PressMicrophone(v) \/ PermissionKnown(v) \/ StartVoice(v)
                             \/ VoiceAnswered(v)
         \/ \E t \in Stops : ReleaseAnswered(t) \/ EndVoice(t)
         \/ ReleaseMicrophone \/ LeaveChat
  PROVE  SessionInv'
  <1>. USE SessionAssumption DEF SessionTyped, session, Goto, Tasks, Files, Saving
  <1>1. SessionTyped
    BY DEF SessionInv
  <1>2. /\ mishaps \subseteq mishaps'
        /\ UNCHANGED <<currentRecording, timer, ticking, saves, rows>>
    BY DEF PressMicrophone, PermissionKnown, StartVoice, VoiceAnswered, ReleaseMicrophone,
           ReleaseAnswered, EndVoice, LeaveChat, Note, Mishaps
  <1>3. /\ pc' \in [Tasks -> {"idle", "location", "starting", "done", "stopping", "saving",
                              "permission", "directory", "releasing", "released"}]
        /\ \A q \in Starts : pc'[q] = pc[q]
        /\ \A u \in Stops : pc'[u] = pc[u] \/ (~Saving(u) /\ ~Saving(u)')
    <2>1. CASE \E v \in Inputs : PressMicrophone(v) \/ PermissionKnown(v) \/ StartVoice(v)
                               \/ VoiceAnswered(v)
      BY <1>1, <2>1 DEF PressMicrophone, PermissionKnown, StartVoice, VoiceAnswered
    <2>2. CASE ReleaseMicrophone
      <3>1. \/ UNCHANGED pc
            \/ \E t \in Stops : ~Saving(t) /\ pc' = [pc EXCEPT ![t] = "releasing"]
        BY <2>2, Zenon DEF ReleaseMicrophone
      <3>. QED
        BY <1>1, <3>1
    <2>3. CASE \E t \in Stops : ReleaseAnswered(t) \/ EndVoice(t)
      BY <1>1, <2>3 DEF ReleaseAnswered, EndVoice
    <2>4. CASE LeaveChat
      BY <1>1, <2>4 DEF LeaveChat
    <2>. QED
      BY <2>1, <2>2, <2>3, <2>4
  <1>4. SessionTyped'
    BY <1>1, <1>2, <1>3
  <1>. QED
    BY <1>2, <1>3, <1>4, SessionAside

LEMMA ServiceKeepsSession ==
  ASSUME SessionInv,
         MainThread \/ (\E f \in Files : Recorder(f)) \/ Tick \/ RebuildHome \/ Rest \/ UNCHANGED vars
  PROVE  SessionInv'
  <1>1. /\ mishaps \subseteq mishaps'
        /\ UNCHANGED <<pc, currentRecording, timer, ticking, saves, rows>>
    <2>1. CASE MainThread
      BY <2>1 DEF MainThread, HandleCall, ServiceStarts, ServiceStops, EndJoin, ConvertPcmToWav,
                  DeletePcm, Fails, Mishaps, session
    <2>2. CASE (\E f \in Files : Recorder(f)) \/ Tick \/ RebuildHome \/ Rest \/ UNCHANGED vars
      BY <2>2 DEF Recorder, TestFlag, RecordAudio, Tick, RebuildHome, Rest, vars, session
    <2>. QED
      BY <2>1, <2>2
  <1>. QED
    BY <1>1, SessionAside DEF SessionInv, SessionTyped

LEMMA NextKeepsSession ==
  ASSUME SessionInv, [Next]_vars
  PROVE  SessionInv'
  <1>1. ASSUME NEW q \in Starts, StartRecording(q) \/ LocationKnown(q) \/ StartAnswered(q)
        PROVE  SessionInv'
    BY <1>1, StartRecordingKeepsSession, LocationKnownKeepsSession, StartAnsweredKeepsSession
  <1>2. ASSUME NEW t \in Stops, StopRecording(t) \/ StopAnswered(t) \/ InsertRow(t)
        PROVE  SessionInv'
    BY <1>2, StopRecordingKeepsSession, StopAnsweredKeepsSession, InsertRowKeepsSession
  <1>3. CASE \/ \E v \in Inputs : PressMicrophone(v) \/ PermissionKnown(v) \/ StartVoice(v)
                                \/ VoiceAnswered(v)
             \/ \E t \in Stops : ReleaseAnswered(t) \/ EndVoice(t)
             \/ ReleaseMicrophone \/ LeaveChat
    BY <1>3, VoiceKeepsSession
  <1>4. CASE EngineDies \/ ProcessDies
    <2>1. LoseIsolate /\ mishaps \subseteq mishaps'
      BY <1>4 DEF EngineDies, ProcessDies, Fails, Mishaps
    <2>. QED
      BY <2>1, LoseIsolateKeepsSession
  <1>. QED
    BY <1>1, <1>2, <1>3, <1>4, ServiceKeepsSession
    DEF Next, User, Isolate

\* SessionInv holds of every behaviour: everything below about the isolate follows from it.
LEMMA SessionInvariant == Spec => []SessionInv
  <1>. QED
    BY InitStartsSession, NextKeepsSession, PTL DEF Spec

\* OneRow: a recording has one row, and at most one of each stop if two stops ran at a time, for
\* _finalizeRecording saves what is current and nothing that has a row is current.
THEOREM OneRowOnly == Spec => []OneRow
  <1>1. SessionInv => OneRow
    <2>. SUFFICES ASSUME SessionInv, NEW q \in Starts
                  PROVE  rows[q] <= IF "twoStops" \in mishaps THEN Cardinality(Stops) ELSE 1
      BY DEF OneRow
    <2>1. /\ rows[q] \in Nat /\ rows[q] + Cardinality(SavesOf(q)) <= Cardinality(Stops)
          /\ "twoStops" \notin mishaps /\ rows[q] > 0 => rows[q] = 1
      BY DEF SessionInv, SessionTyped, SavedIsOver, Without
    <2>2. Cardinality(SavesOf(q)) \in Nat /\ Cardinality(Stops) \in Nat
      BY SavesCounted
    <2>. HIDE DEF SavesOf
    <2>. QED
      BY <2>1, <2>2
  <1>. QED
    BY <1>1, SessionInvariant, PTL

\* OneTimer: no timer of startRecording is left ticking that stopRecording cannot cancel.
THEOREM OneTimerOnly == Spec => []OneTimer
  BY SessionInvariant, PTL DEF SessionInv

\* ForgottenWhenSaved: only the finally block of _finalizeRecording forgets a recording, and what
\* it forgets is what it tried to insert, unless two stops ran at a time.
THEOREM ForgetsWhatIsSaved == Spec => ForgottenWhenSaved
  <1>1. ASSUME SessionInv, [Next]_vars, currentRecording # None,
               currentRecording' # currentRecording,
               mishaps' \cap {"twoStarts", "engine"} = {}
        PROVE  \E t \in Stops :
                 /\ saves[t] # None /\ saves'[t] = None
                 /\ saves[t] = currentRecording \/ "twoStops" \in mishaps'
                 /\ rows'[saves[t]] > rows[saves[t]] \/ "table" \in mishaps'
    <2>. USE SessionAssumption DEF SessionInv, SessionTyped, Without
    <2>1. CASE \E q \in Starts : StartAnswered(q)
      BY <1>1, <2>1 DEF StartAnswered, StartsAreAlone, Busy, Tasks, Files
    <2>2. CASE \E t \in Stops : InsertRow(t)
      <3>1. PICK t \in Stops : InsertRow(t)
        BY <2>2
      <3>2. saves[t] = currentRecording \/ "twoStops" \in mishaps'
        BY <1>1, <3>1 DEF InsertRow, TicksForCurrent, Saving, Fails, Mishaps
      <3>3. saves[t] \in Starts /\ saves'[t] = None
        BY <1>1, <3>1 DEF InsertRow, StartedBefore
      <3>4. rows'[saves[t]] > rows[saves[t]] \/ "table" \in mishaps'
        BY <1>1, <3>1, <3>3 DEF InsertRow, Fails, Mishaps
      <3>. QED
        BY <3>2, <3>3, <3>4
    <2>3. CASE EngineDies \/ ProcessDies
      BY <1>1, <2>3 DEF EngineDies, ProcessDies, Fails, Mishaps
    <2>. QED
      BY <1>1, <2>1, <2>2, <2>3
      DEF Next, vars, session, User, Isolate, Tick, MainThread, Rest, Recorder, StartRecording,
          LocationKnown, StopRecording, StopAnswered, PressMicrophone, PermissionKnown, StartVoice,
          VoiceAnswered, ReleaseMicrophone, ReleaseAnswered, EndVoice, LeaveChat, RebuildHome,
          HandleCall, ServiceStarts, ServiceStops, EndJoin, ConvertPcmToWav, DeletePcm, TestFlag,
          RecordAudio
  <1>. QED
    BY <1>1, SessionInvariant, PTL DEF Spec, ForgottenWhenSaved

-----------------------------------------------------------------------------
(* The service and its files: ServiceInv.                                   *)

LEMMA InitStartsService ==
  ASSUME Init
  PROVE  ServiceInv
  BY SessionAssumption
  DEF Init, ServiceInv, ServiceTyped, AudioIsKept, OwnAudio, WorkIsOnDisk, ThreadIsPresent, Files

\* A step that leaves the service and its files alone preserves it.
LEMMA ServiceAside ==
  ASSUME ServiceInv, UNCHANGED <<service, rpc, files>>, mishaps \subseteq mishaps',
         voicePath' \in Inputs \cup {None}
  PROVE  ServiceInv'
  BY DEF ServiceInv, ServiceTyped, AudioIsKept, OwnAudio, WorkIsOnDisk, ThreadIsPresent, Without,
         service, files

\* Nothing was recorded: no thread was alive, and the new one writes into the new file.
LEMMA ServiceStartsKeepsService ==
  ASSUME ServiceInv, NEW f \in Files, ServiceStarts(f)
  PROVE  ServiceInv'
  <1>. USE SessionAssumption
       DEF ServiceInv, ServiceTyped, Without, Files, chat,
           ServiceStarts, Fails, Mishaps
  <1>1. ServiceTyped'
    OBVIOUS
  <1>2. AudioIsKept'
    BY DEF AudioIsKept, WorkIsOnDisk
  <1>3. OwnAudio'
    BY DEF OwnAudio, ThreadIsPresent
  <1>4. WorkIsOnDisk' /\ ThreadIsPresent'
    <2>1. CASE isRecording
      BY <2>1 DEF WorkIsOnDisk, ThreadIsPresent
    <2>2. CASE /\ ~isRecording /\ mishaps' = mishaps
               /\ path' = f /\ out' = f /\ pcm' = pcm \cup {f}
               /\ isRecording' = TRUE /\ thread' = f
               /\ rpc' = [rpc EXCEPT ![f] = "test"]
      <3>1. WorkIsOnDisk'
        BY <2>2 DEF WorkIsOnDisk
      <3>2. ThreadIsPresent'
        BY <2>2 DEF ThreadIsPresent
      <3>. QED
        BY <3>1, <3>2
    <2>3. CASE /\ ~isRecording /\ main = "idle" /\ mishaps \subseteq mishaps'
               /\ path' = f /\ UNCHANGED <<isRecording, thread, rpc, main, wav>>
               /\ \/ UNCHANGED <<out, pcm>>
                  \/ out' = f /\ pcm' = pcm \cup {f}
      <3>1. WorkIsOnDisk'
        BY <2>3 DEF WorkIsOnDisk
      <3>2. \A g \in Files \ mishaps : rpc[g] = "dead"
        BY <2>3 DEF ThreadIsPresent
      <3>3. ThreadIsPresent'
        BY <2>3, <3>2 DEF ThreadIsPresent
      <3>. QED
        BY <3>1, <3>3
    <2>. QED
      BY <2>1, <2>2, <2>3
  <1>. QED
    BY <1>1, <1>2, <1>3, <1>4

LEMMA ServiceStopsKeepsService ==
  ASSUME ServiceInv, ServiceStops
  PROVE  ServiceInv'
  <1>. USE SessionAssumption
       DEF ServiceInv, ServiceTyped, Without, Files, chat,
           ServiceStops, files
  <1>1. ServiceTyped'
    OBVIOUS
  <1>2. AudioIsKept'
    BY DEF AudioIsKept, WorkIsOnDisk
  <1>3. OwnAudio'
    BY DEF OwnAudio, ThreadIsPresent
  <1>4. WorkIsOnDisk'
    BY DEF WorkIsOnDisk
  <1>5. ThreadIsPresent'
    BY DEF ThreadIsPresent, WorkIsOnDisk
  <1>. QED
    BY <1>1, <1>2, <1>3, <1>4, <1>5

\* The thread has ended, or did not in time.
LEMMA EndJoinKeepsService ==
  ASSUME ServiceInv, EndJoin
  PROVE  ServiceInv'
  <1>. USE SessionAssumption
       DEF ServiceInv, ServiceTyped, Without, Files, chat,
           EndJoin, Mishaps, Outlived, files
  <1>1. ServiceTyped'
    OBVIOUS
  <1>2. AudioIsKept'
    BY DEF AudioIsKept, WorkIsOnDisk
  <1>3. OwnAudio'
    BY DEF OwnAudio, ThreadIsPresent
  <1>4. WorkIsOnDisk'
    BY DEF WorkIsOnDisk
  <1>5. ThreadIsPresent'
    <2>1. \A f \in Files \ mishaps : rpc[f] # "dead" => f = thread
      BY DEF ThreadIsPresent
    <2>2. \A f \in Files : f = thread /\ rpc[f] # "dead" => f \in mishaps'
      OBVIOUS
    <2>3. \A f \in Files \ mishaps' : rpc[f] = "dead"
      BY <2>1, <2>2
    <2>. QED
      BY <2>3 DEF ThreadIsPresent
  <1>. QED
    BY <1>1, <1>2, <1>3, <1>4, <1>5

LEMMA ConvertPcmToWavKeepsService ==
  ASSUME ServiceInv, ConvertPcmToWav
  PROVE  ServiceInv'
  <1>. USE SessionAssumption
       DEF ServiceInv, ServiceTyped, Without, Files, chat,
           ConvertPcmToWav, Fails, Mishaps
  <1>1. ServiceTyped'
    OBVIOUS
  <1>2. AudioIsKept'
    BY DEF AudioIsKept, WorkIsOnDisk
  <1>3. OwnAudio'
    BY DEF OwnAudio, ThreadIsPresent
  <1>4. WorkIsOnDisk'
    BY DEF WorkIsOnDisk
  <1>5. ThreadIsPresent'
    BY DEF ThreadIsPresent, WorkIsOnDisk
  <1>. QED
    BY <1>1, <1>2, <1>3, <1>4, <1>5

\* The WAV of this PCM file is complete.
LEMMA DeletePcmKeepsService ==
  ASSUME ServiceInv, DeletePcm
  PROVE  ServiceInv'
  <1>. USE SessionAssumption
       DEF ServiceInv, ServiceTyped, Without, Files, chat,
           DeletePcm
  <1>1. ServiceTyped'
    OBVIOUS
  <1>2. AudioIsKept'
    BY DEF AudioIsKept, WorkIsOnDisk
  <1>3. OwnAudio'
    BY DEF OwnAudio, ThreadIsPresent
  <1>4. WorkIsOnDisk'
    BY DEF WorkIsOnDisk
  <1>5. ThreadIsPresent'
    BY DEF ThreadIsPresent, WorkIsOnDisk
  <1>. QED
    BY <1>1, <1>2, <1>3, <1>4, <1>5

LEMMA RecorderKeepsService ==
  ASSUME ServiceInv, NEW f \in Files, Recorder(f)
  PROVE  ServiceInv'
  <1>. USE SessionAssumption
       DEF ServiceInv, ServiceTyped, Without, Files, chat,
           Recorder, TestFlag, RecordAudio, service, files
  <1>1. ServiceTyped'
    OBVIOUS
  <1>2. AudioIsKept'
    BY DEF AudioIsKept, WorkIsOnDisk
  <1>3. OwnAudio'
    BY DEF OwnAudio, ThreadIsPresent
  <1>4. WorkIsOnDisk'
    BY DEF WorkIsOnDisk
  <1>5. ThreadIsPresent'
    BY DEF ThreadIsPresent, WorkIsOnDisk
  <1>. QED
    BY <1>1, <1>2, <1>3, <1>4, <1>5

LEMMA EndVoiceKeepsService ==
  ASSUME ServiceInv, NEW t \in Stops, EndVoice(t)
  PROVE  ServiceInv'
  <1>. USE SessionAssumption
       DEF ServiceInv, ServiceTyped, Without, Files, chat,
           EndVoice, service
  <1>1. ServiceTyped'
    OBVIOUS
  <1>2. AudioIsKept'
    BY DEF AudioIsKept, WorkIsOnDisk
  <1>3. OwnAudio'
    BY DEF OwnAudio, ThreadIsPresent
  <1>4. WorkIsOnDisk'
    BY DEF WorkIsOnDisk
  <1>5. ThreadIsPresent'
    BY DEF ThreadIsPresent, WorkIsOnDisk
  <1>. QED
    BY <1>1, <1>2, <1>3, <1>4, <1>5

\* A WAV that is cut short has its PCM file.
LEMMA ProcessDiesKeepsService ==
  ASSUME ServiceInv, ProcessDies
  PROVE  ServiceInv'
  <1>. USE SessionAssumption
       DEF ServiceInv, ServiceTyped, Without, Files, chat,
           ProcessDies, LoseIsolate, Fails, Mishaps
  <1>1. ServiceTyped'
    OBVIOUS
  <1>2. AudioIsKept'
    BY DEF AudioIsKept, WorkIsOnDisk
  <1>3. OwnAudio'
    BY DEF OwnAudio, ThreadIsPresent
  <1>4. WorkIsOnDisk'
    BY DEF WorkIsOnDisk
  <1>5. ThreadIsPresent'
    BY DEF ThreadIsPresent, WorkIsOnDisk
  <1>. QED
    BY <1>1, <1>2, <1>3, <1>4, <1>5

LEMMA NextKeepsService ==
  ASSUME ServiceInv, [Next]_vars
  PROVE  ServiceInv'
  <1>1. CASE User
    BY <1>1, ServiceAside
    DEF User, StartRecording, StopRecording, PressMicrophone, ReleaseMicrophone, LeaveChat,
        RebuildHome, Note, Mishaps, ServiceInv, ServiceTyped, chat
  <1>2. CASE Isolate
    <2>1. CASE \E t \in Stops : EndVoice(t)
      BY <2>1, EndVoiceKeepsService
    <2>. QED
      BY <1>2, <2>1, ServiceAside
      DEF Isolate, LocationKnown, StartAnswered, StopAnswered, InsertRow, ReleaseAnswered,
          PermissionKnown, StartVoice, VoiceAnswered, Note, Fails, Mishaps, ServiceInv,
          ServiceTyped, chat
  <1>3. CASE MainThread
    <2>1. CASE HandleCall
      BY <2>1, ServiceAside DEF HandleCall, Fails, Mishaps, ServiceInv, ServiceTyped, chat
    <2>. QED
      BY <1>3, <2>1, ServiceStartsKeepsService, ServiceStopsKeepsService, EndJoinKeepsService,
         ConvertPcmToWavKeepsService, DeletePcmKeepsService
      DEF MainThread
  <1>4. CASE Tick \/ Rest \/ UNCHANGED vars
    BY <1>4, ServiceAside DEF Tick, Rest, vars, ServiceInv, ServiceTyped, chat
  <1>5. CASE EngineDies
    BY <1>5, ServiceAside DEF EngineDies, LoseIsolate, Fails, Mishaps
  <1>. QED
    BY <1>1, <1>2, <1>3, <1>4, <1>5, RecorderKeepsService, ProcessDiesKeepsService DEF Next

LEMMA ServiceInvariant == Spec => []ServiceInv
  <1>. QED
    BY InitStartsService, NextKeepsService, PTL DEF Spec

\* AudioIsKept: the PCM file of what was recorded is deleted only beside a complete WAV, also
\* when the process is killed.
THEOREM AudioIsAlwaysKept == Spec => []AudioIsKept
  BY ServiceInvariant, PTL DEF ServiceInv

\* OwnAudio: recordings that follow each other on one service, its fields and its microphone do
\* not mix, as long as join returns because the thread has ended.
THEOREM AudioIsAlwaysOwn == Spec => []OwnAudio
  BY ServiceInvariant, PTL DEF ServiceInv

-----------------------------------------------------------------------------
(* The queues and the flags of the screens.                                 *)

\* A queue stays, gets an element of S at its end, loses its first one, or is emptied.
Moves(queue, next, S) ==
  \/ next = queue \/ next = <<>>
  \/ \E e \in S : next = Append(queue, e)
  \/ queue # <<>> /\ next = Tail(queue)

LEMMA QueueStaysTyped ==
  ASSUME NEW S, NEW queue \in Seq(S), NEW next, Moves(queue, next, S)
  PROVE  next \in Seq(S)
  <1>1. CASE next = queue \/ next = <<>>
    BY <1>1, EmptySeq
  <1>2. CASE \E e \in S : next = Append(queue, e)
    BY <1>2, AppendProperties
  <1>3. CASE queue # <<>> /\ next = Tail(queue)
    BY <1>3, HeadTailProperties
  <1>. QED
    BY <1>1, <1>2, <1>3 DEF Moves

LEMMA QueuesMove ==
  ASSUME SessionTyped, QueuesTyped, [Next]_vars
  PROVE  /\ Moves(channel, channel', Tasks)
         /\ Moves(answers, answers', [to : Tasks, ok : BOOLEAN])
         /\ Moves(intents, intents', Files \cup {StopIntent})
  <1>1. CASE User
    BY <1>1
    DEF User, StartRecording, StopRecording, PressMicrophone, ReleaseMicrophone, LeaveChat,
        RebuildHome, queues, Moves, Tasks
  <1>2. CASE Isolate
    BY <1>2
    DEF Isolate, LocationKnown, StartAnswered, StopAnswered, InsertRow, ReleaseAnswered, EndVoice,
        PermissionKnown, StartVoice, VoiceAnswered, TakeAnswer, queues, Moves, Tasks, Files
  <1>3. CASE HandleCall
    <2>1. Head(channel) \in Tasks
      BY <1>3, HeadTailProperties DEF HandleCall, QueuesTyped
    <2>. QED
      BY <1>3, <2>1 DEF HandleCall, Moves, Tasks, Files
  <1>4. CASE MainThread /\ ~HandleCall
    BY <1>4
    DEF MainThread, ServiceStarts, ServiceStops, EndJoin, ConvertPcmToWav, DeletePcm, queues, Moves
  <1>5. CASE Tick \/ Rest \/ (\E f \in Files : Recorder(f)) \/ UNCHANGED vars
    BY <1>5 DEF Tick, Rest, Recorder, TestFlag, RecordAudio, vars, queues, Moves
  <1>6. CASE EngineDies \/ ProcessDies
    BY <1>6 DEF EngineDies, ProcessDies, LoseIsolate, Moves
  <1>. QED
    BY <1>1, <1>2, <1>3, <1>4, <1>5, <1>6 DEF Next

LEMMA MishapsRemain ==
  ASSUME [Next]_vars
  PROVE  mishaps \subseteq mishaps'
  BY DEF Next, vars, session, User, Isolate, Tick, MainThread, Rest, Recorder, StartRecording,
         LocationKnown, StartAnswered, InsertRow,
         StopRecording, StopAnswered, PressMicrophone, PermissionKnown, StartVoice,
         VoiceAnswered, ReleaseMicrophone, ReleaseAnswered, EndVoice, LeaveChat, RebuildHome,
         HandleCall, ServiceStarts, ServiceStops, EndJoin, ConvertPcmToWav, DeletePcm, TestFlag,
         RecordAudio, EngineDies, ProcessDies, Note, Fails, Mishaps, files, chat, queues, service

\* What is noted is a mishap of a known kind, or the file of a thread.
LEMMA MishapsTyped ==
  ASSUME mishaps \subseteq Kinds \cup Files, [Next]_vars
  PROVE  mishaps' \subseteq Kinds \cup Files
  <1>. USE DEF Kinds, Note, Fails, Mishaps, session, chat, queues, service, files
  <1>1. CASE User
    BY <1>1
    DEF User, StartRecording, StopRecording, PressMicrophone, ReleaseMicrophone, LeaveChat,
        RebuildHome
  <1>2. CASE Isolate
    BY <1>2
    DEF Isolate, LocationKnown, StartAnswered, StopAnswered, InsertRow, ReleaseAnswered, EndVoice,
        PermissionKnown, StartVoice, VoiceAnswered
  <1>3. CASE EndJoin
    BY <1>3 DEF EndJoin, Outlived
  <1>4. CASE MainThread /\ ~EndJoin
    BY <1>4 DEF MainThread, HandleCall, ServiceStarts, ServiceStops, ConvertPcmToWav, DeletePcm
  <1>5. CASE Tick \/ Rest \/ (\E f \in Files : Recorder(f)) \/ UNCHANGED vars
    BY <1>5 DEF Tick, Rest, Recorder, TestFlag, RecordAudio, vars
  <1>6. CASE EngineDies \/ ProcessDies
    BY <1>6 DEF EngineDies, ProcessDies
  <1>. QED
    BY <1>1, <1>2, <1>3, <1>4, <1>5, <1>6 DEF Next

LEMMA QueuesStayTyped ==
  ASSUME SessionTyped, QueuesTyped, [Next]_vars
  PROVE  QueuesTyped'
  <1>. USE DEF QueuesTyped, session, chat
  <1>1. /\ channel' \in Seq(Tasks) /\ answers' \in Seq([to : Tasks, ok : BOOLEAN])
        /\ intents' \in Seq(Files \cup {StopIntent})
    BY QueuesMove, QueueStaysTyped DEF QueuesTyped
  <1>2. mishaps' \subseteq Kinds \cup Files
    BY MishapsTyped
  <1>3. CASE User
    BY <1>1, <1>2, <1>3
    DEF User, StartRecording, StopRecording, PressMicrophone, ReleaseMicrophone, LeaveChat,
        RebuildHome
  <1>4. CASE Isolate
    BY <1>1, <1>2, <1>4
    DEF Isolate, LocationKnown, StartAnswered, StopAnswered, InsertRow, ReleaseAnswered, EndVoice,
        PermissionKnown, StartVoice, VoiceAnswered
  <1>5. CASE MainThread
    BY <1>1, <1>2, <1>5
    DEF MainThread, HandleCall, ServiceStarts, ServiceStops, EndJoin, ConvertPcmToWav, DeletePcm
  <1>6. CASE Tick \/ Rest \/ (\E f \in Files : Recorder(f)) \/ UNCHANGED vars
    BY <1>1, <1>2, <1>6 DEF Tick, Rest, Recorder, TestFlag, RecordAudio, vars
  <1>7. CASE EngineDies \/ ProcessDies
    BY <1>1, <1>2, <1>7 DEF EngineDies, ProcessDies, LoseIsolate
  <1>. QED
    BY <1>3, <1>4, <1>5, <1>6, <1>7 DEF Next

\* TypeOK: the variables of isolate, channel and service keep to their types; the answers and the
\* intents that wait belong to known tasks and files.
THEOREM SessionTypeCorrect == Spec => []TypeOK
  <1>1. Init => QueuesTyped
    BY EmptySeq DEF Init, QueuesTyped
  <1>2. SessionInv /\ QueuesTyped /\ [Next]_vars => QueuesTyped'
    BY QueuesStayTyped DEF SessionInv
  <1>3. SessionInv /\ ServiceInv /\ QueuesTyped => TypeOK
    BY DEF SessionInv, ServiceInv, TypeOK
  <1>. QED
    BY <1>1, <1>2, <1>3, SessionInvariant, ServiceInvariant, PTL DEF Spec

-----------------------------------------------------------------------------
(* The sides agree: what isolate and service hold of a session, over the   *)
(* queues between them. First the queues, then the calls and answers, then *)
(* what each action leaves of VoiceStandsAside, StartsFindRest,            *)
(* ClaimedIsRecorded and EndedIsConverted (Settled, below).                *)

LEMMA Appended ==
  ASSUME NEW S, NEW s \in Seq(S), NEW e \in S
  PROVE  /\ Append(s, e) \in Seq(S) /\ Append(s, e) # <<>>
         /\ Len(s) \in Nat /\ Len(Append(s, e)) = Len(s) + 1
         /\ \A i \in 1 .. Len(s) : Append(s, e)[i] = s[i]
         /\ Append(s, e)[Len(s) + 1] = e
  BY AppendProperties, LenProperties

LEMMA Dropped ==
  ASSUME NEW S, NEW s \in Seq(S), s # <<>>
  PROVE  /\ Len(s) \in Nat /\ Len(s) > 0 /\ Head(s) = s[1] /\ s[1] \in S
         /\ Tail(s) \in Seq(S) /\ Len(Tail(s)) = Len(s) - 1
         /\ \A i \in 1 .. Len(s) - 1 : Tail(s)[i] = s[i + 1]
         /\ Tail(s) = <<>> <=> Len(s) = 1
  <1>1. Len(s) \in Nat /\ Len(s) # 0
    BY LenProperties, EmptySeq
  <1>2. Tail(s) \in Seq(S) /\ Len(Tail(s)) = Len(s) - 1 /\ Head(s) = s[1] /\ s[1] \in S
    BY HeadTailProperties, <1>1, ElementOfSeq
  <1>3. \A i \in 1 .. Len(s) - 1 : Tail(s)[i] = s[i + 1]
    BY HeadTailProperties, <1>1
  <1>4. ASSUME NEW t \in Seq(S)
        PROVE  t = <<>> <=> Len(t) = 0
    BY EmptySeq
  <1>5. Tail(s) = <<>> <=> Len(s) = 1
    <2>1. Tail(s) = <<>> <=> Len(Tail(s)) = 0
      BY <1>2, <1>4, Zenon
    <2>. QED
      BY <1>1, <1>2, <2>1
  <1>. QED
    BY <1>1, <1>2, <1>3, <1>5

LEMMA ElementsAppended ==
  ASSUME NEW S, NEW s \in Seq(S), NEW e \in S
  PROVE  Elements(Append(s, e)) = Elements(s) \cup {e}
  <1>1. PICK r : r = Append(s, e)
    BY Zenon
  <1>2. /\ Len(s) \in Nat /\ Len(r) = Len(s) + 1
        /\ \A i \in 1 .. Len(s) : r[i] = s[i]
        /\ r[Len(s) + 1] = e
    BY <1>1, Appended
  <1>3. ASSUME NEW i \in 1 .. Len(r)
        PROVE  r[i] \in Elements(s) \cup {e}
    <2>1. CASE i \in 1 .. Len(s)
      BY <1>2, <2>1 DEF Elements
    <2>2. CASE i = Len(s) + 1
      BY <1>2, <2>2
    <2>. QED
      BY <1>2, <2>1, <2>2
  <1>4. ASSUME NEW i \in 1 .. Len(s)
        PROVE  s[i] \in Elements(r)
    BY <1>2 DEF Elements
  <1>5. e \in Elements(r)
    BY <1>2 DEF Elements
  <1>6. Elements(r) \subseteq Elements(s) \cup {e} /\ Elements(s) \subseteq Elements(r)
    BY <1>3, <1>4, Zenon DEF Elements
  <1>. QED
    BY <1>1, <1>5, <1>6, Zenon

\* Who waits in the queues.
LEMMA QueuedAreTyped ==
  ASSUME QueuesTyped
  PROVE  /\ Len(channel) \in Nat /\ Len(answers) \in Nat /\ Len(intents) \in Nat
         /\ \A i \in 1 .. Len(channel) : channel[i] \in Tasks
         /\ \A i \in 1 .. Len(answers) : answers[i].to \in Tasks /\ answers[i].ok \in BOOLEAN
         /\ \A i \in 1 .. Len(intents) : intents[i] \in Files \cup {StopIntent}
  <1>1. \A i \in 1 .. Len(answers) : answers[i] \in [to : Tasks, ok : BOOLEAN]
    BY ElementOfSeq DEF QueuesTyped
  <1>2. \A i \in 1 .. Len(answers) : answers[i].to \in Tasks /\ answers[i].ok \in BOOLEAN
    BY <1>1
  <1>3. /\ \A i \in 1 .. Len(channel) : channel[i] \in Tasks
        /\ \A i \in 1 .. Len(intents) : intents[i] \in Files \cup {StopIntent}
    BY ElementOfSeq DEF QueuesTyped
  <1>4. Len(channel) \in Nat /\ Len(answers) \in Nat /\ Len(intents) \in Nat
    BY LenProperties DEF QueuesTyped
  <1>. QED
    BY <1>2, <1>3, <1>4

\* A task that did not wait calls, and waits.
LEMMA CallKeepsCalls ==
  ASSUME CallsAreWaitedFor, SessionTyped, QueuesTyped, NEW t \in Tasks, ~Waits(t),
         channel' = Append(channel, t), UNCHANGED answers,
         Waits(t)', \A u \in Tasks \ {t} : pc'[u] = pc[u]
  PROVE  CallsAreWaitedFor'
  <1>1. channel \in Seq(Tasks) /\ answers \in Seq([to : Tasks, ok : BOOLEAN])
    BY DEF QueuesTyped
  <1>2. /\ Len(channel) \in Nat /\ Len(channel') = Len(channel) + 1
        /\ \A i \in 1 .. Len(channel) : channel'[i] = channel[i]
        /\ channel'[Len(channel) + 1] = t
    BY <1>1, Appended
  <1>3. /\ \A i \in 1 .. Len(channel) : channel[i] \in Tasks
        /\ \A i \in 1 .. Len(answers) : answers[i].to \in Tasks
    BY QueuedAreTyped
  <1>4. \A u \in Tasks : Waits(u) => Waits(u)' /\ u # t
    BY DEF Waits
  <1>. QED
    BY <1>2, <1>3, <1>4 DEF CallsAreWaitedFor

\* A task takes its answer, and there is no other of it.
LEMMA AnswerKeepsCalls ==
  ASSUME CallsAreWaitedFor, SessionTyped, QueuesTyped, NEW t \in Tasks, TakeAnswer(t),
         UNCHANGED channel, \A u \in Tasks \ {t} : pc'[u] = pc[u]
  PROVE  CallsAreWaitedFor'
  <1>1. channel \in Seq(Tasks) /\ answers \in Seq([to : Tasks, ok : BOOLEAN])
    BY DEF QueuesTyped
  <1>2. /\ Len(answers) \in Nat /\ Len(answers) > 0 /\ Len(answers') = Len(answers) - 1
        /\ \A i \in 1 .. Len(answers) - 1 : answers'[i] = answers[i + 1]
        /\ answers[1].to = t
    BY <1>1, Dropped DEF TakeAnswer
  <1>3. /\ \A i \in 1 .. Len(channel) : channel[i] \in Tasks
        /\ \A i \in 1 .. Len(answers) : answers[i].to \in Tasks
    BY QueuedAreTyped
  <1>4. \A u \in Tasks \ {t} : Waits(u) => Waits(u)'
    BY DEF Waits
  <1>5. /\ \A i \in 1 .. Len(channel) : channel[i] # t
        /\ \A i \in 1 .. Len(answers) : i # 1 => answers[i].to # t
    BY <1>2 DEF CallsAreWaitedFor
  <1>6. \A i \in 1 .. Len(answers) - 1 :
          /\ answers'[i].to = answers[i + 1].to /\ answers[i + 1].to # t
          /\ i + 1 \in 1 .. Len(answers) /\ answers[i + 1].to \in Tasks
    BY <1>2, <1>3, <1>5
  <1>7. (\A i \in 1 .. Len(channel) : Waits(channel[i]))'
    BY <1>3, <1>4, <1>5 DEF CallsAreWaitedFor
  <1>8. (\A i \in 1 .. Len(answers) : Waits(answers[i].to))'
    BY <1>2, <1>4, <1>6 DEF CallsAreWaitedFor
  <1>9. (\A i, j \in 1 .. Len(channel) : channel[i] = channel[j] => i = j)'
    BY DEF CallsAreWaitedFor
  <1>10. (\A i, j \in 1 .. Len(answers) : answers[i].to = answers[j].to => i = j)'
    <2>1. ASSUME NEW i \in 1 .. Len(answers) - 1, NEW j \in 1 .. Len(answers) - 1,
                 answers'[i].to = answers'[j].to
          PROVE  i = j
      <3>1. i + 1 = j + 1
        BY <1>6, <2>1 DEF CallsAreWaitedFor
      <3>. QED
        BY <3>1
    <2>. QED
      BY <1>2, <2>1
  <1>11. (\A i \in 1 .. Len(channel), j \in 1 .. Len(answers) : channel[i] # answers[j].to)'
    BY <1>2, <1>6 DEF CallsAreWaitedFor
  <1>. QED
    BY <1>7, <1>8, <1>9, <1>10, <1>11 DEF CallsAreWaitedFor

\* The call becomes an answer.
LEMMA HandleCallKeepsCalls ==
  ASSUME CallsAreWaitedFor, SessionTyped, QueuesTyped, HandleCall
  PROVE  CallsAreWaitedFor'
  <1>1. /\ channel \in Seq(Tasks) /\ answers \in Seq([to : Tasks, ok : BOOLEAN])
        /\ channel # <<>> /\ channel' = Tail(channel)
    BY DEF QueuesTyped, HandleCall
  <1>2. /\ Len(channel) \in Nat /\ Len(channel) > 0 /\ Len(channel') = Len(channel) - 1
        /\ \A i \in 1 .. Len(channel) - 1 : channel'[i] = channel[i + 1]
        /\ Head(channel) = channel[1] /\ channel[1] \in Tasks
    BY <1>1, Dropped
  <1>3. PICK b \in BOOLEAN : answers' = Append(answers, [to |-> channel[1], ok |-> b])
    <2>1. \/ answers' = Append(answers, [to |-> Head(channel), ok |-> TRUE])
          \/ answers' = Append(answers, [to |-> Head(channel), ok |-> FALSE])
      BY DEF HandleCall
    <2>. QED
      BY <1>2, <2>1
  <1>. DEFINE a == [to |-> channel[1], ok |-> b]
  <1>a. a \in [to : Tasks, ok : BOOLEAN] /\ a.to = channel[1]
    BY <1>2
  <1>. HIDE DEF a
  <1>4. /\ Len(answers) \in Nat /\ Len(answers') = Len(answers) + 1
        /\ \A i \in 1 .. Len(answers) : answers'[i] = answers[i]
        /\ answers'[Len(answers) + 1].to = channel[1]
    BY <1>1, <1>3, <1>a, Appended DEF a
  <1>5. UNCHANGED pc
    BY DEF HandleCall
  <1>6. (\A i \in 1 .. Len(channel) : Waits(channel[i]))'
    BY <1>2, <1>5 DEF CallsAreWaitedFor, Waits
  <1>7. (\A i \in 1 .. Len(answers) : Waits(answers[i].to))'
    BY <1>2, <1>4, <1>5 DEF CallsAreWaitedFor, Waits
  <1>8. (\A i, j \in 1 .. Len(channel) : channel[i] = channel[j] => i = j)'
    BY <1>2 DEF CallsAreWaitedFor
  <1>b. \A i \in 1 .. Len(answers) : answers'[i].to = answers[i].to /\ answers[i].to # channel[1]
    BY <1>2, <1>4 DEF CallsAreWaitedFor
  <1>9. (\A i, j \in 1 .. Len(answers) : answers[i].to = answers[j].to => i = j)'
    <2>1. ASSUME NEW i \in 1 .. Len(answers'), NEW j \in 1 .. Len(answers'),
                 answers'[i].to = answers'[j].to
          PROVE  i = j
      <3>1. CASE i \in 1 .. Len(answers) /\ j \in 1 .. Len(answers)
        BY <1>b, <2>1, <3>1 DEF CallsAreWaitedFor
      <3>2. CASE i = Len(answers) + 1 \/ j = Len(answers) + 1
        <4>1. \A k \in 1 .. Len(answers) : answers'[k].to # channel[1]
          BY <1>b
        <4>. QED
          BY <1>4, <2>1, <3>2, <4>1
      <3>. QED
        BY <1>4, <3>1, <3>2
    <2>. QED
      BY <2>1
  <1>10. (\A i \in 1 .. Len(channel), j \in 1 .. Len(answers) : channel[i] # answers[j].to)'
    <2>1. ASSUME NEW i \in 1 .. Len(channel'), NEW j \in 1 .. Len(answers')
          PROVE  channel'[i] # answers'[j].to
      <3>1. /\ channel'[i] = channel[i + 1] /\ i + 1 \in 1 .. Len(channel) /\ i + 1 # 1
            /\ 1 \in 1 .. Len(channel)
        BY <1>2
      <3>2. CASE j \in 1 .. Len(answers)
        BY <1>b, <3>1, <3>2 DEF CallsAreWaitedFor
      <3>3. CASE j = Len(answers) + 1
        BY <1>4, <3>1, <3>3 DEF CallsAreWaitedFor
      <3>. QED
        BY <1>4, <3>2, <3>3
    <2>. QED
      BY <2>1
  <1>. QED
    BY <1>6, <1>7, <1>8, <1>9, <1>10 DEF CallsAreWaitedFor

\* Nothing is called or answered, and those who wait go on waiting.
LEMMA CallsAside ==
  ASSUME CallsAreWaitedFor, QueuesTyped, UNCHANGED <<channel, answers>>,
         \A t \in Tasks : Waits(t) => pc'[t] = pc[t]
  PROVE  CallsAreWaitedFor'
  <1>1. /\ \A i \in 1 .. Len(channel) : channel[i] \in Tasks
        /\ \A i \in 1 .. Len(answers) : answers[i].to \in Tasks
    BY QueuedAreTyped
  <1>. QED
    BY <1>1 DEF CallsAreWaitedFor, Waits

LEMMA NextKeepsCalls ==
  ASSUME CallsAreWaitedFor, SessionTyped, QueuesTyped, [Next]_vars
  PROVE  CallsAreWaitedFor'
  <1>. USE SessionAssumption DEF SessionTyped, Goto, Tasks, Files
  <1>1. CASE User
    <2>1. CASE \E t \in Stops : StopRecording(t)
      BY <2>1, CallKeepsCalls DEF StopRecording, Waits
    <2>2. CASE ReleaseMicrophone
      BY <2>2, CallKeepsCalls, CallsAside DEF ReleaseMicrophone, Waits
    <2>3. CASE (\E q \in Starts : StartRecording(q)) \/ LeaveChat \/ RebuildHome
               \/ \E v \in Inputs : PressMicrophone(v)
      BY <2>3, CallsAside
      DEF StartRecording, PressMicrophone, LeaveChat, RebuildHome, queues, Waits
    <2>. QED
      BY <1>1, <2>1, <2>2, <2>3 DEF User
  <1>2. CASE Isolate
    <2>1. CASE \E q \in Starts : LocationKnown(q)
      BY <2>1, CallKeepsCalls, CallsAside DEF LocationKnown, Waits
    <2>2. CASE \E v \in Inputs : StartVoice(v)
      BY <2>2, CallKeepsCalls DEF StartVoice, Waits
    <2>3. CASE (\E q \in Starts : StartAnswered(q)) \/ (\E v \in Inputs : VoiceAnswered(v))
               \/ \E t \in Stops : StopAnswered(t) \/ ReleaseAnswered(t)
      BY <2>3, AnswerKeepsCalls DEF StartAnswered, VoiceAnswered, StopAnswered, ReleaseAnswered
    <2>4. CASE \/ \E v \in Inputs : PermissionKnown(v)
               \/ \E t \in Stops : InsertRow(t) \/ EndVoice(t)
      BY <2>4, CallsAside DEF PermissionKnown, InsertRow, EndVoice, queues, Waits
    <2>. QED
      BY <1>2, <2>1, <2>2, <2>3, <2>4 DEF Isolate
  <1>3. CASE MainThread
    <2>1. CASE ~HandleCall
      BY <1>3, <2>1, CallsAside
      DEF MainThread, ServiceStarts, ServiceStops, EndJoin, ConvertPcmToWav, DeletePcm, queues
    <2>. QED
      BY <2>1, HandleCallKeepsCalls
  <1>4. CASE Tick \/ Rest \/ (\E f \in Files : Recorder(f)) \/ UNCHANGED vars
    BY <1>4, CallsAside DEF Tick, Rest, Recorder, TestFlag, RecordAudio, vars, queues
  <1>5. CASE EngineDies \/ ProcessDies
    BY <1>5 DEF EngineDies, ProcessDies, LoseIsolate, CallsAreWaitedFor
  <1>. QED
    BY <1>1, <1>2, <1>3, <1>4, <1>5 DEF Next

\* An accepted task waits, and its call is no longer in the channel.
LEMMA AcceptedWait ==
  ASSUME CallsAreWaitedFor
  PROVE  /\ \A t \in Accepted : Waits(t)
         /\ \A i \in 1 .. Len(channel) : channel[i] \notin Accepted
  BY DEF CallsAreWaitedFor, Accepted

\* A task that takes its answer is not accepted any longer; the others are as before.
LEMMA AnswerTaken ==
  ASSUME CallsAreWaitedFor, QueuesTyped, NEW t \in Tasks, TakeAnswer(t)
  PROVE  /\ Accepted' = Accepted \ {t}
         /\ Succeeded <=> t \in Accepted
  <1>1. /\ answers \in Seq([to : Tasks, ok : BOOLEAN]) /\ answers # <<>>
        /\ answers' = Tail(answers) /\ Head(answers).to = t
    BY DEF QueuesTyped, TakeAnswer
  <1>2. /\ Len(answers) \in Nat /\ Len(answers) > 0 /\ Len(answers') = Len(answers) - 1
        /\ \A i \in 1 .. Len(answers) - 1 : answers'[i] = answers[i + 1]
        /\ Head(answers) = answers[1]
    BY <1>1, Dropped
  <1>3. \A i \in 1 .. Len(answers) : answers[i].to = t <=> i = 1
    BY <1>1, <1>2 DEF CallsAreWaitedFor
  <1>4. Succeeded <=> t \in Accepted
    BY <1>2, <1>3 DEF Succeeded, Accepted
  <1>5. ASSUME NEW u \in Accepted, u # t
        PROVE  u \in Accepted'
    <2>1. PICK i \in 1 .. Len(answers) : answers[i].ok /\ answers[i].to = u
      BY <1>5 DEF Accepted
    <2>2. i - 1 \in 1 .. Len(answers') /\ answers'[i - 1] = answers[i]
      BY <1>2, <1>3, <1>5, <2>1
    <2>. QED
      BY <2>1, <2>2 DEF Accepted
  <1>6. ASSUME NEW u \in Accepted'
        PROVE  u \in Accepted \ {t}
    <2>1. PICK i \in 1 .. Len(answers') : answers'[i].ok /\ answers'[i].to = u
      BY <1>6 DEF Accepted
    <2>2. i + 1 \in 1 .. Len(answers) /\ answers'[i] = answers[i + 1] /\ i + 1 # 1
      BY <1>2, <2>1
    <2>. QED
      BY <1>3, <2>1, <2>2 DEF Accepted
  <1>. QED
    BY <1>4, <1>5, <1>6

\* MainActivity answers: a task is accepted, or not.
LEMMA AnswerGiven ==
  ASSUME QueuesTyped, NEW t \in Tasks, NEW b \in BOOLEAN,
         answers' = Append(answers, [to |-> t, ok |-> b])
  PROVE  Accepted' = IF b THEN Accepted \cup {t} ELSE Accepted
  <1>. DEFINE a == [to |-> t, ok |-> b]
  <1>1. a \in [to : Tasks, ok : BOOLEAN] /\ a.to = t /\ a.ok = b
    OBVIOUS
  <1>. HIDE DEF a
  <1>2. /\ Len(answers) \in Nat /\ Len(answers') = Len(answers) + 1
        /\ \A i \in 1 .. Len(answers) : answers'[i] = answers[i]
        /\ answers'[Len(answers) + 1] = a
    BY <1>1, Appended DEF QueuesTyped, a
  <1>3. ASSUME NEW u \in Accepted
        PROVE  u \in Accepted'
    <2>1. PICK i \in 1 .. Len(answers) : answers[i].ok /\ answers[i].to = u
      BY DEF Accepted
    <2>2. i \in 1 .. Len(answers') /\ answers'[i] = answers[i]
      BY <1>2
    <2>. QED
      BY <2>1, <2>2 DEF Accepted
  <1>4. ASSUME b
        PROVE  t \in Accepted'
    <2>1. Len(answers) + 1 \in 1 .. Len(answers')
      BY <1>2
    <2>. QED
      BY <1>1, <1>2, <1>4, <2>1 DEF Accepted
  <1>5. ASSUME NEW u \in Accepted'
        PROVE  u \in Accepted \/ (b /\ u = t)
    <2>1. PICK i \in 1 .. Len(answers') : answers'[i].ok /\ answers'[i].to = u
      BY <1>5 DEF Accepted
    <2>2. CASE i = Len(answers) + 1
      BY <1>1, <1>2, <2>1, <2>2
    <2>3. CASE i # Len(answers) + 1
      <3>1. i \in 1 .. Len(answers) /\ answers'[i] = answers[i]
        BY <1>2, <2>3
      <3>. QED
        BY <2>1, <3>1 DEF Accepted
    <2>. QED
      BY <2>2, <2>3
  <1>. QED
    BY <1>3, <1>4, <1>5

\* The conclusion of SidesInv, and all that the lemmas below assume.
Settled == VoiceStandsAside /\ StartsFindRest /\ ClaimedIsRecorded /\ EndedIsConverted
Known == SessionInv /\ ServiceInv /\ QueuesTyped /\ CallsAreWaitedFor /\ Settled /\ Undisturbed

\* A step that leaves alone what the session, the queue and the service hold.
LEMMA SettledAside ==
  ASSUME Known,
         UNCHANGED <<currentRecording, rows, intents, isRecording, path, main>>,
         \A q \in Starts : /\ pc'[q] = pc[q] /\ wav'[q] = wav[q]
                           /\ q \in Accepted' <=> q \in Accepted,
         \A t \in Stops : \/ pc'[t] = pc[t]
                          \/ Releasing(t) /\ pc'[t] \in {"released", "idle"},
         \A t \in Stops : pc[t] = "stopping" => (t \in Accepted' <=> t \in Accepted),
         \A v \in Inputs : pc'[v] = "starting" => pc[v] = "starting",
         mishaps \subseteq mishaps'
  PROVE  Settled'
  <1>. USE SessionAssumption DEF Known, Settled, Files, Releasing
  <1>1. VoiceStandsAside'
    BY DEF VoiceStandsAside, SessionInUse, Serves, Elements, Busy, Saving
  <1>2. StartsFindRest'
    BY DEF StartsFindRest, Quiet, Busy
  <1>3. Ending' <=> Ending
    BY DEF Ending
  <1>4. ClaimedIsRecorded'
    BY <1>3 DEF ClaimedIsRecorded, Claimed, Recorded
  <1>5. EndedIsConverted'
    BY <1>3 DEF EndedIsConverted, IsConverted, Without
  <1>. QED
    BY <1>1, <1>2, <1>4, <1>5

\* Nobody uses the service, and what waits for it ends with a stop.
LEMMA StartRecordingSettles ==
  ASSUME Known, NEW q \in Starts, StartRecording(q), Undisturbed'
  PROVE  Settled'
  <1>. USE SessionAssumption
       DEF Known, Settled, Undisturbed, Without, StartRecording, Mishaps, Goto, session, queues,
           service, files, Tasks, Files, SessionInv, SessionTyped
  <1>1. /\ ~VoiceInUse /\ \A r \in Starts : ~Busy(r)
        /\ \A t \in Stops : ~Saving(t)
        /\ Accepted' = Accepted
    BY DEF TicksForCurrent, Accepted
  <1>2. VoiceStandsAside'
    BY <1>1 DEF VoiceStandsAside, VoiceInUse, Serves, Elements, Busy, Releasing
  <1>3. \A r \in Starts : ~Claimed(r) /\ ~Recorded(r)
    BY <1>1 DEF ClaimedIsRecorded, Claimed, Busy
  <1>4. Quiet
    <2>1. CASE intents = <<>>
      BY <1>1, <1>3, <2>1
      DEF Quiet, Recorded, VoiceInUse, Serves, ServiceInv, ServiceTyped, WorkIsOnDisk
    <2>2. CASE intents # <<>>
      <3>1. Len(intents) \in 1 .. Len(intents)
        BY <2>2, Dropped DEF QueuesTyped
      <3>2. intents[Len(intents)] \in Files \cup {StopIntent}
        BY <3>1, QueuedAreTyped
      <3>3. intents[Len(intents)] \notin Inputs
        BY <1>1, <3>1 DEF VoiceInUse, Serves, Elements
      <3>. QED
        BY <1>3, <2>2, <3>2, <3>3 DEF Quiet, Recorded
    <2>. QED
      BY <2>1, <2>2
  <1>5. StartsFindRest'
    BY <1>4 DEF StartsFindRest, Quiet
  <1>6. ~Ending' /\ ~Ending
    BY <1>1 DEF Ending, Saving
  <1>7. ClaimedIsRecorded'
    BY <1>1, <1>6 DEF ClaimedIsRecorded, Claimed, Recorded, Busy
  <1>8. EndedIsConverted'
    BY <1>6 DEF EndedIsConverted, IsConverted
  <1>. QED
    BY <1>2, <1>5, <1>7, <1>8

\* The start that is under way calls, or gives up.
LEMMA LocationKnownSettles ==
  ASSUME Known, NEW q \in Starts, LocationKnown(q)
  PROVE  Settled'
  <1>. USE SessionAssumption
       DEF Known, Settled, Undisturbed, Without, LocationKnown, Goto, session,
           service, files, Tasks, Files, SessionInv, SessionTyped
  <1>1. /\ q \notin Accepted /\ Accepted' = Accepted
    BY AcceptedWait DEF Accepted, Waits
  <1>2. VoiceStandsAside'
    BY DEF VoiceStandsAside, SessionInUse, Serves, Elements, Busy, Saving
  <1>3. StartsFindRest'
    BY <1>1 DEF StartsFindRest, Quiet, Busy
  <1>4. Ending' <=> Ending
    BY <1>1 DEF Ending
  <1>5. ClaimedIsRecorded'
    BY <1>1, <1>4 DEF ClaimedIsRecorded, Claimed, Recorded
  <1>6. EndedIsConverted'
    BY <1>4 DEF EndedIsConverted, IsConverted
  <1>. QED
    BY <1>2, <1>3, <1>5, <1>6

\* What was accepted, and is recorded, becomes current.
LEMMA StartAnsweredSettles ==
  ASSUME Known, NEW q \in Starts, StartAnswered(q)
  PROVE  Settled'
  <1>. USE SessionAssumption
       DEF Known, Settled, Undisturbed, Without, StartAnswered, Goto,
           service, files, Tasks, Files, SessionInv, SessionTyped
  <1>1. /\ Accepted' = Accepted \ {q} /\ (Succeeded <=> q \in Accepted)
        /\ currentRecording = None /\ \A r \in Starts : Busy(r) => r = q
        /\ \A t \in Stops : ~Saving(t)
    BY AnswerTaken DEF StartsAreAlone, TicksForCurrent, Busy
  <1>2. VoiceStandsAside'
    BY DEF VoiceStandsAside, SessionInUse, Serves, Elements, Busy, Saving
  <1>3. StartsFindRest'
    BY <1>1 DEF StartsFindRest, Quiet, Busy
  <1>4. ~Ending' /\ ~Ending
    BY <1>1 DEF Ending, Saving
  <1>5. ClaimedIsRecorded'
    BY <1>1, <1>4 DEF ClaimedIsRecorded, Claimed, Recorded, Busy
  <1>6. EndedIsConverted'
    BY <1>4 DEF EndedIsConverted, IsConverted
  <1>. QED
    BY <1>2, <1>3, <1>5, <1>6

\* A stop that is called has not been accepted.
LEMMA StopRecordingSettles ==
  ASSUME Known, NEW t \in Stops, StopRecording(t), mishaps \subseteq mishaps'
  PROVE  Settled'
  <1>. USE SessionAssumption
       DEF Known, Settled, Undisturbed, Without, StopRecording, Note, Goto,
           service, files, Tasks, Files, SessionInv, SessionTyped
  <1>1. t \notin Accepted /\ Accepted' = Accepted
    BY AcceptedWait DEF Accepted, Waits
  <1>2. VoiceStandsAside'
    BY DEF VoiceStandsAside, SessionInUse, Serves, Elements, Busy, Saving
  <1>3. StartsFindRest'
    BY <1>1 DEF StartsFindRest, Quiet, Busy
  <1>4. Ending' <=> Ending
    BY <1>1 DEF Ending
  <1>5. ClaimedIsRecorded'
    BY <1>1, <1>4 DEF ClaimedIsRecorded, Claimed, Recorded
  <1>6. EndedIsConverted'
    BY <1>4 DEF EndedIsConverted, IsConverted
  <1>. QED
    BY <1>2, <1>3, <1>5, <1>6

\* The end goes on, or the stop was refused and nothing has ended.
LEMMA StopAnsweredSettles ==
  ASSUME Known, NEW t \in Stops, StopAnswered(t)
  PROVE  Settled'
  <1>. USE SessionAssumption
       DEF Known, Settled, Undisturbed, Without, StopAnswered, Goto,
           service, files, Tasks, Files, SessionInv, SessionTyped
  <1>1. /\ Accepted' = Accepted \ {t} /\ (Succeeded <=> t \in Accepted)
        /\ currentRecording # None /\ \A u \in Stops : Saving(u) => u = t
    BY AnswerTaken DEF StopsAreAlone, TicksForCurrent, Saving
  <1>2. VoiceStandsAside'
    BY <1>1 DEF VoiceStandsAside, SessionInUse, Serves, Elements, Busy, Saving
  <1>3. StartsFindRest'
    BY <1>1 DEF StartsFindRest, Quiet, Busy
  <1>4. Ending' <=> Ending
    BY <1>1 DEF Ending, Saving
  <1>5. ClaimedIsRecorded'
    BY <1>1, <1>4 DEF ClaimedIsRecorded, Claimed, Recorded
  <1>6. EndedIsConverted'
    BY <1>4 DEF EndedIsConverted, IsConverted
  <1>. QED
    BY <1>2, <1>3, <1>5, <1>6

\* What gets its row was being ended, so its conversion is assured.
LEMMA InsertRowSettles ==
  ASSUME Known, NEW t \in Stops, InsertRow(t), mishaps \subseteq mishaps'
  PROVE  Settled'
  <1>. USE SessionAssumption
       DEF Known, Settled, Undisturbed, Without, InsertRow, Goto, queues,
           service, files, Tasks, Files, SessionInv, SessionTyped
  <1>1. /\ Accepted' = Accepted /\ saves[t] = currentRecording /\ currentRecording # None
        /\ \A u \in Stops : Saving(u) => u = t
        /\ \A q \in Starts : ~Busy(q)
    BY DEF Accepted, StopsAreAlone, TicksForCurrent, StartsAreAlone, Saving
  <1>2. VoiceStandsAside'
    BY <1>1 DEF VoiceStandsAside, SessionInUse, Serves, Elements, Busy, Saving
  <1>3. StartsFindRest'
    BY <1>1 DEF StartsFindRest, Quiet, Busy
  <1>4. Ending
    BY <1>1 DEF Ending
  <1>5. ClaimedIsRecorded'
    BY <1>1, <1>4 DEF ClaimedIsRecorded, Claimed, Recorded, Busy
  <1>6. EndedIsConverted'
    BY <1>1, <1>4 DEF EndedIsConverted, IsConverted
  <1>. QED
    BY <1>2, <1>3, <1>5, <1>6

\* An input begins or ends only where there is no session.
LEMMA StartVoiceSettles ==
  ASSUME Known, NEW v \in Inputs, StartVoice(v), Undisturbed'
  PROVE  Settled'
  <1>. USE SessionAssumption
       DEF Known, Settled, Undisturbed, Without, StartVoice, Note, Mishaps, Goto, session,
           service, files, Tasks, Files, SessionInv, SessionTyped
  <1>1. ~SessionInUse /\ Accepted' = Accepted
    BY DEF Accepted
  <1>2. VoiceStandsAside'
    BY <1>1 DEF VoiceStandsAside, SessionInUse, Serves, Elements, Busy, Saving
  <1>3. StartsFindRest'
    BY <1>1 DEF StartsFindRest, Quiet, Busy
  <1>4. Ending' <=> Ending
    BY <1>1 DEF Ending
  <1>5. ClaimedIsRecorded'
    BY <1>1, <1>4 DEF ClaimedIsRecorded, Claimed, Recorded
  <1>6. EndedIsConverted'
    BY <1>4 DEF EndedIsConverted, IsConverted
  <1>. QED
    BY <1>2, <1>3, <1>5, <1>6

LEMMA ReleaseMicrophoneSettles ==
  ASSUME Known, ReleaseMicrophone, Undisturbed'
  PROVE  Settled'
  <1>. USE SessionAssumption
       DEF Known, Settled, Undisturbed, Without, ReleaseMicrophone, Note, Mishaps, Goto, session,
           service, files, Tasks, Files, SessionInv, SessionTyped
  <1>1. Accepted' = Accepted
    BY DEF Accepted
  <1>2. CASE ~listening
    BY <1>1, <1>2, SettledAside
  <1>3. CASE listening
    <2>1. ~SessionInUse
      BY <1>3
    <2>2. PICK t \in Stops : pc[t] = "idle" /\ pc' = [pc EXCEPT ![t] = "releasing"]
      BY <1>3
    <2>3. VoiceStandsAside'
      BY <2>1, <2>2 DEF VoiceStandsAside, SessionInUse, Serves, Elements, Busy, Saving
    <2>4. StartsFindRest'
      BY <1>1, <2>2 DEF StartsFindRest, Quiet, Busy
    <2>5. Ending' <=> Ending
      BY <1>1, <2>2 DEF Ending
    <2>6. ClaimedIsRecorded'
      BY <1>1, <2>2, <2>5 DEF ClaimedIsRecorded, Claimed, Recorded
    <2>7. EndedIsConverted'
      BY <2>5 DEF EndedIsConverted, IsConverted
    <2>. QED
      BY <2>3, <2>4, <2>6, <2>7
  <1>. QED
    BY <1>2, <1>3

\* What waits for MainActivity: a start finds rest, a stop ends what is current, and the voice
\* input calls while there is no session.
LEMMA HandleCallSettles ==
  ASSUME Known, HandleCall, mishaps \subseteq mishaps'
  PROVE  Settled'
  <1>. USE SessionAssumption
       DEF Known, Settled, Undisturbed, Without, session, service, files, Tasks, Files,
           SessionInv, SessionTyped
  <1>. DEFINE t == Head(channel)
  <1>1. /\ channel # <<>> /\ t \in Tasks /\ Waits(t) /\ t \notin Accepted
        /\ UNCHANGED <<pc, currentRecording, rows, isRecording, path, main, wav>>
    <2>1. t = channel[1] /\ Len(channel) > 0 /\ Len(channel) \in Nat /\ t \in Tasks
      BY Dropped DEF HandleCall, QueuesTyped
    <2>2. t = channel[1] /\ 1 \in 1 .. Len(channel)
      BY <2>1
    <2>. QED
      BY <2>1, <2>2, AcceptedWait DEF HandleCall, CallsAreWaitedFor
  <1>2. CASE answers' = Append(answers, [to |-> t, ok |-> FALSE]) /\ UNCHANGED intents
    BY <1>1, <1>2, AnswerGiven, SettledAside
  <1>3. CASE /\ answers' = Append(answers, [to |-> t, ok |-> TRUE])
             /\ intents' = Append(intents, IF t \in Stops THEN StopIntent ELSE t)
    <2>1. Accepted' = Accepted \cup {t}
      BY <1>1, <1>3, AnswerGiven
    <2>2. PICK e \in Files \cup {StopIntent} :
            e = (IF t \in Stops THEN StopIntent ELSE t) /\ intents' = Append(intents, e)
      BY <1>1, <1>3
    <2>. HIDE DEF t
    <2>a. intents \in Seq(Files \cup {StopIntent})
      BY DEF QueuesTyped
    <2>3. /\ Len(intents) \in Nat /\ Len(intents') = Len(intents) + 1 /\ intents' # <<>>
          /\ \A i \in 1 .. Len(intents) : intents'[i] = intents[i]
          /\ intents'[Len(intents) + 1] = e
      BY <2>2, <2>a, Appended
    <2>4. intents = <<>> <=> Len(intents) = 0
      BY EmptySeq DEF QueuesTyped
    <2>5. Elements(intents') = Elements(intents) \cup {e}
      BY <2>2, <2>a, ElementsAppended
    <2>6. Serves(Inputs)' <=> Serves(Inputs) \/ e \in Inputs
      BY <1>1, <2>5 DEF Serves
    <2>7. Serves(Starts)' <=> Serves(Starts) \/ e \in Starts
      BY <1>1, <2>5 DEF Serves
    <2>8. \A q \in Starts : Recorded(q)' <=> e = q
      BY <2>3 DEF Recorded
    <2>9. Quiet' <=> e = StopIntent
      BY <2>3 DEF Quiet
    <2>10. \A q \in Starts : IsConverted(q) \/ Recorded(q) => IsConverted(q)'
      <3>1. ASSUME NEW q \in Starts, Recorded(q)
            PROVE  IsConverted(q)'
        <4>1. CASE intents = <<>>
          BY <1>1, <2>3, <3>1, <4>1 DEF Recorded, IsConverted
        <4>2. CASE intents # <<>>
          <5>1. /\ Len(intents) \in 1 .. Len(intents') /\ Len(intents) < Len(intents')
                /\ intents'[Len(intents)] = q
            BY <2>3, <2>4, <3>1, <4>2 DEF Recorded
          <5>. QED
            BY <5>1 DEF IsConverted
        <4>. QED
          BY <4>1, <4>2
      <3>2. ASSUME NEW q \in Starts, IsConverted(q)
            PROVE  IsConverted(q)'
        <4>1. ASSUME NEW i \in 1 .. Len(intents), i < Len(intents), intents[i] = q
              PROVE  i \in 1 .. Len(intents') /\ i < Len(intents') /\ intents'[i] = q
          BY <2>3, <4>1
        <4>. QED
          BY <1>1, <2>3, <3>2, <4>1 DEF IsConverted
      <3>. QED
        BY <3>1, <3>2
    <2>11. ASSUME e \in Starts => Quiet
           PROVE  (\A i \in 1 .. Len(intents) : intents[i] \in Starts =>
                     IF i = 1 THEN ~isRecording ELSE intents[i - 1] = StopIntent)'
      <3>1. ASSUME NEW i \in 1 .. Len(intents'), intents'[i] \in Starts
            PROVE  IF i = 1 THEN ~isRecording ELSE intents'[i - 1] = StopIntent
        <4>1. CASE i = Len(intents) + 1
          BY <2>3, <2>4, <2>11, <3>1, <4>1 DEF Quiet
        <4>2. CASE i # Len(intents) + 1
          <5>1. i \in 1 .. Len(intents) /\ (i # 1 => i - 1 \in 1 .. Len(intents))
            BY <2>3, <4>2
          <5>. QED
            BY <2>3, <3>1, <5>1 DEF StartsFindRest
        <4>. QED
          BY <4>1, <4>2
      <3>. QED
        BY <1>1, <3>1
    <2>12. CASE t \in Starts
      <3>1. /\ e = t /\ pc[t] = "starting" /\ Quiet /\ currentRecording = None
            /\ \A r \in Starts : Busy(r) => r = t
            /\ \A u \in Stops : ~Saving(u)
        BY <1>1, <2>2, <2>12 DEF Waits, StartsFindRest, StartsAreAlone, TicksForCurrent, Busy
      <3>2. VoiceStandsAside'
        BY <1>1, <2>6, <2>12, <3>1 DEF VoiceStandsAside, SessionInUse, Busy
      <3>3. StartsFindRest'
        BY <1>1, <2>1, <2>9, <2>11, <3>1 DEF StartsFindRest, Busy
      <3>4. ~Ending' /\ ~Ending
        BY <1>1, <3>1 DEF Ending, Saving
      <3>5. ClaimedIsRecorded'
        BY <1>1, <2>1, <2>8, <3>1, <3>4 DEF ClaimedIsRecorded, Claimed, Busy
      <3>6. EndedIsConverted'
        BY <1>1, <2>10, <3>4 DEF EndedIsConverted, Without
      <3>. QED
        BY <3>2, <3>3, <3>5, <3>6
    <2>13. CASE t \in Stops /\ pc[t] = "stopping"
      <3>1. /\ e = StopIntent /\ currentRecording # None /\ \A r \in Starts : ~Busy(r)
            /\ \A u \in Stops : Saving(u) => u = t
        BY <2>2, <2>13 DEF StopsAreAlone, StartsAreAlone, TicksForCurrent, Saving
      <3>2. VoiceStandsAside'
        BY <1>1, <2>6, <3>1 DEF VoiceStandsAside, SessionInUse
      <3>3. StartsFindRest'
        BY <1>1, <2>11, <3>1 DEF StartsFindRest, Busy
      <3>4. Ending' /\ ~Ending
        BY <1>1, <2>1, <2>13, <3>1 DEF Ending, Saving
      <3>5. ClaimedIsRecorded'
        BY <1>1, <2>8, <3>1, <3>4 DEF ClaimedIsRecorded, Claimed, Busy
      <3>6. EndedIsConverted'
        BY <1>1, <2>10, <3>4 DEF EndedIsConverted, Without, ClaimedIsRecorded, Claimed
      <3>. QED
        BY <3>2, <3>3, <3>5, <3>6
    <2>14. CASE t \in Inputs \/ (t \in Stops /\ pc[t] = "releasing")
      <3>1. ~SessionInUse /\ e \notin Starts
        BY <1>1, <2>2, <2>14 DEF Waits, VoiceStandsAside
      <3>2. VoiceStandsAside'
        BY <1>1, <2>7, <3>1 DEF VoiceStandsAside, SessionInUse, Busy, Saving
      <3>3. StartsFindRest'
        BY <1>1, <2>11, <3>1 DEF StartsFindRest, SessionInUse, Busy
      <3>4. ~Ending' /\ ~Ending
        BY <1>1, <3>1 DEF Ending, SessionInUse, Saving
      <3>5. ClaimedIsRecorded'
        BY <1>1, <2>8, <3>1, <3>4 DEF ClaimedIsRecorded, Claimed, SessionInUse, Busy
      <3>6. EndedIsConverted'
        BY <1>1, <2>10, <3>4 DEF EndedIsConverted, Without
      <3>. QED
        BY <3>2, <3>3, <3>5, <3>6
    <2>. QED
      BY <1>1, <2>12, <2>13, <2>14 DEF Waits
  <1>. QED
    BY <1>1, <1>2, <1>3 DEF HandleCall

\* While a session is recorded the next intent is a stop.
LEMMA ServesNoInput ==
  ASSUME Known, NEW q \in Starts, isRecording, path = q, intents # <<>>
  PROVE  Head(intents) = StopIntent
  <1>1. /\ Len(intents) \in Nat /\ Len(intents) > 0 /\ Head(intents) = intents[1]
        /\ intents[1] \in Files \cup {StopIntent}
    BY Dropped DEF Known, QueuesTyped
  <1>2. 1 \in 1 .. Len(intents)
    BY <1>1
  <1>3. intents[1] \notin Inputs
    BY <1>2 DEF Known, Settled, VoiceStandsAside, SessionInUse, Serves, Elements
  <1>4. intents[1] \notin Starts
    BY <1>2 DEF Known, Settled, StartsFindRest
  <1>. QED
    BY <1>1, <1>3, <1>4 DEF Files

\* What a step of the service that takes an intent does to the queue.
LEMMA IntentTaken ==
  ASSUME QueuesTyped, intents # <<>>, intents' = Tail(intents)
  PROVE  /\ Len(intents) \in Nat /\ Len(intents) > 0 /\ Head(intents) = intents[1]
         /\ Len(intents') = Len(intents) - 1
         /\ \A i \in 1 .. Len(intents) - 1 : intents'[i] = intents[i + 1]
         /\ intents' = <<>> <=> Len(intents) = 1
         /\ intents' # <<>> => intents'[Len(intents')] = intents[Len(intents)]
         /\ Elements(intents') \subseteq Elements(intents)
         /\ Elements(intents) = Elements(intents') \cup {Head(intents)}
  <1>1. /\ Len(intents) \in Nat /\ Len(intents) > 0 /\ Head(intents) = intents[1]
        /\ Len(intents') = Len(intents) - 1
        /\ \A i \in 1 .. Len(intents) - 1 : intents'[i] = intents[i + 1]
        /\ intents' = <<>> <=> Len(intents) = 1
    BY Dropped DEF QueuesTyped
  <1>2. intents' # <<>> => intents'[Len(intents')] = intents[Len(intents)]
    BY <1>1
  <1>3. Elements(intents') \subseteq Elements(intents)
    BY <1>1 DEF Elements
  <1>4. ASSUME NEW x \in Elements(intents), x # Head(intents)
        PROVE  x \in Elements(intents')
    <2>1. PICK i \in 1 .. Len(intents) : intents[i] = x
      BY DEF Elements
    <2>2. i - 1 \in 1 .. Len(intents') /\ intents'[i - 1] = x
      BY <1>1, <1>4, <2>1
    <2>. QED
      BY <2>2 DEF Elements
  <1>5. Head(intents) \in Elements(intents)
    <2>1. 1 \in 1 .. Len(intents)
      BY <1>1
    <2>. QED
      BY <1>1, <2>1 DEF Elements
  <1>. QED
    BY <1>1, <1>2, <1>3, <1>4, <1>5

\* What is behind the first intent finds what it found before.
LEMMA StartsStillFindRest ==
  ASSUME Known, intents # <<>>, intents' = Tail(intents),
         isRecording' => Head(intents) # StopIntent
  PROVE  (\A i \in 1 .. Len(intents) : intents[i] \in Starts =>
            IF i = 1 THEN ~isRecording ELSE intents[i - 1] = StopIntent)'
  <1>1. ASSUME NEW i \in 1 .. Len(intents'), intents'[i] \in Starts
        PROVE  IF i = 1 THEN ~isRecording' ELSE intents'[i - 1] = StopIntent
    <2>1. /\ Len(intents) \in Nat /\ Head(intents) = intents[1]
          /\ Len(intents') = Len(intents) - 1
          /\ \A j \in 1 .. Len(intents) - 1 : intents'[j] = intents[j + 1]
      BY IntentTaken DEF Known
    <2>2. i + 1 \in 1 .. Len(intents) /\ intents[i + 1] \in Starts /\ i + 1 # 1
      BY <1>1, <2>1
    <2>3. intents[i] = StopIntent
      BY <2>2 DEF Known, Settled, StartsFindRest
    <2>. QED
      BY <2>1, <2>3
  <1>. QED
    BY <1>1

\* The first intent is recorded, unless the service records an input.
LEMMA ServiceStartsSettles ==
  ASSUME Known, NEW f \in Files, ServiceStarts(f), Undisturbed', mishaps \subseteq mishaps'
  PROVE  Settled'
  <1>. USE SessionAssumption DEF Known, Settled, session, chat
  <1>1. /\ intents # <<>> /\ Head(intents) = f /\ intents' = Tail(intents) /\ main = "idle"
        /\ UNCHANGED <<pc, currentRecording, rows, answers, main, wav>>
        /\ f # StopIntent
    BY DEF ServiceStarts, Files
  <1>2. /\ Len(intents) \in Nat /\ Len(intents) > 0 /\ intents[1] = f
        /\ Len(intents') = Len(intents) - 1
        /\ \A i \in 1 .. Len(intents) - 1 : intents'[i] = intents[i + 1]
        /\ intents' = <<>> <=> Len(intents) = 1
        /\ intents' # <<>> => intents'[Len(intents')] = intents[Len(intents)]
        /\ Elements(intents') \subseteq Elements(intents) /\ f \in Elements(intents)
    BY <1>1, IntentTaken
  <1>3. Accepted' = Accepted /\ (Ending' <=> Ending)
    BY <1>1 DEF Accepted, Ending
  <1>4. f \in Starts => ~isRecording
    <2>1. 1 \in 1 .. Len(intents)
      BY <1>2
    <2>. QED
      BY <1>2, <2>1 DEF StartsFindRest
  <1>5. \/ isRecording /\ path \notin Starts /\ UNCHANGED <<isRecording, path>>
        \/ ~isRecording /\ isRecording' /\ path' = f
    <2>1. CASE isRecording
      BY <1>1, <2>1, ServesNoInput DEF ServiceStarts
    <2>2. CASE ~isRecording
      BY <2>2 DEF ServiceStarts, Fails, Mishaps, Undisturbed, Without
    <2>. QED
      BY <2>1, <2>2
  <1>6. (Serves(Inputs)' => Serves(Inputs)) /\ (Serves(Starts)' => Serves(Starts))
    BY <1>1, <1>2, <1>5 DEF Serves, Files
  <1>7. \A q \in Starts : Recorded(q)' <=> Recorded(q)
    BY <1>1, <1>2, <1>4, <1>5 DEF Recorded
  <1>8. Quiet => Quiet'
    BY <1>1, <1>2 DEF Quiet
  <1>9. ASSUME NEW q \in Starts, IsConverted(q)
        PROVE  IsConverted(q)'
    <2>1. CASE wav[q] = "complete"
      BY <1>1, <2>1 DEF IsConverted
    <2>2. CASE \E i \in 1 .. Len(intents) : i < Len(intents) /\ intents[i] = q
      <3>1. PICK i \in 1 .. Len(intents) : i < Len(intents) /\ intents[i] = q
        BY <2>2
      <3>2. CASE i = 1
        BY <1>2, <1>4, <1>5, <3>1, <3>2 DEF IsConverted
      <3>3. CASE i # 1
        <4>1. i - 1 \in 1 .. Len(intents') /\ i - 1 < Len(intents') /\ intents'[i - 1] = q
          BY <1>2, <3>1, <3>3
        <4>. QED
          BY <4>1 DEF IsConverted
      <3>. QED
        BY <3>2, <3>3
    <2>. QED
      BY <1>1, <1>5, <1>9, <2>1, <2>2 DEF IsConverted
  <1>10. VoiceStandsAside'
    BY <1>1, <1>6 DEF VoiceStandsAside, SessionInUse, Busy, Saving
  <1>11. StartsFindRest'
    BY <1>1, <1>3, <1>8, StartsStillFindRest DEF StartsFindRest, Busy
  <1>12. ClaimedIsRecorded'
    BY <1>1, <1>3, <1>7 DEF ClaimedIsRecorded, Claimed
  <1>13. EndedIsConverted'
    BY <1>1, <1>3, <1>9 DEF EndedIsConverted, Without
  <1>. QED
    BY <1>10, <1>11, <1>12, <1>13

\* What was recorded is converted from here on.
LEMMA ServiceStopsSettles ==
  ASSUME Known, ServiceStops, mishaps \subseteq mishaps'
  PROVE  Settled'
  <1>. USE SessionAssumption DEF Known, Settled, session, chat, files
  <1>1. /\ intents # <<>> /\ Head(intents) = StopIntent /\ intents' = Tail(intents)
        /\ main = "idle" /\ ~isRecording' /\ (isRecording => main' = "join")
        /\ UNCHANGED <<pc, currentRecording, rows, answers, path, wav>>
    BY DEF ServiceStops
  <1>2. /\ Len(intents) \in Nat /\ Len(intents) > 0 /\ intents[1] = StopIntent
        /\ Len(intents') = Len(intents) - 1
        /\ \A i \in 1 .. Len(intents) - 1 : intents'[i] = intents[i + 1]
        /\ intents' = <<>> <=> Len(intents) = 1
        /\ intents' # <<>> => intents'[Len(intents')] = intents[Len(intents)]
        /\ Elements(intents') \subseteq Elements(intents)
    BY <1>1, IntentTaken
  <1>3. Accepted' = Accepted /\ (Ending' <=> Ending)
    BY <1>1 DEF Accepted, Ending
  <1>4. (Serves(Inputs)' => Serves(Inputs)) /\ (Serves(Starts)' => Serves(Starts))
    BY <1>1, <1>2 DEF Serves
  <1>5. \A q \in Starts : Recorded(q)' <=> Recorded(q)
    BY <1>1, <1>2 DEF Recorded
  <1>6. Quiet => Quiet'
    BY <1>1, <1>2 DEF Quiet
  <1>7. ASSUME NEW q \in Starts, IsConverted(q)
        PROVE  IsConverted(q)'
    <2>1. CASE \E i \in 1 .. Len(intents) : i < Len(intents) /\ intents[i] = q
      <3>1. PICK i \in 1 .. Len(intents) : i < Len(intents) /\ intents[i] = q
        BY <2>1
      <3>2. i # 1
        BY <1>2, <3>1
      <3>3. i - 1 \in 1 .. Len(intents') /\ i - 1 < Len(intents') /\ intents'[i - 1] = q
        BY <1>2, <3>1, <3>2
      <3>. QED
        BY <3>3 DEF IsConverted
    <2>. QED
      BY <1>1, <1>7, <2>1 DEF IsConverted
  <1>8. VoiceStandsAside'
    BY <1>1, <1>4 DEF VoiceStandsAside, SessionInUse, Busy, Saving
  <1>9. StartsFindRest'
    BY <1>1, <1>3, <1>6, StartsStillFindRest DEF StartsFindRest, Busy
  <1>10. ClaimedIsRecorded'
    BY <1>1, <1>3, <1>5 DEF ClaimedIsRecorded, Claimed
  <1>11. EndedIsConverted'
    BY <1>1, <1>3, <1>7 DEF EndedIsConverted, Without
  <1>. QED
    BY <1>8, <1>9, <1>10, <1>11

\* The service joins, converts and deletes.
LEMMA ConversionSettles ==
  ASSUME Known, EndJoin \/ ConvertPcmToWav \/ DeletePcm, Undisturbed', mishaps \subseteq mishaps'
  PROVE  Settled'
  <1>. USE SessionAssumption
       DEF Known, Settled, session, chat, files, queues, Undisturbed, Without, Fails, Mishaps
  <1>1. /\ UNCHANGED <<pc, currentRecording, rows, answers, intents, isRecording, path>>
        /\ main \in {"join", "convert"} => main' = "convert" \/ wav'[path] = "complete"
                                                       \/ "conversion" \in mishaps'
        /\ \A q \in Starts : wav[q] = "complete" => wav'[q] = "complete"
    <2>1. CASE EndJoin
      BY <2>1 DEF EndJoin
    <2>2. CASE DeletePcm
      BY <2>2 DEF DeletePcm
    <2>3. CASE ConvertPcmToWav
      BY <2>3 DEF ConvertPcmToWav, ServiceInv, ServiceTyped, WorkIsOnDisk, Files
    <2>. QED
      BY <2>1, <2>2, <2>3
  <1>2. Accepted' = Accepted /\ (Ending' <=> Ending)
    BY <1>1 DEF Accepted, Ending
  <1>3. VoiceStandsAside'
    BY <1>1 DEF VoiceStandsAside, SessionInUse, Serves, Busy, Saving
  <1>4. StartsFindRest'
    BY <1>1, <1>2 DEF StartsFindRest, Quiet, Busy
  <1>5. ClaimedIsRecorded'
    BY <1>1, <1>2 DEF ClaimedIsRecorded, Claimed, Recorded
  <1>6. EndedIsConverted'
    BY <1>1, <1>2 DEF EndedIsConverted, IsConverted
  <1>. QED
    BY <1>3, <1>4, <1>5, <1>6

\* All actions, as long as none of the excluded mishaps has occurred.
LEMMA NextSettles ==
  ASSUME Known, [Next]_vars, Undisturbed'
  PROVE  Settled'
  <1>. USE SessionAssumption
  <1>1. mishaps \subseteq mishaps'
    BY MishapsRemain
  <1>2. CASE User
    <2>1. CASE (\E v \in Inputs : PressMicrophone(v)) \/ LeaveChat \/ RebuildHome
      BY <1>1, <2>1, SettledAside
      DEF PressMicrophone, LeaveChat, RebuildHome, Goto, Accepted, session, queues, service, files,
          Known, SessionInv, SessionTyped, Tasks, Files
    <2>. QED
      BY <1>1, <1>2, <2>1, StartRecordingSettles, StopRecordingSettles, ReleaseMicrophoneSettles
      DEF User
  <1>3. CASE Isolate
    <2>1. CASE \E q \in Starts : LocationKnown(q) \/ StartAnswered(q)
      BY <1>1, <2>1, LocationKnownSettles, StartAnsweredSettles
    <2>2. CASE \E t \in Stops : StopAnswered(t) \/ InsertRow(t)
      BY <1>1, <2>2, StopAnsweredSettles, InsertRowSettles
    <2>3. CASE \E t \in Stops : ReleaseAnswered(t)
      BY <1>1, <2>3, AnswerTaken, SettledAside
      DEF ReleaseAnswered, Goto, Releasing, session, service, files, Known, SessionInv,
          SessionTyped, Tasks, Files
    <2>4. CASE \E v \in Inputs : VoiceAnswered(v)
      BY <1>1, <2>4, AnswerTaken, SettledAside
      DEF VoiceAnswered, Goto, session, service, files, Known, SessionInv,
          SessionTyped, Tasks, Files
    <2>5. CASE \E t \in Stops : EndVoice(t)
      BY <1>1, <2>5, SettledAside
      DEF EndVoice, Goto, Releasing, Accepted, session, queues, service, Known, SessionInv,
          SessionTyped, ServiceInv, ServiceTyped, Tasks, Files
    <2>6. CASE \E v \in Inputs : PermissionKnown(v)
      BY <1>1, <2>6, SettledAside
      DEF PermissionKnown, Goto, Accepted, session, queues, service, files, Known, SessionInv,
          SessionTyped, Tasks, Files
    <2>. QED
      BY <1>1, <1>3, <2>1, <2>2, <2>3, <2>4, <2>5, <2>6, StartVoiceSettles DEF Isolate
  <1>4. CASE MainThread
    BY <1>1, <1>4, HandleCallSettles, ServiceStartsSettles, ServiceStopsSettles, ConversionSettles
    DEF MainThread
  <1>5. CASE Tick \/ Rest \/ (\E f \in Files : Recorder(f)) \/ UNCHANGED vars
    BY <1>1, <1>5, SettledAside
    DEF Tick, Rest, Recorder, TestFlag, RecordAudio, Accepted, vars, session, queues, service, files
  <1>6. CASE EngineDies \/ ProcessDies
    BY <1>6 DEF EngineDies, ProcessDies, Fails, Mishaps, Undisturbed, Without
  <1>. QED
    BY <1>2, <1>3, <1>4, <1>5, <1>6 DEF Next

\* CallsAreWaitedFor holds whatever happens, SidesInv is about sessions that are undisturbed.
LEMMA SidesInvariant == Spec =>
  [](SessionInv /\ ServiceInv /\ QueuesTyped /\ CallsAreWaitedFor /\ SidesInv)
  <1>1. ASSUME Init
        PROVE  QueuesTyped /\ CallsAreWaitedFor /\ SidesInv
    <2>. USE <1>1 DEF Init
    <2>1. Len(answers) = 0 /\ Len(channel) = 0 /\ Len(intents) = 0 /\ QueuesTyped
      BY EmptySeq DEF QueuesTyped
    <2>2. CallsAreWaitedFor
      BY <2>1 DEF CallsAreWaitedFor
    <2>3. VoiceStandsAside /\ StartsFindRest
      BY <2>1, SessionAssumption
      DEF VoiceStandsAside, SessionInUse, Serves, Elements, StartsFindRest, Quiet, Busy, Saving,
          Tasks, Files
    <2>4. ClaimedIsRecorded /\ EndedIsConverted
      BY <2>1, SessionAssumption
      DEF ClaimedIsRecorded, Claimed, Recorded, EndedIsConverted, Tasks, Files
    <2>. QED
      BY <2>1, <2>2, <2>3, <2>4 DEF SidesInv
  <1>2. ASSUME SessionInv, ServiceInv, QueuesTyped, CallsAreWaitedFor, SidesInv, [Next]_vars
        PROVE  QueuesTyped' /\ CallsAreWaitedFor' /\ SidesInv'
    <2>1. QueuesTyped' /\ CallsAreWaitedFor'
      BY <1>2, QueuesStayTyped, NextKeepsCalls DEF SessionInv
    <2>2. ASSUME Undisturbed'
          PROVE  Settled'
      <3>1. Undisturbed
        BY <1>2, <2>2, MishapsRemain DEF Undisturbed, Without
      <3>. QED
        BY <1>2, <2>2, <3>1, NextSettles DEF Known, Settled, SidesInv
    <2>. QED
      BY <2>1, <2>2 DEF SidesInv, Settled
  <1>. QED
    BY <1>1, <1>2, SessionInvariant, ServiceInvariant, PTL DEF Spec

\* RowHasAudio: a row that _finalizeRecording saved on the answer "true" of the channel has its
\* WAV once the service has served its queue.
THEOREM SavedRowHasAudio == Spec => []RowHasAudio
  <1>1. SidesInv => RowHasAudio
    <2>. SUFFICES ASSUME SidesInv, AtRest, Undisturbed,
                         Without({"conversion"}), NEW q \in Starts, rows[q] > 0
                  PROVE  wav[q] = "complete"
      BY DEF RowHasAudio, Undisturbed, Without
    <2>1. IsConverted(q)
      BY DEF SidesInv, EndedIsConverted
    <2>. QED
      BY <2>1, EmptySeq DEF IsConverted, AtRest
  <1>. QED
    BY <1>1, SidesInvariant, PTL

\* Without failures of channel and table a start ticks until it is stopped.
LEMMA ShownStaysCurrent ==
  ASSUME SessionInv, QueuesTyped, CallsAreWaitedFor, ShownIsCurrent, [Next]_vars
  PROVE  ShownIsCurrent'
  <1>. USE SessionAssumption DEF Without
  <1>. SUFFICES ASSUME Without({"twoStarts", "twoStops", "channel", "table"})'
                PROVE  /\ \A i \in 1 .. Len(answers') : answers'[i].ok
                       /\ shown' => currentRecording' # None
                       /\ currentRecording' # None => ticking' # {} \/ \E t \in Stops : Saving(t)'
    BY DEF ShownIsCurrent
  <1>1. /\ \A i \in 1 .. Len(answers) : answers[i].ok
        /\ shown => currentRecording # None
        /\ currentRecording # None => ticking # {} \/ \E t \in Stops : Saving(t)
        /\ Without({"twoStarts", "twoStops", "channel", "table"})
    BY MishapsRemain DEF ShownIsCurrent
  <1>2. \A i \in 1 .. Len(answers') : answers'[i].ok
    <2>1. CASE HandleCall
      <3>1. PICK t \in Tasks : answers' = Append(answers, [to |-> t, ok |-> TRUE])
        BY <2>1, HeadTailProperties DEF HandleCall, Fails, Mishaps, QueuesTyped
      <3>. DEFINE a == [to |-> t, ok |-> TRUE]
      <3>2. a \in [to : Tasks, ok : BOOLEAN] /\ a.ok
        OBVIOUS
      <3>. HIDE DEF a
      <3>3. /\ Len(answers) \in Nat /\ Len(answers') = Len(answers) + 1
            /\ \A i \in 1 .. Len(answers) : answers'[i] = answers[i]
            /\ answers'[Len(answers) + 1] = a
        BY <3>1, <3>2, Appended DEF QueuesTyped, a
      <3>. QED
        BY <1>1, <3>2, <3>3
    <2>2. CASE answers # <<>> /\ answers' = Tail(answers)
      BY <1>1, <2>2, Dropped DEF QueuesTyped
    <2>3. CASE answers' = answers \/ answers' = <<>>
      BY <1>1, <2>3
    <2>4. HandleCall \/ (answers # <<>> /\ answers' = Tail(answers)) \/ answers' = answers
          \/ answers' = <<>>
      BY DEF Next, vars, session, User, Isolate, Tick, MainThread, Rest, Recorder, StartRecording,
         LocationKnown, StartAnswered, InsertRow, TakeAnswer,
         StopRecording, StopAnswered, PressMicrophone, PermissionKnown, StartVoice,
         VoiceAnswered, ReleaseMicrophone, ReleaseAnswered, EndVoice, LeaveChat, RebuildHome,
         ServiceStarts, ServiceStops, EndJoin, ConvertPcmToWav, DeletePcm, TestFlag,
         RecordAudio, EngineDies, ProcessDies, LoseIsolate, files, chat, queues, service
    <2>. QED
      BY <2>1, <2>2, <2>3, <2>4
  <1>3. CASE \E q \in Starts : StartAnswered(q)
    BY <1>1, <1>2, <1>3 DEF StartAnswered, SessionInv, SessionTyped, Saving, Goto, Tasks, Files
  <1>4. CASE \E t \in Stops : StopRecording(t)
    BY <1>1, <1>2, <1>4 DEF StopRecording, SessionInv, SessionTyped, Saving, Goto, Tasks, Files
  <1>5. CASE \E t \in Stops : StopAnswered(t)
    <2>1. PICK t \in Stops : StopAnswered(t)
      BY <1>5
    <2>2. Succeeded
      <3>1. Len(answers) \in Nat /\ Len(answers) > 0 /\ Head(answers) = answers[1]
        BY <2>1, Dropped DEF StopAnswered, TakeAnswer, QueuesTyped
      <3>2. 1 \in 1 .. Len(answers)
        BY <3>1
      <3>. QED
        BY <1>1, <3>1, <3>2 DEF Succeeded
    <2>3. currentRecording # None
      BY <2>1, <1>1 DEF StopAnswered, SessionInv, TicksForCurrent, Saving
    <2>. QED
      BY <1>1, <1>2, <2>1, <2>2, <2>3
      DEF StopAnswered, SessionInv, SessionTyped, Saving, Goto, Tasks, Files
  <1>6. CASE \E t \in Stops : InsertRow(t)
    BY <1>1, <1>2, <1>6 DEF InsertRow, Fails, Mishaps
  <1>7. CASE Tick \/ RebuildHome
    BY <1>1, <1>2, <1>7 DEF Tick, RebuildHome, SessionInv, TicksForCurrent, Saving
  <1>8. CASE EngineDies \/ ProcessDies
    BY <1>2, <1>8 DEF EngineDies, ProcessDies, LoseIsolate
  <1>9. CASE \/ \E v \in Inputs : PressMicrophone(v) \/ PermissionKnown(v) \/ StartVoice(v)
                                \/ VoiceAnswered(v)
             \/ \E t \in Stops : ReleaseAnswered(t) \/ EndVoice(t)
             \/ ReleaseMicrophone \/ LeaveChat
             \/ \E q \in Starts : StartRecording(q) \/ LocationKnown(q)
    <2>1. UNCHANGED <<shown, currentRecording, ticking>>
      BY <1>9
      DEF StartRecording, LocationKnown, PressMicrophone, PermissionKnown, StartVoice,
          VoiceAnswered, ReleaseMicrophone, ReleaseAnswered, EndVoice, LeaveChat, session
    <2>2. \A t \in Stops : Saving(t) => Saving(t)'
      BY <1>9
      DEF StartRecording, LocationKnown, PressMicrophone, PermissionKnown, StartVoice, Saving,
          VoiceAnswered, ReleaseMicrophone, ReleaseAnswered, EndVoice, LeaveChat, Goto, SessionInv,
          SessionTyped, Tasks, Files
    <2>. QED
      BY <1>1, <1>2, <2>1, <2>2
  <1>10. CASE MainThread \/ Rest \/ (\E f \in Files : Recorder(f)) \/ UNCHANGED vars
    <2>1. UNCHANGED <<shown, currentRecording, ticking, pc>>
      BY <1>10
      DEF MainThread, HandleCall, ServiceStarts, ServiceStops, EndJoin, ConvertPcmToWav, DeletePcm,
          Rest, Recorder, TestFlag, RecordAudio, vars, session
    <2>. QED
      BY <1>1, <1>2, <2>1 DEF Saving
  <1>. QED
    BY <1>3, <1>4, <1>5, <1>6, <1>7, <1>8, <1>9, <1>10 DEF Next, User, Isolate

\* SidesAgree: when nothing is under way, isolate, home screen and service agree on whether a
\* recording runs and on its file, though they only exchange messages.
THEOREM SidesAlwaysAgree == Spec => []SidesAgree
  <1>1. Init => ShownIsCurrent
    BY DEF Init, ShownIsCurrent
  <1>2. SessionInv /\ SidesInv /\ ShownIsCurrent => SidesAgree
    <2>. SUFFICES ASSUME SessionInv, SidesInv, ShownIsCurrent, AtRest,
                         Without({"twoStarts", "twoStops", "voice", "channel", "table",
                                  "service", "engine"})
                  PROVE  /\ shown => currentRecording # None
                         /\ currentRecording # None => shown \/ ticking # {}
                         /\ currentRecording # None => isRecording /\ path = currentRecording
                         /\ isRecording /\ path \in Starts => path = currentRecording
      BY DEF SidesAgree
    <2>1. ClaimedIsRecorded
      BY DEF SidesInv, Undisturbed, Without
    <2>2. \A t \in Stops : ~Saving(t)
      BY DEF AtRest, Busy, Saving, Tasks
    <2>3. ~Ending /\ \A q \in Starts : Claimed(q) <=> currentRecording = q
      BY <2>2 DEF Ending, Saving, Claimed, AtRest, Busy, Tasks, Files
    <2>4. \A q \in Starts : Recorded(q) <=> isRecording /\ path = q
      BY DEF AtRest, Recorded
    <2>5. (shown => currentRecording # None) /\ (currentRecording # None => ticking # {})
      BY <2>2 DEF ShownIsCurrent, Without
    <2>. QED
      BY <2>1, <2>3, <2>4, <2>5 DEF ClaimedIsRecorded, SessionInv, SessionTyped
  <1>. QED
    BY <1>1, <1>2, ShownStaysCurrent, SidesInvariant, PTL DEF Spec

=============================================================================
