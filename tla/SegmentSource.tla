---------------------------- MODULE SegmentSource ----------------------------
(***************************************************************************)
(* What the native recorder (BackgroundRecordingService.kt) promises to    *)
(* the Dart library (recording_service.dart): the three things they share. *)
(*                                                                         *)
(*   wav        the segment files voice_<second>.wav of the recording      *)
(*              directory, each absent, being written (or left truncated), *)
(*              complete, or gone (deleted)                                *)
(*   manifest   background_segments.json: a set of segments, no file, or a *)
(*              file whose JSON does not parse                             *)
(*   broadcasts SEGMENT_SAVED broadcasts sent and not yet delivered        *)
(*                                                                         *)
(* BackgroundRecorder implements this specification; SegmentLibrary is     *)
(* checked against it, so it assumes nothing else of the recorder.         *)
(***************************************************************************)
EXTENDS Naturals, FiniteSets

CONSTANTS
  Segments,   \* the segments a run may record; a segment stands for its file name
  NoFile,     \* the manifest file does not exist
  Torn        \* the manifest exists and does not parse

ASSUME ManifestValues ==
  /\ NoFile # Torn
  /\ \A m \in SUBSET Segments : m # NoFile /\ m # Torn

VARIABLES wav, manifest, broadcasts

interface == <<wav, manifest, broadcasts>>

WavStates == {"absent", "partial", "complete", "gone"}

InterfaceTypeOK ==
  /\ wav \in [Segments -> WavStates]
  /\ manifest \in {NoFile, Torn} \cup SUBSET Segments
  /\ broadcasts \in [Segments -> Nat]

\* The segments a parser finds in a manifest value.
Entries(m) == IF m \in {NoFile, Torn} THEN {} ELSE m

\* Segments whose file was created at some time.
Created == {s \in Segments : wav[s] # "absent"}

-----------------------------------------------------------------------------

SourceInit ==
  /\ wav = [s \in Segments |-> "absent"]
  /\ manifest = NoFile
  /\ broadcasts = [s \in Segments |-> 0]

\* FileOutputStream(wavFile) creates the file, or truncates the one there is.
WriteWav(s) ==
  /\ wav[s] # "gone"
  /\ wav' = [wav EXCEPT ![s] = "partial"]
  /\ UNCHANGED <<manifest, broadcasts>>

FinishWav(s) ==
  /\ wav[s] = "partial"
  /\ wav' = [wav EXCEPT ![s] = "complete"]
  /\ UNCHANGED <<manifest, broadcasts>>

\* The flush replaces the manifest: it may add segments whose file was
\* created and may lose entries, and the non-atomic replacement removes the
\* file for a while.
ReplaceManifest ==
  /\ \E m \in {NoFile} \cup SUBSET Created : manifest' = m
  /\ UNCHANGED <<wav, broadcasts>>

\* A broadcast names a segment whose file was created.
Announce(s) ==
  /\ s \in Created
  /\ broadcasts' = [broadcasts EXCEPT ![s] = @ + 1]
  /\ UNCHANGED <<wav, manifest>>

\* cleanupOldRecordings deletes files past the retention period; it knows
\* neither the database nor the manifest.
RemoveOld ==
  /\ \E old \in SUBSET Created :
       wav' = [s \in Segments |-> IF s \in old THEN "gone" ELSE wav[s]]
  /\ UNCHANGED <<manifest, broadcasts>>

\* The process dies with every broadcast it has not delivered.
LoseBroadcasts ==
  /\ broadcasts' = [s \in Segments |-> 0]
  /\ UNCHANGED <<wav, manifest>>

SourceNext ==
  \/ \E s \in Segments : WriteWav(s) \/ FinishWav(s) \/ Announce(s)
  \/ ReplaceManifest
  \/ RemoveOld
  \/ LoseBroadcasts

SourceSpec == SourceInit /\ [][SourceNext]_interface

=============================================================================
