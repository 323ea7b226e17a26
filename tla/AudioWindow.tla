---------------------------- MODULE AudioWindow ----------------------------
(***************************************************************************)
(* What whisper_full does with the audio, seen from outside: a window of   *)
(* one chunk moves over it, always forward, and every time it moves the    *)
(* segments found in it join the transcript.                               *)
(***************************************************************************)
EXTENDS Integers, Sequences

CONSTANTS Chunk, DeltaMin

VARIABLES
  seek,      \* where the window begins, in frames
  seekEnd,   \* where the audio ends
  segments   \* the ends of the latest segments, the last one of the earlier chunks first

windowVars == <<seek, seekEnd, segments>>

WindowInit == seek = 0 /\ seekEnd \in Nat /\ segments = <<0>>

Over == seek + DeltaMin >= seekEnd

\* No segment ends before the one before it or beyond the chunk; when there is more audio,
\* the next chunk begins where the segments of this one have ended or later.
MoveWindow ==
  /\ ~Over
  /\ \E step \in 1 .. Chunk : seek' = seek + step
  /\ segments'[1] = segments[Len(segments)]
  /\ \A k \in 2 .. Len(segments') : segments'[k - 1] <= segments'[k]
  /\ \A k \in 2 .. Len(segments') : segments'[k] \in seek .. seek + Chunk
  /\ Over' \/ segments'[Len(segments')] <= seek'
  /\ UNCHANGED seekEnd

WindowSpec == WindowInit /\ [][MoveWindow]_windowVars
=============================================================================
