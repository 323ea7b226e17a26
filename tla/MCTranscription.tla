--------------------------- MODULE MCTranscription ---------------------------
(* Model checking of Transcription: the configuration gives the constants *)
(* their values.                                                          *)
EXTENDS Transcription
=============================================================================
