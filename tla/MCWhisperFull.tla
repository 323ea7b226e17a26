--------------------------- MODULE MCWhisperFull ---------------------------
(***************************************************************************)
(* Calls as the application makes them, and one of each other kind.        *)
(***************************************************************************)
EXTENDS WhisperFull

MCText == -2
MCEot == -1
MCTemperatures == <<[sampled |-> FALSE, history |-> TRUE], [sampled |-> TRUE, history |-> FALSE]>>

\* whisper_jni.cpp: the defaults of the greedy strategy.
AppCall ==
  [beam |-> FALSE, best_of |-> 2, beam_size |-> 0, no_context |-> TRUE, carry |-> FALSE,
   prompt_n_tokens |-> 0, n_max_text_ctx |-> 20, no_timestamps |-> FALSE, single_segment |-> FALSE,
   max_tokens |-> 0, n_init |-> 3, past0 |-> 0, past1 |-> 9, seek_end |-> 6]

\* The most positions: a full context and all the tokens of prompt_init.
LongContext ==
  [AppCall EXCEPT !.no_context = FALSE, !.no_timestamps = TRUE, !.n_init = 4, !.best_of = 1]

\* Beams, with a prompt that every chunk gets; only one decoder once t > 0.
BeamCall ==
  [AppCall EXCEPT !.beam = TRUE, !.best_of = 1, !.beam_size = 2, !.carry = TRUE,
                  !.prompt_n_tokens = 9, !.seek_end = 3]

\* The prompt of the call before is kept instead of this one's.
SecondBeamCall == [BeamCall EXCEPT !.no_context = FALSE, !.past0 = 5, !.prompt_n_tokens = 2]

ShortSegments == [AppCall EXCEPT !.single_segment = TRUE, !.max_tokens = 1, !.prompt_n_tokens = 1]
NoAudio == [AppCall EXCEPT !.seek_end = 0]

Calls == {AppCall, LongContext, BeamCall, SecondBeamCall, ShortSegments, NoAudio}
=============================================================================
