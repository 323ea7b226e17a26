---------------------------- MODULE WhisperFull ----------------------------
(***************************************************************************)
(* One call of whisper_full_with_state: the audio is decoded chunk after   *)
(* chunk, each with one or several decoders that share a KV cache, and     *)
(* again at a higher temperature when that fails.  What the network        *)
(* computes is left open: a token is any that the filters of               *)
(* whisper_process_logits let pass, a score or a probability is whatever   *)
(* makes a test true or false.                                             *)
(***************************************************************************)
EXTENDS KVCache, SequencesExt

CONSTANTS
  ParamSets,       \* the parameters and the audio of the calls
  Temperatures,    \* a sequence: [sampled (t > 0), history (t < 0.5)]
  NTextCtx,        \* n_text_ctx of the model, 448
  KVPad,           \* n_text_ctx rounded up to a multiple of 256
  MaxTs,           \* the last timestamp token, 1500: one stands for two frames
  MaxInitialTs,    \* max_initial_ts as a token, 50
  DeltaMin,        \* 10 frames
  ShortRest,       \* 500 frames
  EntropyLen,      \* 32 tokens
  Text, Eot        \* the other tokens; timestamps are 0 (token_beg) .. MaxTs

Chunk == 2 * MaxTs                    \* 100 * WHISPER_CHUNK_SIZE frames
NMax == NTextCtx \div 2 - 4           \* tokens of one decoding
MaxDecoders == 8                      \* WHISPER_MAX_DECODERS
Tokens == {Text, Eot} \union 0 .. MaxTs

ASSUME WhisperAssumption ==
  /\ NTextCtx \in Nat /\ NTextCtx >= 12 /\ KVPad \in Nat /\ KVPad >= NTextCtx
  /\ MaxTs \in Nat \ {0} /\ MaxInitialTs \in Nat /\ EntropyLen \in Nat
  /\ DeltaMin \in Nat \ {0} /\ ShortRest \in Nat
  /\ Text \in Int /\ Text < 0 /\ Eot \in Int /\ Eot < 0 /\ Text # Eot
  /\ Temperatures \in Seq([sampled : BOOLEAN, history : BOOLEAN]) /\ Temperatures # <<>>

\* strategy, greedy.best_of, beam_search.beam_size, no_context, carry_initial_prompt,
\* prompt_n_tokens, n_max_text_ctx, no_timestamps, single_segment, max_tokens, the number of
\* tokens in prompt_init, what an earlier call on the same state has left of its prompt (past0)
\* and of its context (past1), and the frames of the audio. More than MaxDecoders decoders are
\* refused. A kept prompt needs room beside the prev token: the code cuts a new one to that, and
\* the assumption on past0 is that n_max_text_ctx is not lowered from one call to the next.
ASSUME ParamsAssumption ==
  \A p \in ParamSets :
    /\ p.beam \in BOOLEAN /\ p.best_of \in 0 .. MaxDecoders /\ p.beam_size \in 0 .. MaxDecoders
    /\ p.no_context \in BOOLEAN /\ p.carry \in BOOLEAN
    /\ p.prompt_n_tokens \in Nat /\ p.n_max_text_ctx \in Nat
    /\ p.carry => p.n_max_text_ctx > 1
    /\ p.past0 \in Nat
    /\ p.carry => p.past0 = 0 \/ (p.past0 < p.n_max_text_ctx /\ p.past0 < NTextCtx \div 2)
    /\ p.no_timestamps \in BOOLEAN /\ p.single_segment \in BOOLEAN /\ p.max_tokens \in Nat
    /\ p.n_init \in 1 .. 4 /\ p.past1 \in Nat /\ p.seek_end \in Nat

VARIABLES
  pc, ret,
  params,
  seek,
  past0, past1,    \* how many tokens prompt_past0 and prompt_past1 hold
  best,            \* best_decoder_id
  it,              \* the temperature, counted from 1
  prompt,          \* [prev, take0, take1]: tokens of each part before prompt_init
  i,
  decoders,
  kv, kv_self_n_dec,
  result_all       \* the ends of the segments: of this chunk, and the last one before it

vars == <<pc, ret, params, seek, past0, past1, best, it, prompt, i, decoders, kv, kv_self_n_dec,
          result_all>>

Window == INSTANCE AudioWindow WITH seekEnd <- params.seek_end, segments <- result_all

Less(m, n) == IF m < n THEN m ELSE n
More(m, n) == IF m > n THEN m ELSE n

\* The members of a set of numbers, the smallest first.
InOrder(S) ==
  CHOOSE s \in [1 .. Cardinality(S) -> S] : \A k, l \in 1 .. Cardinality(S) : k < l => s[k] < s[l]

FreshDecoder ==
  [tokens |-> <<>>, result_len |-> 0, seek_delta |-> Chunk,
   failed |-> FALSE, completed |-> FALSE, has_ts |-> FALSE]

Init ==
  /\ pc = "called" /\ ret = 0
  /\ params \in ParamSets
  /\ seek = 0
  /\ past0 = params.past0 /\ past1 = params.past1
  /\ best = 0 /\ it = 1 /\ i = 0
  /\ prompt = [prev |-> 0, take0 |-> 0, take1 |-> 0]
  /\ decoders = [j \in 0 .. MaxDecoders - 1 |-> FreshDecoder]
  /\ kv = NewCache(KVPad) /\ kv_self_n_dec = 1
  /\ result_all = <<0>>

Return(code) == pc' = "returned" /\ ret' = code

-----------------------------------------------------------------------------
(***************************************************************************)
(* Before the loop: audio that is too short, and the prompt, either kept   *)
(* for every chunk (past0) or put before what was decoded (past1).         *)
(***************************************************************************)

\* Mutant: the parameter alone, 16384 by default, limits the prompt.
UnlimitedPrompt == params.n_max_text_ctx

MaxPrompt == Less(params.n_max_text_ctx, NTextCtx \div 2)

TooShort ==
  /\ pc = "called" /\ params.seek_end < DeltaMin
  /\ Return(0)
  /\ UNCHANGED <<params, seek, past0, past1, best, it, prompt, i, decoders, kv, kv_self_n_dec, result_all>>

PreparePrompt ==
  /\ pc = "called" /\ params.seek_end >= DeltaMin
  /\ LET kept0 == IF params.no_context THEN 0 ELSE past0
         kept1 == IF params.no_context THEN 0 ELSE past1
         new   == Less(params.prompt_n_tokens, More(1, MaxPrompt - 1))
     IN  IF params.carry
           THEN past0' = (IF kept0 > 0 THEN kept0 ELSE new) /\ past1' = kept1
           ELSE past0' = kept0 /\ past1' = kept1 + params.prompt_n_tokens
  /\ pc' = "chunk"
  /\ UNCHANGED <<ret, params, seek, best, it, prompt, i, decoders, kv, kv_self_n_dec, result_all>>

-----------------------------------------------------------------------------
(***************************************************************************)
(* The head of the main loop.                                              *)
(***************************************************************************)

AtEnd == seek + DeltaMin >= params.seek_end

Finish ==
  /\ pc = "chunk" /\ AtEnd
  /\ Return(0)
  /\ UNCHANGED <<params, seek, past0, past1, best, it, prompt, i, decoders, kv, kv_self_n_dec, result_all>>

EncodeChunk ==
  /\ pc = "chunk" /\ ~AtEnd
  /\ IF seek > 0 /\ seek + ShortRest >= params.seek_end
       THEN past0' = 0 /\ past1' = 0
       ELSE UNCHANGED <<past0, past1>>
  /\ best' = 0 /\ it' = 1
  /\ pc' = "attempt"
  /\ UNCHANGED <<ret, params, seek, prompt, i, decoders, kv, kv_self_n_dec, result_all>>

EncodeFails ==
  /\ pc = "chunk" /\ ~AtEnd
  /\ Return(-6)
  /\ UNCHANGED <<params, seek, past0, past1, best, it, prompt, i, decoders, kv, kv_self_n_dec, result_all>>

-----------------------------------------------------------------------------
(***************************************************************************)
(* One temperature: new decoders, the prompt, the cache.                   *)
(***************************************************************************)

Temperature == Temperatures[it]

NDecoders ==
  More(1, IF Temperature.sampled THEN params.best_of
          ELSE IF params.beam THEN params.beam_size ELSE 1)

Running == 0 .. NDecoders - 1

ChosenPrompt ==
  LET take0 == IF params.carry THEN past0 ELSE 0
      take1 == Less(MaxPrompt - take0 - 1, past1)
  IN  IF Temperature.history /\ MaxPrompt > 0 /\ (take0 > 0 \/ past1 > 0)
        THEN [prev |-> 1, take0 |-> take0, take1 |-> take1]
        ELSE [prev |-> 0, take0 |-> 0, take1 |-> 0]

PromptSize(p) == p.prev + p.take0 + p.take1 + params.n_init

\* Mutant: a cache for one decoder, whatever their number.
FactorOne == 1

\* Cells of more than one decoder get scattered: that many more of them.
Factor == IF NDecoders > 1 THEN NDecoders + 2 ELSE 1

CacheForAttempt == IF kv_self_n_dec < NDecoders THEN NewCache(KVPad * Factor) ELSE ClearCache(kv)

PromptBatch(size) == [k \in 1 .. size |-> [pos |-> k - 1, seq |-> 0, from |-> <<>>]]

\* Every decoder starts with the cells of the prompt.
Shared(cache) == FoldLeft(LAMBDA c, j : SeqCopy(c, 0, j), cache, [k \in 1 .. NDecoders - 1 |-> k])

StartAttempt ==
  /\ pc = "attempt"
  /\ decoders' = [j \in DOMAIN decoders |-> IF j \in Running THEN FreshDecoder ELSE decoders[j]]
  /\ prompt' = ChosenPrompt
  /\ HasSlot(CacheForAttempt, PromptSize(ChosenPrompt))
  /\ kv' = Shared(Decode(CacheForAttempt, PromptBatch(PromptSize(ChosenPrompt))))
  /\ kv_self_n_dec' = More(kv_self_n_dec, NDecoders)
  /\ i' = 0
  /\ pc' = "sample"
  /\ UNCHANGED <<ret, params, seek, past0, past1, best, it, result_all>>

\* The bigger cache cannot be had (-7; the state is freed), or there is no slot for the
\* prompt, or the graph is not computed.
AttemptFails ==
  /\ pc = "attempt"
  /\ \/ kv_self_n_dec < NDecoders /\ Return(-7)
     \/ Return(-8)
  /\ UNCHANGED <<params, seek, past0, past1, best, it, prompt, i, decoders, kv, kv_self_n_dec, result_all>>

-----------------------------------------------------------------------------
(***************************************************************************)
(* Sampling.  Permitted(d): the tokens that whisper_process_logits leaves  *)
(* to decoder d.                                                           *)
(***************************************************************************)

Finished(d) == d.failed \/ d.completed
Live == {j \in Running : ~Finished(decoders[j])}
LiveInOrder == InOrder(Live)

IsTimestamp(token) == token >= 0

InPairs(d, token) ==
  LET len == Len(d.tokens)
      penultimate == len < 2 \/ IsTimestamp(d.tokens[len - 1])
  IN  len > 0 /\ IsTimestamp(d.tokens[len])
        => IF penultimate THEN ~IsTimestamp(token) ELSE token # Text

Initial(d, token) == d.tokens = <<>> => token # Eot /\ token <= MaxInitialTs

\* Mutant: timestamps may go back.
AnyOrder(d, token) == TRUE

\* Later timestamps are not earlier than the last one.
Increasing(d, token) == d.has_ts /\ IsTimestamp(token) => token >= d.seek_delta \div 2

Permitted(d) ==
  {token \in Tokens :
     /\ params.no_timestamps => ~IsTimestamp(token)
     /\ InPairs(d, token) /\ Initial(d, token) /\ Increasing(d, token)}

Extend(d, token) == [d EXCEPT !.tokens = Append(@, token)]

Sample ==
  /\ pc = "sample" /\ ~params.beam
  /\ \E token \in [Live -> Tokens] :
       /\ \A j \in Live : token[j] \in Permitted(decoders[j])
       /\ decoders' = [j \in DOMAIN decoders |->
                         IF j \in Live THEN Extend(decoders[j], token[j]) ELSE decoders[j]]
  /\ pc' = "update"
  /\ UNCHANGED <<ret, params, seek, past0, past1, best, it, prompt, i, kv, kv_self_n_dec, result_all>>

\* Mutant: cells are renamed in place, one decoder after the other.
ReshuffledInPlace(cache, src) ==
  FoldLeft(LAMBDA c, j : SeqCopy(SeqRemove(c, j), src[j], j), cache, LiveInOrder)

\* The candidates are sorted by score, so each decoder may go on with a candidate of any.  Its
\* cells are first copied to a sequence of its own, which no other decoder disturbs.
Reshuffled(cache, src) ==
  LET spare(j) == MaxDecoders + j
      staged   == FoldLeft(LAMBDA c, j : SeqCopy(c, src[j], spare(j)), cache, LiveInOrder)
  IN  FoldLeft(LAMBDA c, j : SeqRemove(SeqCopy(SeqRemove(c, j), spare(j), j), spare(j)),
               staged, LiveInOrder)

SampleBeam ==
  /\ pc = "sample" /\ params.beam
  /\ \E src \in [Live -> Live], token \in [Live -> Tokens] :
       /\ \A j \in Live : token[j] \in Permitted(decoders[src[j]])
       /\ decoders' = [j \in DOMAIN decoders |->
                         IF j \in Live THEN Extend(decoders[src[j]], token[j]) ELSE decoders[j]]
       /\ kv' = Reshuffled(kv, src)
  /\ pc' = "update"
  /\ UNCHANGED <<ret, params, seek, past0, past1, best, it, prompt, i, kv_self_n_dec, result_all>>

-----------------------------------------------------------------------------
(***************************************************************************)
(* What the token does to its decoder.                                     *)
(***************************************************************************)

Newest(d) == d.tokens[Len(d.tokens)]

\* Mutant: token_beg counts as a timestamp that moves the window.
MovesAtBegin(d) ==
  IF Newest(d) < 0 THEN d
  ELSE [d EXCEPT !.seek_delta = 2 * Newest(d), !.result_len = i + 1, !.has_ts = TRUE]

\* A timestamp says how far the window may move, and that the tokens so far count.
MovesWindow(d) ==
  LET delta == 2 * Newest(d)
  IN  IF Newest(d) <= 0 THEN d
      ELSE IF d.has_ts /\ d.seek_delta > delta /\ d.result_len < i THEN [d EXCEPT !.failed = TRUE]
      ELSE [d EXCEPT !.seek_delta = delta, !.result_len = i + 1, !.has_ts = TRUE]

ReachesEnd(d) == seek + d.seek_delta + DeltaMin >= params.seek_end

EndsSegment(d) ==
  \/ Newest(d) = Eot
  \/ params.max_tokens > 0 /\ i >= params.max_tokens
  \/ d.has_ts /\ ReachesEnd(d)

Completes(d) ==
  IF d.result_len = 0 /\ ~params.no_timestamps /\ ~ReachesEnd(d)
    THEN [d EXCEPT !.failed = TRUE]
    ELSE [d EXCEPT !.completed = TRUE,
                   !.result_len = IF @ = 0 \/ params.single_segment \/ params.no_timestamps
                                    THEN i + 1 ELSE @,
                   !.seek_delta = IF params.single_segment \/ params.no_timestamps THEN Chunk ELSE @]

Repeats(d) == i = NMax - 1 /\ (d.result_len = 0 \/ d.seek_delta < Chunk \div 2)

Updated(d) ==
  LET m == MovesWindow(d)
  IN  IF m.failed THEN m
      ELSE IF EndsSegment(m) THEN Completes(m)
      ELSE [m EXCEPT !.failed = Repeats(m)]

Update ==
  /\ pc = "update"
  /\ decoders' = [j \in DOMAIN decoders |-> IF j \in Live THEN Updated(decoders[j]) ELSE decoders[j]]
  /\ pc' = IF \A j \in Running : Finished(decoders'[j]) THEN "rank" ELSE "decode"
  /\ UNCHANGED <<ret, params, seek, past0, past1, best, it, prompt, i, kv, kv_self_n_dec, result_all>>

-----------------------------------------------------------------------------
(***************************************************************************)
(* The newest token of every decoder that goes on is decoded in one batch. *)
(***************************************************************************)

NPast == PromptSize(prompt) + i

TokenBatch ==
  [k \in 1 .. Len(LiveInOrder) |->
     LET j == LiveInOrder[k] IN [pos |-> NPast, seq |-> j, from |-> decoders[j].tokens]]

DecodeTokens ==
  /\ pc = "decode"
  /\ HasSlot(kv, Len(TokenBatch))
  /\ kv' = Decode(kv, TokenBatch)
  /\ IF i = NMax - 1 THEN pc' = "rank" /\ UNCHANGED i ELSE pc' = "sample" /\ i' = i + 1
  /\ UNCHANGED <<ret, params, seek, past0, past1, best, it, prompt, decoders, kv_self_n_dec, result_all>>

\* No slot, or the graph is not computed.
DecodeFails ==
  /\ pc = "decode"
  /\ Return(-9)
  /\ UNCHANGED <<params, seek, past0, past1, best, it, prompt, i, decoders, kv, kv_self_n_dec, result_all>>

-----------------------------------------------------------------------------
(***************************************************************************)
(* The best sequence, and whether it is good enough.                       *)
(***************************************************************************)

Truncated(d) == [d EXCEPT !.tokens = SubSeq(@, 1, d.result_len)]

\* Sequences that did not fail are cut after the last timestamp; a long one may turn out to
\* repeat itself.  Without any good one, best_decoder_id stays what it was.
Rank ==
  /\ pc = "rank"
  /\ \E dull \in SUBSET {j \in Running : ~decoders[j].failed /\ decoders[j].result_len > EntropyLen} :
       decoders' = [j \in DOMAIN decoders |->
                      IF j \in Running /\ ~decoders[j].failed
                        THEN [Truncated(decoders[j]) EXCEPT !.failed = j \in dull]
                        ELSE decoders[j]]
  /\ LET good == {j \in Running : ~decoders'[j].failed}
     IN  best' \in (IF good = {} THEN {best} ELSE good)
  /\ pc' = "judge"
  /\ UNCHANGED <<ret, params, seek, past0, past1, it, prompt, i, kv, kv_self_n_dec, result_all>>

LastTemperature == it = Len(Temperatures)

Accept ==
  /\ pc = "judge" /\ (LastTemperature \/ ~decoders[best].failed)
  /\ pc' = "output"
  /\ UNCHANGED <<ret, params, seek, past0, past1, best, it, prompt, i, decoders, kv, kv_self_n_dec, result_all>>

\* The sequence has failed, or is unlikely while there is speech.
Retry ==
  /\ pc = "judge" /\ ~LastTemperature
  /\ it' = it + 1
  /\ pc' = "attempt"
  /\ UNCHANGED <<ret, params, seek, past0, past1, best, prompt, i, decoders, kv, kv_self_n_dec, result_all>>

-----------------------------------------------------------------------------
(***************************************************************************)
(* The segments of the chunk, and the step to the next one.                *)
(***************************************************************************)

\* Text goes into a segment that ends at the first timestamp after it, ...
ClosedBy(tokens) ==
  {k \in 1 .. Len(tokens) :
     /\ tokens[k] > 0 /\ ~params.single_segment
     /\ \E m \in 1 .. k - 1 : tokens[m] = Text /\ \A l \in m + 1 .. k - 1 : tokens[l] <= 0}

\* ... or with the window when there is none.
HasOpenText(tokens) ==
  \E m \in 1 .. Len(tokens) :
    tokens[m] = Text /\ (params.single_segment \/ \A l \in m + 1 .. Len(tokens) : tokens[l] <= 0)

SegmentEnds(d) ==
  LET closed == InOrder(ClosedBy(d.tokens))
  IN  [k \in 1 .. Len(closed) |-> seek + 2 * d.tokens[closed[k]]]
        \o (IF HasOpenText(d.tokens) THEN <<seek + d.seek_delta>> ELSE <<>>)

SingleTimestampEnding(d) ==
  LET len == Len(d.tokens)
  IN  len > 1 /\ d.tokens[len - 1] < 0 /\ d.tokens[len] > 0

SeekDelta(d) ==
  IF SingleTimestampEnding(d) THEN Less(params.seek_end - seek, Chunk) ELSE d.seek_delta

\* no_speech: the chunk is taken for silence and leaves no text.
Output ==
  /\ pc = "output"
  /\ \E no_speech \in BOOLEAN :
       LET d == decoders[best]
       IN  /\ past1' = (IF ~params.carry /\ prompt.prev > 0 THEN prompt.take0 + prompt.take1 ELSE 0)
                         + (IF no_speech THEN 0 ELSE d.result_len)
           /\ result_all' = <<Last(result_all)>> \o (IF no_speech THEN <<>> ELSE SegmentEnds(d))
           /\ seek' = seek + SeekDelta(d)
  /\ pc' = "chunk"
  /\ UNCHANGED <<ret, params, past0, best, it, prompt, i, decoders, kv, kv_self_n_dec>>

-----------------------------------------------------------------------------
Returned == pc = "returned" /\ UNCHANGED vars

Next ==
  \/ TooShort \/ PreparePrompt
  \/ Finish \/ EncodeChunk \/ EncodeFails
  \/ StartAttempt \/ AttemptFails
  \/ Sample \/ SampleBeam \/ Update
  \/ DecodeTokens \/ DecodeFails
  \/ Rank \/ Accept \/ Retry
  \/ Output
  \/ Returned

\* The calling thread goes on until it returns: WF_vars(Next), spelled out because every
\* other state has a next one, which is dear to compute for ENABLED.
Fairness == []<>(pc = "returned") \/ []<><<Next>>_vars

Spec == Init /\ [][Next]_vars /\ Fairness

-----------------------------------------------------------------------------
(***************************************************************************)
(* Properties                                                              *)
(***************************************************************************)

\* whisper_decode_internal after whisper_kv_cache_seq_rm and _cp: a decoder about to sample sees
\* its own history and nothing else, each position once, however often the beams changed
\* places, cells were freed and found again, and other decoders ended.
HistoryIsCached ==
  pc = "sample" =>
    \A j \in Live :
      LET seen == SeenBy(kv, j)
          size == PromptSize(prompt) + Len(decoders[j].tokens)
      IN  /\ {kv.cells[c].pos : c \in seen} = 0 .. size - 1
          /\ \A c, d \in seen : kv.cells[c].pos = kv.cells[d].pos => c = d
          /\ \A c \in seen :
               kv.cells[c].from = SubSeq(decoders[j].tokens, 1,
                                         More(0, kv.cells[c].pos - PromptSize(prompt) + 1))

\* whisper_full_with_state: prompt and tokens never need a position that the model's table of
\* n_text_ctx positions lacks, and the prompt's batch holds at most n_text_ctx tokens.
PositionsFit ==
  /\ pc \in {"sample", "update", "decode"} => PromptSize(prompt) <= NTextCtx
  /\ pc = "decode" => NPast < NTextCtx

\* whisper_kv_cache_find_slot: the cache, with what is added against fragmentation, always has
\* the cells that are asked for, so no call fails for want of a slot.
SlotsSuffice ==
  /\ pc = "attempt" => HasSlot(CacheForAttempt, PromptSize(ChosenPrompt))
  /\ pc = "decode" => HasSlot(kv, Len(TokenBatch))

\* The main loop: the window only moves forward and the segments are in order (AudioWindow).
ImplementsWindow == Window!WindowSpec

\* The main loop ends: no chunk leaves the window where it is.
Returns == <>(pc = "returned")
=============================================================================
