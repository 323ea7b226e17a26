-------------------------- MODULE WhisperFullProofs --------------------------
(***************************************************************************)
(* What is true of every call of whisper_full_with_state, whatever the     *)
(* model, the parameters and the audio: no position is used that the model *)
(* lacks, no chunk leaves the window where it is, the cache never lacks a  *)
(* slot, every decoder samples from its own history, and the window with   *)
(* its segments is the one of AudioWindow.                                 *)
(*                                                                         *)
(* The first rests on what the prompt may take (PromptInv) and on the      *)
(* number of tokens decoded; the second on what a decoder says of the      *)
(* window (Decoder): a timestamp that moves it is not token_beg.  The      *)
(* cache rests on CacheInv, what every operation does to the cells of      *)
(* every sequence; AudioWindow on WindowInv, what the timestamps of a      *)
(* decoder say of the window they are in.                                  *)
(***************************************************************************)
EXTENDS WhisperFull, SequenceTheorems, FiniteSetTheorems, TLAPS

Decoder ==
  [tokens : Seq(Tokens), result_len : Nat, seek_delta : 1 .. Chunk,
   failed : BOOLEAN, completed : BOOLEAN, has_ts : BOOLEAN]

Decoding == {"sample", "update", "decode"}
Stages == {"called", "chunk", "attempt", "rank", "judge", "output", "returned"} \union Decoding

\* Only as many tokens count as there are.
DecodersInv ==
  /\ decoders \in [0 .. MaxDecoders - 1 -> Decoder]
  /\ \A j \in DOMAIN decoders : decoders[j].result_len <= Len(decoders[j].tokens)
  /\ pc = "sample" => \A j \in Live : Len(decoders[j].tokens) = i
  /\ pc \in {"update", "decode"} => \A j \in Live : Len(decoders[j].tokens) = i + 1

PromptInv ==
  /\ past0 \in Nat /\ past1 \in Nat
  /\ params.carry => past0 < MaxPrompt
  /\ prompt \in [prev : {0, 1}, take0 : Nat, take1 : Nat]
  /\ prompt.prev + prompt.take0 + prompt.take1 <= MaxPrompt

WhisperInv ==
  /\ pc \in Stages
  /\ params \in ParamSets
  /\ seek \in Nat
  /\ best \in 0 .. MaxDecoders - 1
  /\ i \in 0 .. NMax - 1
  /\ pc \notin {"called", "chunk", "returned"} => seek + DeltaMin < params.seek_end
  /\ DecodersInv
  /\ PromptInv

-----------------------------------------------------------------------------
LEMMA HalfBelow ==
  ASSUME NEW a \in Int, NEW b \in Int, NEW w \in Nat, 2 * a <= w, b >= w \div 2
  PROVE  a <= b
OBVIOUS

LEMMA DoubleIsMonotonic ==
  ASSUME NEW s \in Int, NEW a \in Int, NEW b \in Int, a <= b
  PROVE  2 * a <= 2 * b /\ s + 2 * a <= s + 2 * b
OBVIOUS

\* A decoder's spare sequence is no other decoder's sequence.
LEMMA SparesApart ==
  ASSUME NEW a \in 0 .. MaxDecoders - 1, NEW b \in 0 .. MaxDecoders - 1
  PROVE  a # MaxDecoders + b /\ (a # b => MaxDecoders + a # MaxDecoders + b)
BY DEF MaxDecoders

\* What the assumptions say of the lengths involved.
LEMMA Lengths ==
  ASSUME params \in ParamSets
  PROVE  /\ MaxPrompt \in Nat /\ MaxPrompt <= NTextCtx \div 2
         /\ params.carry => MaxPrompt > 1
         /\ NTextCtx \in Nat /\ NTextCtx \div 2 \in Nat /\ 2 * (NTextCtx \div 2) <= NTextCtx
         /\ NMax \in Nat /\ NMax > 1
         /\ MaxTs \in Nat /\ MaxTs > 0 /\ Chunk \in Nat /\ Chunk > 1
         /\ DeltaMin \in Nat /\ DeltaMin > 0
         /\ params.n_init \in 1 .. 4 /\ params.prompt_n_tokens \in Nat
         /\ params.past1 \in Nat /\ params.seek_end \in Nat
         /\ params.past0 \in Nat /\ (params.carry => params.past0 < MaxPrompt)
<1>1. NTextCtx \in Nat /\ NTextCtx >= 12
  BY WhisperAssumption
<1>2. NTextCtx \div 2 \in Nat /\ NTextCtx \div 2 >= 6 /\ 2 * (NTextCtx \div 2) <= NTextCtx
  BY <1>1
<1>3. /\ params.n_max_text_ctx \in Nat /\ (params.carry => params.n_max_text_ctx > 1)
      /\ params.n_init \in 1 .. 4 /\ params.prompt_n_tokens \in Nat
      /\ params.past1 \in Nat /\ params.seek_end \in Nat
  BY ParamsAssumption
<1>4. MaxTs \in Nat /\ MaxTs > 0 /\ DeltaMin \in Nat /\ DeltaMin > 0
  BY WhisperAssumption
<1>5. Chunk \in Nat /\ Chunk > 1
  BY <1>4 DEF Chunk
<1>6. params.past0 \in Nat /\ (params.carry => params.past0 < MaxPrompt)
  BY <1>2, <1>3, ParamsAssumption DEF MaxPrompt, Less
<1>7. QED
  BY <1>1, <1>2, <1>3, <1>4, <1>5, <1>6 DEF MaxPrompt, Less, NMax

\* There are between one and MaxDecoders decoders, whatever the temperature.
LEMMA SomeDecoders ==
  ASSUME params \in ParamSets
  PROVE  NDecoders \in 1 .. MaxDecoders /\ Running \subseteq 0 .. MaxDecoders - 1
<1>1. params.best_of \in 0 .. MaxDecoders /\ params.beam_size \in 0 .. MaxDecoders
  BY ParamsAssumption
<1>2. QED
  BY <1>1 DEF NDecoders, Running, More, MaxDecoders

LEMMA FreshIsDecoder ==
  ASSUME params \in ParamSets
  PROVE  FreshDecoder \in Decoder
BY Lengths DEF FreshDecoder, Decoder

\* A token more.
LEMMA ExtendDecoder ==
  ASSUME NEW d \in Decoder, NEW token \in Tokens, d.result_len <= Len(d.tokens)
  PROVE  /\ Extend(d, token) \in Decoder
         /\ Extend(d, token).result_len <= Len(Extend(d, token).tokens)
         /\ Len(Extend(d, token).tokens) = Len(d.tokens) + 1
         /\ Extend(d, token).failed = d.failed /\ Extend(d, token).completed = d.completed
<1>1. d.tokens \in Seq(Tokens) /\ d.result_len \in Nat
  BY DEF Decoder
<1>2. /\ Append(d.tokens, token) \in Seq(Tokens)
      /\ Len(Append(d.tokens, token)) = Len(d.tokens) + 1 /\ Len(d.tokens) \in Nat
  BY <1>1
<1>3. QED
  BY <1>1, <1>2 DEF Decoder, Extend

\* A timestamp moves the window by a step of its own.
LEMMA MoveDecoder ==
  ASSUME params \in ParamSets, i \in Nat,
         NEW d \in Decoder, Len(d.tokens) = i + 1, d.result_len <= Len(d.tokens)
  PROVE  LET m == MovesWindow(d)
         IN  m \in Decoder /\ m.tokens = d.tokens /\ m.result_len <= i + 1
<1>1. d.tokens[Len(d.tokens)] \in Tokens /\ d.result_len \in Nat
  BY DEF Decoder
<1>2. Newest(d) \in Int /\ (Newest(d) > 0 => 2 * Newest(d) \in 1 .. Chunk)
  BY <1>1, WhisperAssumption DEF Newest, Tokens, Chunk
<1> DEFINE m == MovesWindow(d)
           back == [d EXCEPT !.failed = TRUE]
           delta == 2 * Newest(d)
           forwardBy(x, n) == [d EXCEPT !.seek_delta = x, !.result_len = n, !.has_ts = TRUE]
           forward == [d EXCEPT !.seek_delta = 2 * Newest(d), !.result_len = i + 1, !.has_ts = TRUE]
<1>3. back \in Decoder /\ back.tokens = d.tokens /\ back.result_len = d.result_len
  BY DEF Decoder
<1>4. ASSUME NEW x \in 1 .. Chunk, NEW n \in Nat
      PROVE  /\ forwardBy(x, n) \in Decoder /\ forwardBy(x, n).tokens = d.tokens
             /\ forwardBy(x, n).result_len = n
  BY DEF Decoder
<1>5. forward = forwardBy(delta, i + 1)
  OBVIOUS
<1>6. m = d \/ m = back \/ (Newest(d) > 0 /\ m = forward)
  BY <1>2 DEF MovesWindow
<1> HIDE DEF back, forward, forwardBy, m
<1>7. ASSUME Newest(d) > 0
      PROVE  forward \in Decoder /\ forward.tokens = d.tokens /\ forward.result_len = i + 1
  BY <1>2, <1>4, <1>5, <1>7
<1>8. m \in Decoder /\ m.tokens = d.tokens /\ m.result_len <= i + 1
  BY <1>1, <1>3, <1>6, <1>7
<1>9. QED
  BY <1>8 DEF m

\* What a token does leaves the window a step to take.
LEMMA UpdateDecoder ==
  ASSUME params \in ParamSets, i \in Nat,
         NEW d \in Decoder, Len(d.tokens) = i + 1, d.result_len <= Len(d.tokens)
  PROVE  /\ Updated(d) \in Decoder
         /\ Updated(d).tokens = d.tokens
         /\ Updated(d).result_len <= Len(d.tokens)
<1> DEFINE m == MovesWindow(d)
<1>1. m \in Decoder /\ m.tokens = d.tokens /\ m.result_len <= i + 1
  BY MoveDecoder
<1>2. Chunk \in 1 .. Chunk
  <2>1. Chunk \in Nat /\ Chunk > 1
    BY Lengths
  <2>2. QED
    BY <2>1
<1> HIDE DEF m
<1>3. Completes(m) \in Decoder /\ Completes(m).tokens = m.tokens /\ Completes(m).result_len <= i + 1
  <2> DEFINE len == IF m.result_len = 0 \/ params.single_segment \/ params.no_timestamps
                      THEN i + 1 ELSE m.result_len
             delta == IF params.single_segment \/ params.no_timestamps THEN Chunk ELSE m.seek_delta
             lost == [m EXCEPT !.failed = TRUE]
             done == [m EXCEPT !.completed = TRUE, !.result_len = len, !.seek_delta = delta]
  <2>1. len \in Nat /\ len <= i + 1 /\ delta \in 1 .. Chunk
    BY <1>1, <1>2 DEF Decoder
  <2>2. lost \in Decoder /\ lost.tokens = m.tokens /\ lost.result_len = m.result_len
    BY <1>1 DEF Decoder
  <2> HIDE DEF len, delta
  <2>3. done \in Decoder /\ done.tokens = m.tokens /\ done.result_len = len
    BY <1>1, <2>1 DEF Decoder
  <2>4. Completes(m) = lost \/ Completes(m) = done
    BY DEF Completes, len, delta
  <2> HIDE DEF lost, done
  <2>5. QED
    BY <1>1, <2>1, <2>2, <2>3, <2>4
<1>4. Repeats(m) \in BOOLEAN
  BY DEF Repeats
<1>5. [m EXCEPT !.failed = Repeats(m)] \in Decoder
  BY <1>1, <1>4 DEF Decoder
<1>6. Updated(d) \in {m, Completes(m), [m EXCEPT !.failed = Repeats(m)]}
  BY DEF Updated, m
<1>7. [m EXCEPT !.failed = Repeats(m)].tokens = m.tokens
        /\ [m EXCEPT !.failed = Repeats(m)].result_len = m.result_len
  BY <1>1 DEF Decoder
<1>8. QED
  BY <1>1, <1>3, <1>5, <1>6, <1>7

\* A sequence that is cut.
LEMMA TruncateDecoder ==
  ASSUME NEW d \in Decoder, d.result_len <= Len(d.tokens), NEW failed \in BOOLEAN
  PROVE  /\ [Truncated(d) EXCEPT !.failed = failed] \in Decoder
         /\ [Truncated(d) EXCEPT !.failed = failed].result_len
              <= Len([Truncated(d) EXCEPT !.failed = failed].tokens)
<1>1. d.tokens \in Seq(Tokens) /\ d.result_len \in Nat
  BY DEF Decoder
<1> DEFINE cut == SubSeq(d.tokens, 1, d.result_len)
<1>2. cut \in Seq(Tokens) /\ Len(cut) = d.result_len
  BY <1>1
<1> HIDE DEF cut
<1>3. Truncated(d) = [d EXCEPT !.tokens = cut]
  BY DEF Truncated, cut
<1>4. Truncated(d) \in Decoder /\ Truncated(d).tokens = cut /\ Truncated(d).result_len = d.result_len
  BY <1>1, <1>2, <1>3 DEF Decoder
<1> DEFINE t == Truncated(d)
<1> HIDE DEF t
<1>5. t \in Decoder /\ t.tokens = cut /\ t.result_len = d.result_len
  BY <1>4 DEF t
<1>6. /\ [t EXCEPT !.failed = failed] \in Decoder
      /\ [t EXCEPT !.failed = failed].tokens = t.tokens
      /\ [t EXCEPT !.failed = failed].result_len = t.result_len
  BY <1>5 DEF Decoder
<1>7. [t EXCEPT !.failed = failed].result_len <= Len([t EXCEPT !.failed = failed].tokens)
  BY <1>1, <1>2, <1>5, <1>6
<1>8. QED
  BY <1>6, <1>7 DEF t

-----------------------------------------------------------------------------
LEMMA WhisperInitially == Init => WhisperInv
<1> SUFFICES ASSUME Init PROVE WhisperInv
  OBVIOUS
<1>1. params \in ParamSets
  BY DEF Init
<1>2. DecodersInv
  BY <1>1, FreshIsDecoder DEF Init, DecodersInv, FreshDecoder
<1>3. PromptInv
  BY <1>1, Lengths DEF Init, PromptInv
<1>4. QED
  BY <1>1, <1>2, <1>3, Lengths DEF Init, WhisperInv, Stages, MaxDecoders

\* Actions that leave the decoders and the prompt alone.
LEMMA DecodersStay ==
  ASSUME WhisperInv, UNCHANGED <<decoders, params, it, i>>,
         pc' \notin {"sample", "update", "decode"}
  PROVE  DecodersInv'
BY DEF WhisperInv, DecodersInv

LEMMA PromptStays ==
  ASSUME WhisperInv, UNCHANGED <<past0, past1, prompt, params>>
  PROVE  PromptInv'
BY DEF WhisperInv, PromptInv, MaxPrompt

\* The history taken into the prompt fits beside the prev token.
LEMMA ChosenPromptFits ==
  ASSUME WhisperInv
  PROVE  /\ ChosenPrompt \in [prev : {0, 1}, take0 : Nat, take1 : Nat]
         /\ ChosenPrompt.prev + ChosenPrompt.take0 + ChosenPrompt.take1 <= MaxPrompt
<1>1. params \in ParamSets /\ past0 \in Nat /\ past1 \in Nat /\ (params.carry => past0 < MaxPrompt)
  BY DEF WhisperInv, PromptInv
<1>2. MaxPrompt \in Nat
  BY <1>1, Lengths
<1> DEFINE take0 == IF params.carry THEN past0 ELSE 0
           take1 == Less(MaxPrompt - take0 - 1, past1)
<1>3. take0 \in Nat /\ (MaxPrompt > 0 => take1 \in Nat /\ take0 + take1 + 1 <= MaxPrompt)
  BY <1>1, <1>2 DEF Less
<1>4. ChosenPrompt = IF Temperature.history /\ MaxPrompt > 0 /\ (take0 > 0 \/ past1 > 0)
                       THEN [prev |-> 1, take0 |-> take0, take1 |-> take1]
                       ELSE [prev |-> 0, take0 |-> 0, take1 |-> 0]
  BY DEF ChosenPrompt
<1> HIDE DEF take0, take1
<1>5. QED
  BY <1>2, <1>3, <1>4

-----------------------------------------------------------------------------
\* One step of whisper_full_with_state.
LEMMA WhisperStep == WhisperInv /\ [Next]_vars => WhisperInv'
<1> SUFFICES ASSUME WhisperInv, [Next]_vars PROVE WhisperInv'
  OBVIOUS
<1>p. params \in ParamSets /\ params' = params
  BY DEF WhisperInv, Next, vars, TooShort, PreparePrompt, Finish, EncodeChunk, EncodeFails,
         StartAttempt, AttemptFails, Sample, SampleBeam, Update, DecodeTokens, DecodeFails, Rank,
         Accept, Retry, Output, Returned
<1>l. /\ MaxPrompt \in Nat /\ (params.carry => MaxPrompt > 1) /\ NMax \in Nat /\ NMax > 1
      /\ params.prompt_n_tokens \in Nat /\ params.seek_end \in Nat
      /\ DeltaMin \in Nat /\ DeltaMin > 0 /\ Chunk \in Nat /\ Chunk > 1
  BY <1>p, Lengths
<1>q. MaxPrompt' = MaxPrompt
  BY <1>p DEF MaxPrompt
<1>r. Running \subseteq DOMAIN decoders
  BY <1>p, SomeDecoders DEF WhisperInv, DecodersInv
<1>s. \A j \in DOMAIN decoders :
        decoders[j] \in Decoder /\ decoders[j].result_len <= Len(decoders[j].tokens)
  BY DEF WhisperInv, DecodersInv
<1>1. CASE TooShort \/ Finish \/ EncodeFails \/ AttemptFails \/ DecodeFails
  <2>1. /\ pc' = "returned"
        /\ UNCHANGED <<params, seek, past0, past1, best, it, prompt, i, decoders>>
    BY <1>1 DEF TooShort, Finish, EncodeFails, AttemptFails, DecodeFails, Return
  <2>2. DecodersInv' /\ PromptInv'
    BY <2>1, DecodersStay, PromptStays
  <2>3. QED
    BY <2>1, <2>2 DEF WhisperInv, Stages
<1>2. CASE PreparePrompt
  <2>1. past0' \in Nat /\ past1' \in Nat /\ (params.carry => past0' < MaxPrompt)
    BY <1>2, <1>l DEF PreparePrompt, WhisperInv, PromptInv, Less, More
  <2>2. PromptInv'
    BY <1>2, <2>1, <1>p, <1>q DEF PreparePrompt, WhisperInv, PromptInv
  <2>3. DecodersInv'
    BY <1>2, DecodersStay DEF PreparePrompt
  <2>4. QED
    BY <1>2, <2>2, <2>3 DEF PreparePrompt, WhisperInv, Stages
<1>3. CASE EncodeChunk
  <2>1. past0' \in Nat /\ past1' \in Nat /\ (params.carry => past0' < MaxPrompt)
    BY <1>3, <1>l DEF EncodeChunk, WhisperInv, PromptInv
  <2>2. PromptInv'
    BY <1>3, <2>1, <1>p, <1>q DEF EncodeChunk, WhisperInv, PromptInv
  <2>3. DecodersInv'
    BY <1>3 DEF EncodeChunk, WhisperInv, DecodersInv
  <2>4. (seek + DeltaMin < params.seek_end)'
    BY <1>3, <1>l, <1>p DEF EncodeChunk, AtEnd, WhisperInv
  <2>5. QED
    BY <1>3, <2>2, <2>3, <2>4 DEF EncodeChunk, WhisperInv, Stages, MaxDecoders
<1>4. CASE StartAttempt
  <2>1. PromptInv'
    BY <1>4, <1>p, <1>q, ChosenPromptFits DEF StartAttempt, WhisperInv, PromptInv
  <2>2. /\ decoders' \in [0 .. MaxDecoders - 1 -> Decoder]
        /\ \A j \in DOMAIN decoders' : decoders'[j].result_len <= Len(decoders'[j].tokens)
    BY <1>4, <1>p, <1>s, FreshIsDecoder DEF StartAttempt, FreshDecoder, WhisperInv, DecodersInv
  <2>3. Running' = Running
    BY <1>4, <1>p DEF StartAttempt, Running, NDecoders, Temperature
  <2>4. \A j \in Running : Len(decoders'[j].tokens) = 0
    BY <1>4, <1>r DEF StartAttempt, FreshDecoder
  <2>5. DecodersInv'
    BY <1>4, <2>2, <2>3, <2>4 DEF StartAttempt, DecodersInv, Live
  <2>6. i' \in 0 .. NMax - 1
    BY <1>4, <1>l DEF StartAttempt
  <2>7. QED
    BY <1>4, <2>1, <2>5, <2>6 DEF StartAttempt, WhisperInv, Stages, Decoding
<1>5. CASE Sample \/ SampleBeam
  <2>1. /\ pc = "sample" /\ pc' = "update"
        /\ UNCHANGED <<params, seek, past0, past1, best, it, prompt, i>>
    BY <1>5 DEF Sample, SampleBeam
  <2>2. \E src \in [Live -> Live], token \in [Live -> Tokens] :
          decoders' = [j \in DOMAIN decoders |->
                         IF j \in Live THEN Extend(decoders[src[j]], token[j]) ELSE decoders[j]]
    <3>1. CASE Sample
      <4>1. PICK token \in [Live -> Tokens] :
              decoders' = [j \in DOMAIN decoders |->
                             IF j \in Live THEN Extend(decoders[j], token[j]) ELSE decoders[j]]
        BY <3>1 DEF Sample
      <4>2. [j \in Live |-> j] \in [Live -> Live]
        OBVIOUS
      <4>3. decoders' = [j \in DOMAIN decoders |->
                           IF j \in Live THEN Extend(decoders[[k \in Live |-> k][j]], token[j])
                           ELSE decoders[j]]
        BY <4>1
      <4>4. QED
        BY <4>2, <4>3
    <3>2. CASE SampleBeam
      BY <3>2 DEF SampleBeam
    <3>3. QED
      BY <1>5, <3>1, <3>2
  <2>3. PICK src \in [Live -> Live], token \in [Live -> Tokens] :
          decoders' = [j \in DOMAIN decoders |->
                         IF j \in Live THEN Extend(decoders[src[j]], token[j]) ELSE decoders[j]]
    BY <2>2
  <2>4. Live \subseteq DOMAIN decoders
    BY <1>r DEF Live
  <2>5. \A j \in Live :
          /\ decoders'[j] = Extend(decoders[src[j]], token[j])
          /\ decoders[src[j]] \in Decoder /\ token[j] \in Tokens
          /\ decoders[src[j]].result_len <= Len(decoders[src[j]].tokens)
          /\ Len(decoders[src[j]].tokens) = i
    BY <2>1, <2>3, <2>4, <1>s DEF WhisperInv, DecodersInv
  <2>6. \A j \in Live :
          /\ decoders'[j] \in Decoder /\ decoders'[j].result_len <= Len(decoders'[j].tokens)
          /\ Len(decoders'[j].tokens) = i + 1
    BY <2>5, ExtendDecoder
  <2>7. \A j \in DOMAIN decoders :
          decoders'[j] \in Decoder /\ decoders'[j].result_len <= Len(decoders'[j].tokens)
    BY <2>3, <2>6, <1>s
  <2>8. decoders' \in [0 .. MaxDecoders - 1 -> Decoder]
    BY <2>3, <2>7 DEF WhisperInv, DecodersInv
  <2>9. Live' \subseteq Live
    BY <2>1, <2>3, <2>4, <1>r DEF Live, Running, NDecoders, Temperature
  <2>10. DecodersInv'
    BY <2>1, <2>6, <2>7, <2>8, <2>9 DEF WhisperInv, DecodersInv
  <2>11. QED
    BY <2>1, <2>10, PromptStays DEF WhisperInv, Stages, Decoding
<1>6. CASE Update
  <2>1. /\ pc = "update" /\ pc' \in {"rank", "decode"}
        /\ UNCHANGED <<params, seek, past0, past1, best, it, prompt, i>>
    BY <1>6 DEF Update
  <2>2. \A j \in Live : /\ j \in DOMAIN decoders /\ decoders'[j] = Updated(decoders[j])
                        /\ Len(decoders[j].tokens) = i + 1
    BY <1>6, <1>r DEF Update, Live, WhisperInv, DecodersInv
  <2>3. \A j \in Live :
          /\ decoders'[j] \in Decoder /\ decoders'[j].tokens = decoders[j].tokens
          /\ decoders'[j].result_len <= Len(decoders'[j].tokens)
    BY <2>2, <1>p, <1>s, UpdateDecoder, i \in Nat DEF WhisperInv
  <2>4. \A j \in DOMAIN decoders : j \notin Live => decoders'[j] = decoders[j]
    BY <1>6 DEF Update
  <2>5. /\ decoders' \in [0 .. MaxDecoders - 1 -> Decoder]
        /\ \A j \in DOMAIN decoders' : decoders'[j].result_len <= Len(decoders'[j].tokens)
    BY <1>6, <2>3, <2>4, <1>s DEF Update, WhisperInv, DecodersInv
  <2>6. Live' \subseteq Live
    BY <2>1, <2>4, <1>r DEF Live, Running, NDecoders, Temperature
  <2>7. DecodersInv'
    BY <2>1, <2>2, <2>3, <2>5, <2>6 DEF DecodersInv
  <2>8. QED
    BY <2>1, <2>7, PromptStays DEF WhisperInv, Stages, Decoding
<1>7. CASE DecodeTokens
  <2>1. /\ pc = "decode" /\ UNCHANGED <<params, seek, past0, past1, best, it, prompt, decoders>>
        /\ \/ pc' = "rank" /\ i' = i
           \/ pc' = "sample" /\ i' = i + 1 /\ i # NMax - 1
    BY <1>7 DEF DecodeTokens
  <2>2. i' \in 0 .. NMax - 1
    BY <2>1, <1>l DEF WhisperInv
  <2>3. Live' = Live
    BY <2>1 DEF Live, Running, NDecoders, Temperature
  <2>4. DecodersInv'
    BY <2>1, <2>3 DEF WhisperInv, DecodersInv
  <2>5. QED
    BY <2>1, <2>2, <2>4, PromptStays DEF WhisperInv, Stages, Decoding
<1>8. CASE Rank
  <2>1. /\ pc = "rank" /\ pc' = "judge"
        /\ UNCHANGED <<params, seek, past0, past1, it, prompt, i>>
    BY <1>8 DEF Rank
  <2>2. PICK dull :
          decoders' = [j \in DOMAIN decoders |->
                         IF j \in Running /\ ~decoders[j].failed
                           THEN [Truncated(decoders[j]) EXCEPT !.failed = j \in dull]
                           ELSE decoders[j]]
    BY <1>8 DEF Rank
  <2>3. \A j \in DOMAIN decoders :
          decoders'[j] \in Decoder /\ decoders'[j].result_len <= Len(decoders'[j].tokens)
    <3> SUFFICES ASSUME NEW j \in DOMAIN decoders
                 PROVE  decoders'[j] \in Decoder /\ decoders'[j].result_len <= Len(decoders'[j].tokens)
      OBVIOUS
    <3>1. (j \in dull) \in BOOLEAN
      OBVIOUS
    <3>2. /\ [Truncated(decoders[j]) EXCEPT !.failed = j \in dull] \in Decoder
          /\ [Truncated(decoders[j]) EXCEPT !.failed = j \in dull].result_len
               <= Len([Truncated(decoders[j]) EXCEPT !.failed = j \in dull].tokens)
      BY <3>1, <1>s, TruncateDecoder
    <3>3. \/ decoders'[j] = [Truncated(decoders[j]) EXCEPT !.failed = j \in dull]
          \/ decoders'[j] = decoders[j]
      BY <2>2
    <3>4. QED
      BY <3>2, <3>3, <1>s
  <2>4. DecodersInv'
    BY <2>1, <2>2, <2>3 DEF WhisperInv, DecodersInv
  <2>5. best' \in 0 .. MaxDecoders - 1
    BY <1>8, <1>r DEF Rank, WhisperInv, DecodersInv
  <2>6. QED
    BY <2>1, <2>4, <2>5, PromptStays DEF WhisperInv, Stages
<1>9. CASE Accept
  BY <1>9, DecodersStay, PromptStays DEF Accept, WhisperInv, Stages
<1>10. CASE Retry
  <2>1. DecodersInv'
    BY <1>10 DEF Retry, WhisperInv, DecodersInv
  <2>2. QED
    BY <1>10, <2>1, PromptStays DEF Retry, WhisperInv, Stages
<1>11. CASE Output
  <2>1. /\ pc = "output" /\ pc' = "chunk"
        /\ UNCHANGED <<params, past0, best, it, prompt, i, decoders>>
        /\ seek' = seek + SeekDelta(decoders[best])
    BY <1>11 DEF Output
  <2>2. decoders[best] \in Decoder /\ decoders[best].result_len \in Nat
    BY <1>s DEF WhisperInv, DecodersInv, Decoder
  <2>3. past1' \in Nat
    <3>1. prompt.take0 \in Nat /\ prompt.take1 \in Nat
      BY DEF WhisperInv, PromptInv
    <3>2. \E a \in {prompt.take0 + prompt.take1, 0}, b \in {0, decoders[best].result_len} :
            past1' = a + b
      BY <1>11 DEF Output
    <3>3. QED
      BY <2>2, <3>1, <3>2
  <2>4. seek' \in Nat
    <3>1. seek \in Nat /\ seek < params.seek_end
      BY <2>1, <1>l DEF WhisperInv
    <3>2. decoders[best].seek_delta \in Nat
      BY <2>2 DEF Decoder
    <3>3. SeekDelta(decoders[best]) \in {params.seek_end - seek, Chunk, decoders[best].seek_delta}
      BY DEF SeekDelta, Less
    <3>4. QED
      BY <2>1, <3>1, <3>2, <3>3, <1>l
  <2>5. PromptInv'
    BY <2>1, <2>3, <1>q DEF WhisperInv, PromptInv
  <2>6. QED
    BY <2>1, <2>4, <2>5, DecodersStay DEF WhisperInv, Stages
<1>12. CASE UNCHANGED vars
  <2>1. /\ UNCHANGED <<pc, params, seek, past0, past1, best, it, prompt, i, decoders>>
    BY <1>12 DEF vars
  <2>2. Live' = Live
    BY <2>1 DEF Live, Running, NDecoders, Temperature
  <2>3. DecodersInv'
    BY <2>1, <2>2 DEF WhisperInv, DecodersInv
  <2>4. QED
    BY <2>1, <2>3, PromptStays DEF WhisperInv
<1>13. QED
  BY <1>1, <1>2, <1>3, <1>4, <1>5, <1>6, <1>7, <1>8, <1>9, <1>10, <1>11, <1>12
     DEF Next, Returned

LEMMA WhisperInvariant == Spec => []WhisperInv
<1>1. Init => WhisperInv
  BY WhisperInitially
<1>2. WhisperInv /\ [Next]_vars => WhisperInv'
  BY WhisperStep
<1>3. QED
  BY <1>1, <1>2, PTL DEF Spec

-----------------------------------------------------------------------------
\* The positions of prompt and tokens exist in every model (whisper_full_with_state: half of
\* n_text_ctx for the history, the other half less four for the tokens).
THEOREM PositionsAlwaysFit == Spec => []PositionsFit
<1>1. WhisperInv => PositionsFit
  <2> SUFFICES ASSUME WhisperInv PROVE PositionsFit
    OBVIOUS
  <2>1. /\ prompt.prev \in {0, 1} /\ prompt.take0 \in Nat /\ prompt.take1 \in Nat
        /\ prompt.prev + prompt.take0 + prompt.take1 <= MaxPrompt
        /\ i \in 0 .. NMax - 1 /\ params \in ParamSets
    BY DEF WhisperInv, PromptInv
  <2>2. PromptSize(prompt) \in Nat /\ PromptSize(prompt) <= NTextCtx \div 2 + 4
    BY <2>1, Lengths DEF PromptSize
  <2>3. 2 * (NTextCtx \div 2) <= NTextCtx /\ NTextCtx \div 2 \in Nat /\ NTextCtx \in Nat
        /\ NTextCtx \div 2 >= 6
    BY WhisperAssumption
  <2>4. PromptSize(prompt) <= NTextCtx
    BY <2>2, <2>3
  <2>5. NPast < NTextCtx
    BY <2>1, <2>2, <2>3 DEF NPast, NMax
  <2>6. QED
    BY <2>4, <2>5 DEF PositionsFit
<1>2. QED
  BY <1>1, WhisperInvariant, PTL

\* Every chunk that is done moves the window (the end of the main loop), by at most a chunk:
\* what keeps whisper_full_with_state from decoding the same audio for ever.
ChunkIsLeft == [][pc = "output" => seek' \in seek + 1 .. seek + Chunk]_vars

THEOREM WindowAdvances == Spec => ChunkIsLeft
<1>1. WhisperInv /\ [Next]_vars => [pc = "output" => seek' \in seek + 1 .. seek + Chunk]_vars
  <2> SUFFICES ASSUME WhisperInv, Next, pc = "output"
               PROVE  seek' \in seek + 1 .. seek + Chunk
    OBVIOUS
  <2>1. Output
    BY DEF Next, TooShort, PreparePrompt, Finish, EncodeChunk, EncodeFails, StartAttempt,
           AttemptFails, Sample, SampleBeam, Update, DecodeTokens, DecodeFails, Rank, Accept,
           Retry, Returned
  <2>2. seek' = seek + SeekDelta(decoders[best]) /\ decoders[best].seek_delta \in 1 .. Chunk
    BY <2>1 DEF Output, WhisperInv, DecodersInv, Decoder
  <2>3. /\ seek \in Nat /\ seek + DeltaMin < params.seek_end /\ params.seek_end \in Nat
        /\ DeltaMin \in Nat /\ DeltaMin > 0 /\ Chunk \in Nat /\ Chunk > 1
    BY Lengths DEF WhisperInv
  <2>4. SeekDelta(decoders[best]) \in 1 .. Chunk
    BY <2>2, <2>3 DEF SeekDelta, Less
  <2>5. QED
    BY <2>2, <2>3, <2>4
<1>2. QED
  BY <1>1, WhisperInvariant, PTL DEF Spec, ChunkIsLeft

-----------------------------------------------------------------------------
(***************************************************************************)
(* Lists of a finite set, and folds of the library from left to right,     *)
(* which are a recursive function on the sets of places: each value        *)
(* follows from the one before.                                            *)
(***************************************************************************)

\* Every set of naturals that is not empty has a least member.
LEMMA LeastOne ==
  ASSUME NEW S, S \subseteq Nat, S # {}
  PROVE  \E m \in S : \A n \in S : m <= n
<1> DEFINE R == OpToRel(<, Nat)
<1>1. IsWellFoundedOn(R, Nat)
  BY NatLessThanWellFounded
<1> HIDE DEF R
<1>2. PICK m \in S : \A n \in S : <<n, m>> \notin R
  BY <1>1, WFMin
<1>3. \A n \in S : ~(n < m)
  BY <1>2 DEF R, OpToRel
<1>4. QED
  BY <1>2, <1>3

\* Min of the library is that member.
LEMMA LeastIsMin ==
  ASSUME NEW S, S \subseteq Nat, S # {}
  PROVE  Min(S) \in S /\ \A n \in S : Min(S) <= n
BY LeastOne DEF Min

\* What holds of 0 and goes on from each number to the next holds up to n.
LEMMA StepByStep ==
  ASSUME NEW n \in Nat, NEW G, 0 \in G, \A k \in 0 .. n - 1 : k \in G => k + 1 \in G
  PROVE  \A k \in 0 .. n : k \in G
<1> SUFFICES ASSUME (0 .. n) \ G # {} PROVE FALSE
  OBVIOUS
<1>1. PICK m \in (0 .. n) \ G : \A k \in (0 .. n) \ G : m <= k
  BY LeastOne, (0 .. n) \ G \subseteq Nat
<1>2. m - 1 \in 0 .. n - 1 /\ m - 1 \in G
  BY <1>1
<1>3. QED
  BY <1>1, <1>2

\* A set of naturals below n has a greatest member.
LEMMA GreatestIsMax ==
  ASSUME NEW S, NEW n \in Nat, S \subseteq 0 .. n, S # {}
  PROVE  Max(S) \in S /\ \A k \in S : Max(S) >= k
<1> DEFINE B == {m \in Nat : \A k \in S : k <= m}
<1>1. B \subseteq Nat /\ n \in B
  OBVIOUS
<1>2. PICK m \in B : \A k \in B : m <= k
  BY <1>1, LeastOne
<1>3. m \in S
  <2> SUFFICES ASSUME m \notin S PROVE FALSE
    OBVIOUS
  <2>1. \A k \in S : k <= m - 1
    BY <1>2
  <2>2. m - 1 \in Nat
    <3>1. PICK k \in S : TRUE
      OBVIOUS
    <3>2. k \in 0 .. n /\ k <= m - 1 /\ m \in Nat
      BY <2>1, <1>2
    <3>3. QED
      BY <3>2
  <2>3. m - 1 \in B
    BY <2>1, <2>2
  <2>4. QED
    BY <2>3, <1>2
<1>4. m \in S /\ \A k \in S : m >= k
  BY <1>2, <1>3
<1>5. QED
  BY <1>4 DEF Max

\* InOrder lists a finite set of numbers.
LEMMA Listed ==
  ASSUME NEW S, S \subseteq Int, IsFiniteSet(S)
  PROVE  /\ Cardinality(S) \in Nat
         /\ InOrder(S) \in [1 .. Cardinality(S) -> S]
         /\ \A k, l \in 1 .. Cardinality(S) : k < l => InOrder(S)[k] < InOrder(S)[l]
         /\ \A x \in S : \E k \in 1 .. Cardinality(S) : InOrder(S)[k] = x
<1> DEFINE n == Cardinality(S)
           upTo(x) == {y \in S : y <= x}
           rank == [x \in S |-> Cardinality(upTo(x))]
<1>1. n \in Nat
  BY FS_CardinalityType
<1>2. \A x \in S : IsFiniteSet(upTo(x)) /\ Cardinality(upTo(x)) \in Nat /\ Cardinality(upTo(x)) <= n
  BY FS_Subset, FS_CardinalityType
<1>3. \A x, y \in S : x < y => Cardinality(upTo(x)) < Cardinality(upTo(y))
  <2> SUFFICES ASSUME NEW x \in S, NEW y \in S, x < y
               PROVE  Cardinality(upTo(x)) < Cardinality(upTo(y))
    OBVIOUS
  <2>0. x \in Int /\ y \in Int /\ \A z \in S : z \in Int
    OBVIOUS
  <2>1. upTo(x) \in SUBSET upTo(y) /\ y \in upTo(y) /\ y \notin upTo(x)
    <3>1. \A z \in upTo(x) : z \in upTo(y)
      BY <2>0
    <3>2. y \in upTo(y) /\ y \notin upTo(x)
      BY <2>0
    <3>3. QED
      BY <3>1, <3>2
  <2>2. IsFiniteSet(upTo(y)) /\ Cardinality(upTo(x)) \in Nat /\ Cardinality(upTo(y)) \in Nat
    BY <1>2
  <2> HIDE DEF upTo
  <2>3. Cardinality(upTo(x)) <= Cardinality(upTo(y)) /\ Cardinality(upTo(x)) # Cardinality(upTo(y))
    BY <2>1, <2>2, FS_Subset
  <2>4. QED
    BY <2>2, <2>3
<1>4. \A x \in S : Cardinality(upTo(x)) >= 1
  <2> SUFFICES ASSUME NEW x \in S PROVE Cardinality(upTo(x)) >= 1
    OBVIOUS
  <2>1. IsFiniteSet(upTo(x)) /\ Cardinality(upTo(x)) \in Nat /\ upTo(x) # {}
    BY <1>2
  <2> HIDE DEF upTo
  <2>2. Cardinality(upTo(x)) # 0
    BY <2>1, FS_EmptySet
  <2>3. QED
    BY <2>1, <2>2
<1>5. rank \in [S -> 1 .. n]
  BY <1>1, <1>2, <1>4
<1>6. \A x, y \in S : x < y => rank[x] < rank[y]
  BY <1>3
<1> HIDE DEF rank, upTo
<1>7. \A x, y \in S : rank[x] = rank[y] => x = y
  <2> SUFFICES ASSUME NEW x \in S, NEW y \in S, rank[x] = rank[y], x # y PROVE FALSE
    OBVIOUS
  <2>1. x \in Int /\ y \in Int /\ rank[x] \in Int
    BY <1>5, <1>1
  <2>2. x < y \/ y < x
    BY <2>1
  <2>3. QED
    BY <2>1, <2>2, <1>6
<1>8. rank \in Injection(S, 1 .. n)
  BY <1>5, <1>7 DEF Injection, IsInjective
<1>9. IsFiniteSet(1 .. n) /\ Cardinality(1 .. n) = n
  BY <1>1, FS_Interval
<1> HIDE DEF n
<1>10. rank \in Surjection(S, 1 .. n)
  BY <1>8, <1>9, FS_Injection DEF n
<1>11. \A k \in 1 .. n : \E x \in S : rank[x] = k
  BY <1>10 DEF Surjection
<1> DEFINE list == [k \in 1 .. n |-> CHOOSE x \in S : rank[x] = k]
<1>12. \A k \in 1 .. n : list[k] \in S /\ rank[list[k]] = k
  BY <1>11
<1>13. list \in [1 .. n -> S]
  BY <1>12
<1> HIDE DEF list
<1>14. \A k, l \in 1 .. n : k < l => list[k] < list[l]
  <2> SUFFICES ASSUME NEW k \in 1 .. n, NEW l \in 1 .. n, k < l, ~(list[k] < list[l]) PROVE FALSE
    OBVIOUS
  <2>1. list[k] \in S /\ list[l] \in S /\ rank[list[k]] = k /\ rank[list[l]] = l
    BY <1>12
  <2>2. list[k] \in Int /\ list[l] \in Int
    BY <2>1
  <2>3. list[k] = list[l] \/ list[l] < list[k]
    BY <2>2
  <2>4. list[k] = list[l] => k = l
    BY <2>1
  <2>5. list[l] < list[k] => rank[list[l]] < rank[list[k]]
    BY <2>1, <1>6
  <2>6. QED
    BY <2>1, <2>3, <2>4, <2>5, <1>1
<1> DEFINE sorted(s) == s \in [1 .. n -> S] /\ \A k, l \in 1 .. n : k < l => s[k] < s[l]
<1>15. sorted(InOrder(S))
  <2>1. \E s \in [1 .. n -> S] : \A k, l \in 1 .. n : k < l => s[k] < s[l]
    BY <1>13, <1>14
  <2>2. InOrder(S) = CHOOSE s \in [1 .. n -> S] : \A k, l \in 1 .. n : k < l => s[k] < s[l]
    BY DEF InOrder, n
  <2>3. QED
    BY <2>1, <2>2
<1> DEFINE s == InOrder(S)
<1>16. s \in Injection(1 .. n, S)
  <2>1. \A k, l \in 1 .. n : s[k] = s[l] => k = l
    <3> SUFFICES ASSUME NEW k \in 1 .. n, NEW l \in 1 .. n, s[k] = s[l], k # l PROVE FALSE
      OBVIOUS
    <3>1. k < l \/ l < k
      BY <1>1
    <3>2. s[k] \in Int /\ s[l] \in Int
      BY <1>15
    <3>3. QED
      BY <3>1, <3>2, <1>15
  <2>2. QED
    BY <2>1, <1>15 DEF Injection, IsInjective
<1> HIDE DEF s
<1>17. s \in Surjection(1 .. n, S)
  BY <1>16, <1>9, FS_Injection DEF n
<1>18. \A x \in S : \E k \in 1 .. n : s[k] = x
  BY <1>17 DEF Surjection
<1>19. QED
  BY <1>1, <1>15, <1>18 DEF n, s

\* The last place of the first k, and the places before it.
LEMMA MaxUpTo ==
  ASSUME NEW k \in Nat, k > 0
  PROVE  Max(1 .. k) = k /\ (1 .. k) \ {k} = 1 .. k - 1
<1>1. Max(1 .. k) \in 1 .. k /\ \A l \in 1 .. k : Max(1 .. k) >= l
  BY GreatestIsMax, 1 .. k \subseteq 0 .. k, k \in 1 .. k
<1>2. QED
  BY <1>1

\* The values of a fold from left to right, for every set of places, and one after the other.
IsFold(f, V, n, step, base) ==
  /\ f \in [SUBSET (1 .. n) -> V]
  /\ \A s \in SUBSET (1 .. n) : f[s] = IF s = {} THEN base ELSE step[Max(s)][f[s \ {Max(s)}]]

IsRun(r, V, n, step, base) ==
  /\ r \in [0 .. n -> V]
  /\ r[0] = base
  /\ \A k \in 1 .. n : r[k] = step[k][r[k - 1]]

\* g, at the sets of the first places, does what the steps say.
FollowsSteps(g, V, n, step, base) ==
  /\ g[{}] = base
  /\ \A k \in 1 .. n : g[1 .. k - 1] \in V => g[1 .. k] = step[k][g[1 .. k - 1]]

\* The recursive function behind a fold from left to right over n elements: there is one when
\* each step, a function on V, stays in V.
LEMMA FoldExists ==
  ASSUME NEW V, NEW n \in Nat, NEW step \in [1 .. n -> [V -> V]], NEW base \in V
  PROVE  \E f : IsFold(f, V, n, step, base)
<1> DEFINE Folds(f, k) == \A s \in SUBSET (1 .. k) :
                            f[s] = IF s = {} THEN base ELSE step[Max(s)][f[s \ {Max(s)}]]
           G == {k \in 0 .. n : \E f \in [SUBSET (1 .. k) -> V] : Folds(f, k)}
<1>m. \A k \in 1 .. n : \A s \in SUBSET (1 .. k) :
         s # {} => /\ Max(s) \in s /\ Max(s) \in 1 .. k /\ s \ {Max(s)} \in SUBSET (1 .. k)
                   /\ s \ {Max(s)} \in SUBSET (1 .. Max(s) - 1)
  <2> SUFFICES ASSUME NEW k \in 1 .. n, NEW s \in SUBSET (1 .. k), s # {}
               PROVE  /\ Max(s) \in s /\ Max(s) \in 1 .. k /\ s \ {Max(s)} \in SUBSET (1 .. k)
                      /\ s \ {Max(s)} \in SUBSET (1 .. Max(s) - 1)
    OBVIOUS
  <2>1. k \in Nat /\ s \subseteq 0 .. k
    OBVIOUS
  <2>2. Max(s) \in s /\ \A x \in s : Max(s) >= x
    BY <2>1, GreatestIsMax
  <2>3. Max(s) \in 1 .. k
    BY <2>2
  <2>4. \A x \in s \ {Max(s)} : x \in 1 .. k /\ x \in 1 .. Max(s) - 1
    BY <2>2, <2>3
  <2>5. QED
    BY <2>2, <2>3, <2>4
<1>1. 0 \in G
  <2> DEFINE f == [s \in SUBSET (1 .. 0) |-> base]
  <2>1. f \in [SUBSET (1 .. 0) -> V]
    OBVIOUS
  <2>2. \A s \in SUBSET (1 .. 0) : s = {}
    OBVIOUS
  <2>3. \A s \in SUBSET (1 .. 0) : f[s] = base
    OBVIOUS
  <2> HIDE DEF f
  <2>4. Folds(f, 0)
    BY <2>2, <2>3
  <2> HIDE DEF Folds
  <2>5. \E h \in [SUBSET (1 .. 0) -> V] : Folds(h, 0)
    BY <2>1, <2>4
  <2>6. 0 \in 0 .. n
    OBVIOUS
  <2>7. QED
    BY <2>5, <2>6
<1>2. ASSUME NEW k \in 0 .. n - 1, k \in G PROVE k + 1 \in G
  <2>1. PICK f \in [SUBSET (1 .. k) -> V] : Folds(f, k)
    BY <1>2
  <2> DEFINE g == [s \in SUBSET (1 .. k + 1) |->
                     IF k + 1 \in s THEN step[k + 1][f[s \ {k + 1}]] ELSE f[s]]
  <2>2. \A s \in SUBSET (1 .. k + 1) : s \ {k + 1} \in SUBSET (1 .. k)
    OBVIOUS
  <2>3. \A s \in SUBSET (1 .. k + 1) : k + 1 \notin s => s \in SUBSET (1 .. k)
    OBVIOUS
  <2>4. k + 1 \in 1 .. n
    OBVIOUS
  <2>5. step[k + 1] \in [V -> V]
    BY <2>4
  <2>6. \A s \in SUBSET (1 .. k + 1) : g[s] \in V
    BY <2>2, <2>3, <2>5
  <2>7. g \in [SUBSET (1 .. k + 1) -> V]
    BY <2>6
  <2>8. \A s \in SUBSET (1 .. k) : s \in SUBSET (1 .. k + 1) /\ k + 1 \notin s /\ g[s] = f[s]
    <3>1. \A s \in SUBSET (1 .. k) : s \in SUBSET (1 .. k + 1) /\ k + 1 \notin s
      OBVIOUS
    <3>2. QED
      BY <3>1
  <2>9. ASSUME NEW s \in SUBSET (1 .. k + 1)
        PROVE  g[s] = IF s = {} THEN base ELSE step[Max(s)][g[s \ {Max(s)}]]
    <3>1. CASE k + 1 \in s
      <4>1. Max(s) \in s /\ Max(s) \in 1 .. k + 1 /\ s \ {Max(s)} \in SUBSET (1 .. Max(s) - 1)
        BY <3>1, <2>4, <1>m
      <4>2. Max(s) = k + 1
        BY <4>1, <3>1
      <4>3. g[s \ {k + 1}] = f[s \ {k + 1}]
        BY <2>2, <2>8
      <4>4. g[s] = step[k + 1][f[s \ {k + 1}]]
        BY <3>1
      <4>5. QED
        BY <3>1, <4>2, <4>3, <4>4
    <3>2. CASE k + 1 \notin s
      <4>1. s \in SUBSET (1 .. k) /\ g[s] = f[s]
        BY <3>2, <2>3, <2>8
      <4>2. f[s] = IF s = {} THEN base ELSE step[Max(s)][f[s \ {Max(s)}]]
        BY <4>1, <2>1
      <4>3. s # {} => s \ {Max(s)} \in SUBSET (1 .. k)
        BY <4>1
      <4>4. s # {} => g[s \ {Max(s)}] = f[s \ {Max(s)}]
        BY <4>3, <2>8
      <4>5. QED
        BY <4>1, <4>2, <4>4
    <3>3. QED
      BY <3>1, <3>2
  <2> HIDE DEF g
  <2>10. Folds(g, k + 1)
    BY <2>9
  <2> HIDE DEF Folds
  <2>11. \E h \in [SUBSET (1 .. k + 1) -> V] : Folds(h, k + 1)
    BY <2>7, <2>10
  <2>12. k + 1 \in 0 .. n
    BY <2>4
  <2>13. QED
    BY <2>11, <2>12
<1>3. n \in G
  <2> HIDE DEF G
  <2>1. \A k \in 0 .. n : k \in G
    BY <1>1, <1>2, StepByStep
  <2>2. QED
    BY <2>1
<1>4. QED
  BY <1>3 DEF IsFold

-----------------------------------------------------------------------------
(***************************************************************************)
(* The cache: what its operations do to the cells of every sequence.       *)
(***************************************************************************)

\* A cell with the sequences it belongs to, and a cache of them.
Cell == [pos : Nat, seqs : SUBSET Nat, from : Seq(Tokens)]
Caches ==
  [cells : UNION {[D -> Cell] : D \in SUBSET Nat}, size : Nat, head : Nat, n : Nat]

\* Sequence q has cell c.
Holds(cache, c, q) == c \in DOMAIN cache.cells /\ q \in cache.cells[c].seqs

\* The cells in use, and the place to look for free ones, lie below h.
Below(cache, h) == DOMAIN cache.cells \subseteq 0 .. h - 1 /\ cache.head <= h

\* What sequences are given and what they lose: the tokens stay where they are.
Narrowed(new, old) ==
  /\ new.size = old.size /\ new.n = old.n
  /\ DOMAIN new.cells \subseteq DOMAIN old.cells
  /\ \A c \in DOMAIN new.cells :
       new.cells[c].pos = old.cells[c].pos /\ new.cells[c].from = old.cells[c].from
  /\ \A h \in Nat : Below(old, h) => Below(new, h)

\* The parts of a cache.
LEMMA CachesAre ==
  ASSUME NEW cache \in Caches
  PROVE  /\ DOMAIN cache.cells \subseteq Nat
         /\ cache.cells \in [DOMAIN cache.cells -> Cell]
         /\ cache.size \in Nat /\ cache.head \in Nat /\ cache.n \in Nat
<1>1. /\ cache.cells \in UNION {[D -> Cell] : D \in SUBSET Nat}
      /\ cache.size \in Nat /\ cache.head \in Nat /\ cache.n \in Nat
  BY DEF Caches
<1>2. PICK D \in SUBSET Nat : cache.cells \in [D -> Cell]
  BY <1>1
<1>3. DOMAIN cache.cells = D
  BY <1>2
<1>4. QED
  BY <1>1, <1>2, <1>3

\* A cache from its parts.
LEMMA MakeCache ==
  ASSUME NEW D \in SUBSET Nat, NEW cells \in [D -> Cell],
         NEW size \in Nat, NEW head \in Nat, NEW n \in Nat
  PROVE  [cells |-> cells, size |-> size, head |-> head, n |-> n] \in Caches
BY DEF Caches

\* One change after another, ...
LEMMA NarrowedTwice ==
  ASSUME NEW a, NEW b, NEW c, Narrowed(b, a), Narrowed(c, b)
  PROVE  Narrowed(c, a)
BY DEF Narrowed

\* ... and none.
LEMMA NotNarrowed ==
  ASSUME NEW a
  PROVE  Narrowed(a, a)
BY DEF Narrowed

\* whisper_kv_cache_seq_cp: what src has, dst has too.
LEMMA CopyGives ==
  ASSUME NEW cache \in Caches, NEW src \in Nat, NEW dst \in Nat
  PROVE  /\ SeqCopy(cache, src, dst) \in Caches
         /\ Narrowed(SeqCopy(cache, src, dst), cache)
         /\ DOMAIN SeqCopy(cache, src, dst).cells = DOMAIN cache.cells
         /\ \A c, q : Holds(SeqCopy(cache, src, dst), c, q)
                        <=> Holds(cache, c, q) \/ (q = dst /\ Holds(cache, c, src))
<1> DEFINE cells == [c \in DOMAIN cache.cells |->
                       IF src \in cache.cells[c].seqs
                         THEN [cache.cells[c] EXCEPT !.seqs = @ \union {dst}]
                         ELSE cache.cells[c]]
           copy == SeqCopy(cache, src, dst)
<1>1. copy = [cache EXCEPT !.cells = cells, !.head = 0]
  BY DEF SeqCopy
<1>2. /\ DOMAIN cache.cells \subseteq Nat /\ cache.cells \in [DOMAIN cache.cells -> Cell]
      /\ cache.size \in Nat /\ cache.head \in Nat /\ cache.n \in Nat
  BY CachesAre
<1>3. copy = [cells |-> cells, size |-> cache.size, head |-> 0, n |-> cache.n]
  BY <1>1 DEF Caches
<1>4. \A c \in DOMAIN cache.cells :
        /\ cells[c] \in Cell
        /\ cells[c].pos = cache.cells[c].pos /\ cells[c].from = cache.cells[c].from
        /\ cells[c].seqs = cache.cells[c].seqs
                             \union (IF src \in cache.cells[c].seqs THEN {dst} ELSE {})
  BY <1>2 DEF Cell
<1>5. cells \in [DOMAIN cache.cells -> Cell]
  BY <1>4
<1>6. DOMAIN cells = DOMAIN cache.cells
  OBVIOUS
<1> HIDE DEF cells, copy
<1>7. copy \in Caches
  BY <1>2, <1>3, <1>5, MakeCache
<1>8. /\ copy.cells = cells /\ copy.size = cache.size /\ copy.n = cache.n /\ copy.head = 0
  BY <1>3
<1>9. Narrowed(copy, cache)
  BY <1>4, <1>6, <1>8 DEF Narrowed, Below
<1>10. \A c, q : Holds(copy, c, q) <=> Holds(cache, c, q) \/ (q = dst /\ Holds(cache, c, src))
  BY <1>4, <1>6, <1>8 DEF Holds
<1>11. QED
  BY <1>6, <1>7, <1>8, <1>9, <1>10 DEF copy

Copied(new, old, src, dst) ==
  /\ Narrowed(new, old) /\ DOMAIN new.cells = DOMAIN old.cells
  /\ \A c, q : Holds(new, c, q) <=> Holds(old, c, q) \/ (q = dst /\ Holds(old, c, src))

LEMMA CopyIsCopied ==
  ASSUME NEW cache \in Caches, NEW src \in Nat, NEW dst \in Nat
  PROVE  Copied(SeqCopy(cache, src, dst), cache, src, dst)
BY CopyGives DEF Copied

\* whisper_kv_cache_seq_rm: seq has nothing left, and cells of nobody are free.
LEMMA RemoveTakes ==
  ASSUME NEW cache \in Caches, NEW seq \in Nat
  PROVE  /\ SeqRemove(cache, seq) \in Caches
         /\ Narrowed(SeqRemove(cache, seq), cache)
         /\ \A c, q : Holds(SeqRemove(cache, seq), c, q) <=> Holds(cache, c, q) /\ q # seq
<1> DEFINE left   == [c \in DOMAIN cache.cells |-> cache.cells[c].seqs \ {seq}]
           freed  == {c \in DOMAIN cache.cells : left[c] = {}}
           cells  == [c \in DOMAIN cache.cells \ freed |-> [cache.cells[c] EXCEPT !.seqs = left[c]]]
           head   == IF freed # {} THEN Min(freed) ELSE cache.head
           remove == SeqRemove(cache, seq)
<1>1. remove = [cache EXCEPT !.cells = cells, !.head = head]
  BY DEF SeqRemove
<1>2. /\ DOMAIN cache.cells \subseteq Nat /\ cache.cells \in [DOMAIN cache.cells -> Cell]
      /\ cache.size \in Nat /\ cache.head \in Nat /\ cache.n \in Nat
  BY CachesAre
<1>3. remove = [cells |-> cells, size |-> cache.size, head |-> head, n |-> cache.n]
  BY <1>1 DEF Caches
<1>4. \A c \in DOMAIN cache.cells \ freed :
        /\ cells[c] \in Cell
        /\ cells[c].pos = cache.cells[c].pos /\ cells[c].from = cache.cells[c].from
        /\ cells[c].seqs = cache.cells[c].seqs \ {seq}
  <2> SUFFICES ASSUME NEW c \in DOMAIN cache.cells \ freed
               PROVE  /\ cells[c] \in Cell
                      /\ cells[c].pos = cache.cells[c].pos
                      /\ cells[c].from = cache.cells[c].from
                      /\ cells[c].seqs = cache.cells[c].seqs \ {seq}
    OBVIOUS
  <2>1. cells[c] = [cache.cells[c] EXCEPT !.seqs = cache.cells[c].seqs \ {seq}]
    OBVIOUS
  <2>2. cache.cells[c] \in Cell
    BY <1>2
  <2> HIDE DEF cells
  <2>3. cells[c] \in Cell
    BY <2>1, <2>2 DEF Cell
  <2>4. /\ cells[c].pos = cache.cells[c].pos /\ cells[c].from = cache.cells[c].from
        /\ cells[c].seqs = cache.cells[c].seqs \ {seq}
    BY <2>1, <2>2 DEF Cell
  <2> QED
    BY <2>3, <2>4
<1>5. cells \in [DOMAIN cache.cells \ freed -> Cell]
  BY <1>4
<1>6. /\ DOMAIN cells = DOMAIN cache.cells \ freed
      /\ freed \subseteq DOMAIN cache.cells
      /\ \A c \in freed : cache.cells[c].seqs \ {seq} = {}
  OBVIOUS
<1> HIDE DEF cells
<1>7. freed # {} => Min(freed) \in freed
  BY <1>2, LeastIsMin
<1> HIDE DEF freed
<1>8. head \in Nat /\ (head = cache.head \/ head \in DOMAIN cache.cells)
  BY <1>2, <1>6, <1>7
<1> HIDE DEF head, remove
<1>9. DOMAIN cache.cells \ freed \in SUBSET Nat
  BY <1>2
<1>10. remove \in Caches
  BY <1>2, <1>3, <1>5, <1>8, <1>9, MakeCache
<1>11. remove.cells = cells /\ remove.size = cache.size /\ remove.n = cache.n /\ remove.head = head
  BY <1>3
<1>12. \A h \in Nat : Below(cache, h) => Below(remove, h)
  <2> SUFFICES ASSUME NEW h \in Nat, Below(cache, h) PROVE Below(remove, h)
    OBVIOUS
  <2>1. head <= h
    <3>1. CASE head = cache.head
      BY <3>1 DEF Below
    <3>2. CASE head \in DOMAIN cache.cells
      <4>1. head \in 0 .. h - 1
        BY <3>2 DEF Below
      <4>2. QED
        BY <4>1
    <3>3. QED
      BY <1>8, <3>1, <3>2
  <2>2. QED
    BY <2>1, <1>6, <1>11 DEF Below
<1>13. Narrowed(remove, cache)
  BY <1>4, <1>6, <1>11, <1>12 DEF Narrowed
<1>14. \A c, q : Holds(remove, c, q) <=> Holds(cache, c, q) /\ q # seq
  BY <1>4, <1>6, <1>11 DEF Holds
<1>15. QED
  BY <1>10, <1>13, <1>14 DEF remove

\* The values along such a fold stay in V.
LEMMA FoldInTurn ==
  ASSUME NEW V, NEW n \in Nat, NEW step \in [1 .. n -> [V -> V]], NEW base \in V, NEW g,
         FollowsSteps(g, V, n, step, base)
  PROVE  \E r : IsRun(r, V, n, step, base) /\ r[n] = g[1 .. n]
<1> DEFINE r == [k \in 0 .. n |-> g[1 .. k]]
           G == {k \in 0 .. n : r[k] \in V}
<1>1. r[0] = base /\ r[n] = g[1 .. n]
  BY 1 .. 0 = {} DEF FollowsSteps
<1>2. \A k \in 1 .. n : r[k - 1] \in V => r[k] = step[k][r[k - 1]]
  BY DEF FollowsSteps
<1>d. r = [k \in 0 .. n |-> r[k]]
  OBVIOUS
<1> HIDE DEF r
<1>3. 0 \in G
  BY <1>1
<1>4. ASSUME NEW k \in 0 .. n - 1, k \in G PROVE k + 1 \in G
  <2>1. k + 1 \in 1 .. n /\ k + 1 \in 0 .. n /\ (k + 1) - 1 = k /\ r[k] \in V
    BY <1>4
  <2>2. r[k + 1] = step[k + 1][r[k]]
    BY <2>1, <1>2
  <2>3. step[k + 1] \in [V -> V]
    BY <2>1
  <2>4. r[k + 1] \in V
    BY <2>1, <2>2, <2>3
  <2>5. QED
    BY <2>1, <2>4
<1> HIDE DEF G
<1>5. \A k \in 0 .. n : k \in G
  BY <1>3, <1>4, StepByStep
<1>6. \A k \in 0 .. n : r[k] \in V
  BY <1>5 DEF G
<1>7. r \in [0 .. n -> V]
  BY <1>6, <1>d
<1>8. QED
  BY <1>1, <1>2, <1>6, <1>7 DEF IsRun

\* Every decoder of o has a source.
HasSources(src, o, n) == \A k \in 1 .. n : src[o[k]] \in Nat

\* The staging, one copy after the other.
StagingFold(cache, src, o) ==
  FoldLeft(LAMBDA c, j : SeqCopy(c, src[j], MaxDecoders + j), cache, o)

\* The caches along the way.
IsStaging(r, cache, src, o, n) ==
  /\ r \in [0 .. n -> Caches]
  /\ r[0] = cache
  /\ \A k \in 1 .. n : r[k] = SeqCopy(r[k - 1], src[o[k]], MaxDecoders + o[k])
  /\ StagingFold(cache, src, o) = r[n]

\* One copy after the other is what the fold of the staging does.
LEMMA StagingInTurn ==
  ASSUME NEW cache \in Caches, NEW n \in Nat, NEW o \in [1 .. n -> Nat],
         NEW src, HasSources(src, o, n)
  PROVE  \E r : IsStaging(r, cache, src, o, n)
<1> DEFINE step == [k \in 1 .. n |-> [c \in Caches |-> SeqCopy(c, src[o[k]], MaxDecoders + o[k])]]
           Solves(g) == g = [s \in SUBSET DOMAIN o |->
                               IF s = {} THEN cache
                               ELSE SeqCopy(g[s \ {Max(s)}], src[o[Max(s)]], MaxDecoders + o[Max(s)])]
           iter == CHOOSE g : Solves(g)
<1>1. \A k \in 1 .. n, c \in Caches : SeqCopy(c, src[o[k]], MaxDecoders + o[k]) \in Caches
  <2> SUFFICES ASSUME NEW k \in 1 .. n, NEW c \in Caches
               PROVE  SeqCopy(c, src[o[k]], MaxDecoders + o[k]) \in Caches
    OBVIOUS
  <2>1. src[o[k]] \in Nat /\ MaxDecoders + o[k] \in Nat
    BY DEF MaxDecoders, HasSources
  <2>2. QED
    BY <2>1, CopyGives
<1>2. step \in [1 .. n -> [Caches -> Caches]]
  BY <1>1
<1>3. \A k \in 1 .. n, c \in Caches : step[k][c] = SeqCopy(c, src[o[k]], MaxDecoders + o[k])
  OBVIOUS
<1>4. DOMAIN o = 1 .. n
  OBVIOUS
<1> HIDE DEF step
<1>5. PICK f : IsFold(f, Caches, n, step, cache)
  BY <1>2, FoldExists
<1>6. Solves(f)
  <2>1. ASSUME NEW s \in SUBSET (1 .. n), s # {}
        PROVE  f[s] = SeqCopy(f[s \ {Max(s)}], src[o[Max(s)]], MaxDecoders + o[Max(s)])
    <3>1. Max(s) \in 1 .. n
      BY <2>1, GreatestIsMax, s \subseteq 0 .. n
    <3>2. f[s \ {Max(s)}] \in Caches
      BY <1>5, s \ {Max(s)} \in SUBSET (1 .. n) DEF IsFold
    <3>3. f[s] = step[Max(s)][f[s \ {Max(s)}]]
      BY <2>1, <1>5 DEF IsFold
    <3>4. QED
      BY <3>1, <3>2, <3>3, <1>3
  <2>2. \A s \in SUBSET (1 .. n) :
          f[s] = IF s = {} THEN cache
                 ELSE SeqCopy(f[s \ {Max(s)}], src[o[Max(s)]], MaxDecoders + o[Max(s)])
    BY <2>1, <1>5 DEF IsFold
  <2>3. f \in [SUBSET (1 .. n) -> Caches]
    BY <1>5 DEF IsFold
  <2>4. QED
    BY <2>2, <2>3, <1>4
<1>7. Solves(iter)
  <2> HIDE DEF Solves
  <2>1. QED
    BY <1>6
<1>8. StagingFold(cache, src, o) = iter[1 .. n]
  <2>1. StagingFold(cache, src, o) = iter[DOMAIN o]
    BY DEF StagingFold, FoldLeft, MapThenFoldSet
  <2>2. QED
    BY <2>1, <1>4
<1> HIDE DEF iter
<1>9. iter[{}] = cache
  BY <1>7
<1>10. ASSUME NEW k \in 1 .. n
       PROVE  iter[1 .. k] = SeqCopy(iter[1 .. k - 1], src[o[k]], MaxDecoders + o[k])
  <2> DEFINE s == 1 .. k
  <2>1. s \in SUBSET (1 .. n) /\ s # {}
    <3>1. \A l \in 1 .. k : l \in 1 .. n
      OBVIOUS
    <3>2. k \in 1 .. k
      OBVIOUS
    <3>3. QED
      BY <3>1, <3>2
  <2>2. Max(s) = k /\ s \ {Max(s)} = 1 .. k - 1
    BY MaxUpTo
  <2> HIDE DEF s
  <2>3. iter[s] = SeqCopy(iter[s \ {Max(s)}], src[o[Max(s)]], MaxDecoders + o[Max(s)])
    BY <2>1, <1>4, <1>7
  <2>4. iter[s] = SeqCopy(iter[1 .. k - 1], src[o[k]], MaxDecoders + o[k])
    BY <2>2, <2>3
  <2>5. QED
    BY <2>4 DEF s
<1>11. FollowsSteps(iter, Caches, n, step, cache)
  BY <1>3, <1>9, <1>10 DEF FollowsSteps
<1>12. PICK r : IsRun(r, Caches, n, step, cache) /\ r[n] = iter[1 .. n]
  BY <1>2, <1>11, FoldInTurn
<1>13. \A k \in 1 .. n : r[k] = SeqCopy(r[k - 1], src[o[k]], MaxDecoders + o[k])
  <2>1. ASSUME NEW k \in 1 .. n PROVE r[k - 1] \in Caches /\ r[k] = step[k][r[k - 1]]
    BY <1>12 DEF IsRun
  <2>2. QED
    BY <2>1, <1>3
<1>14. QED
  BY <1>8, <1>12, <1>13 DEF IsRun, IsStaging

\* The sharing of the prompt.
SharingFold(cache, o) == FoldLeft(LAMBDA c, j : SeqCopy(c, 0, j), cache, o)

\* The same of the prompt that is shared out, ...
LEMMA SharingInTurn ==
  ASSUME NEW cache \in Caches, NEW n \in Nat, NEW o \in [1 .. n -> Nat]
  PROVE  \E r \in [0 .. n -> Caches] :
           /\ r[0] = cache
           /\ \A k \in 1 .. n : r[k] = SeqCopy(r[k - 1], 0, o[k])
           /\ SharingFold(cache, o) = r[n]
<1> DEFINE step == [k \in 1 .. n |-> [c \in Caches |-> SeqCopy(c, 0, o[k])]]
           Solves(g) == g = [s \in SUBSET DOMAIN o |->
                               IF s = {} THEN cache
                               ELSE SeqCopy(g[s \ {Max(s)}], 0, o[Max(s)])]
           iter == CHOOSE g : Solves(g)
<1>1. \A k \in 1 .. n, c \in Caches : SeqCopy(c, 0, o[k]) \in Caches
  BY CopyGives
<1>2. step \in [1 .. n -> [Caches -> Caches]]
  BY <1>1
<1>3. \A k \in 1 .. n, c \in Caches : step[k][c] = SeqCopy(c, 0, o[k])
  OBVIOUS
<1>4. DOMAIN o = 1 .. n
  OBVIOUS
<1> HIDE DEF step
<1>5. PICK f : IsFold(f, Caches, n, step, cache)
  BY <1>2, FoldExists
<1>6. Solves(f)
  <2>1. ASSUME NEW s \in SUBSET (1 .. n), s # {}
        PROVE  f[s] = SeqCopy(f[s \ {Max(s)}], 0, o[Max(s)])
    <3>1. Max(s) \in 1 .. n
      BY <2>1, GreatestIsMax, s \subseteq 0 .. n
    <3>2. f[s \ {Max(s)}] \in Caches
      BY <1>5, s \ {Max(s)} \in SUBSET (1 .. n) DEF IsFold
    <3>3. f[s] = step[Max(s)][f[s \ {Max(s)}]]
      BY <2>1, <1>5 DEF IsFold
    <3>4. QED
      BY <3>1, <3>2, <3>3, <1>3
  <2>2. \A s \in SUBSET (1 .. n) :
          f[s] = IF s = {} THEN cache
                 ELSE SeqCopy(f[s \ {Max(s)}], 0, o[Max(s)])
    BY <2>1, <1>5 DEF IsFold
  <2>3. f \in [SUBSET (1 .. n) -> Caches]
    BY <1>5 DEF IsFold
  <2>4. QED
    BY <2>2, <2>3, <1>4
<1>7. Solves(iter)
  <2> HIDE DEF Solves
  <2>1. QED
    BY <1>6
<1>8. SharingFold(cache, o) = iter[1 .. n]
  <2>1. SharingFold(cache, o) = iter[DOMAIN o]
    BY DEF SharingFold, FoldLeft, MapThenFoldSet
  <2>2. QED
    BY <2>1, <1>4
<1> HIDE DEF iter
<1>9. iter[{}] = cache
  BY <1>7
<1>10. ASSUME NEW k \in 1 .. n
       PROVE  iter[1 .. k] = SeqCopy(iter[1 .. k - 1], 0, o[k])
  <2> DEFINE s == 1 .. k
  <2>1. s \in SUBSET (1 .. n) /\ s # {}
    <3>1. \A l \in 1 .. k : l \in 1 .. n
      OBVIOUS
    <3>2. k \in 1 .. k
      OBVIOUS
    <3>3. QED
      BY <3>1, <3>2
  <2>2. Max(s) = k /\ s \ {Max(s)} = 1 .. k - 1
    BY MaxUpTo
  <2> HIDE DEF s
  <2>3. iter[s] = SeqCopy(iter[s \ {Max(s)}], 0, o[Max(s)])
    BY <2>1, <1>4, <1>7
  <2>4. iter[s] = SeqCopy(iter[1 .. k - 1], 0, o[k])
    BY <2>2, <2>3
  <2>5. QED
    BY <2>4 DEF s
<1>11. FollowsSteps(iter, Caches, n, step, cache)
  BY <1>3, <1>9, <1>10 DEF FollowsSteps
<1>12. PICK r : IsRun(r, Caches, n, step, cache) /\ r[n] = iter[1 .. n]
  BY <1>2, <1>11, FoldInTurn
<1>13. \A k \in 1 .. n : r[k] = SeqCopy(r[k - 1], 0, o[k])
  <2>1. ASSUME NEW k \in 1 .. n PROVE r[k - 1] \in Caches /\ r[k] = step[k][r[k - 1]]
    BY <1>12 DEF IsRun
  <2>2. QED
    BY <2>1, <1>3
<1>14. QED
  BY <1>8, <1>12, <1>13 DEF IsRun

\* Each decoder gives up its cells and takes those of its spare sequence.
TakeSpare(c, j) == SeqRemove(SeqCopy(SeqRemove(c, j), MaxDecoders + j, j), MaxDecoders + j)

TakingFold(cache, o) == FoldLeft(LAMBDA c, j : TakeSpare(c, j), cache, o)

\* ... and of the taking.
LEMMA TakingInTurn ==
  ASSUME NEW cache \in Caches, NEW n \in Nat, NEW o \in [1 .. n -> Nat]
  PROVE  \E r \in [0 .. n -> Caches] :
           /\ r[0] = cache
           /\ \A k \in 1 .. n : r[k] = TakeSpare(r[k - 1], o[k])
           /\ TakingFold(cache, o) = r[n]
<1> DEFINE step == [k \in 1 .. n |-> [c \in Caches |-> TakeSpare(c, o[k])]]
           Solves(g) == g = [s \in SUBSET DOMAIN o |->
                               IF s = {} THEN cache
                               ELSE TakeSpare(g[s \ {Max(s)}], o[Max(s)])]
           iter == CHOOSE g : Solves(g)
<1>1. \A k \in 1 .. n, c \in Caches : TakeSpare(c, o[k]) \in Caches
  <2> SUFFICES ASSUME NEW k \in 1 .. n, NEW c \in Caches
               PROVE  TakeSpare(c, o[k]) \in Caches
    OBVIOUS
  <2>1. o[k] \in Nat /\ MaxDecoders + o[k] \in Nat
    BY DEF MaxDecoders
  <2>2. SeqRemove(c, o[k]) \in Caches
    BY <2>1, RemoveTakes
  <2>3. SeqCopy(SeqRemove(c, o[k]), MaxDecoders + o[k], o[k]) \in Caches
    BY <2>1, <2>2, CopyGives
  <2>4. QED
    BY <2>1, <2>3, RemoveTakes DEF TakeSpare
<1>2. step \in [1 .. n -> [Caches -> Caches]]
  BY <1>1
<1>3. \A k \in 1 .. n, c \in Caches : step[k][c] = TakeSpare(c, o[k])
  OBVIOUS
<1>4. DOMAIN o = 1 .. n
  OBVIOUS
<1> HIDE DEF step
<1>5. PICK f : IsFold(f, Caches, n, step, cache)
  BY <1>2, FoldExists
<1>6. Solves(f)
  <2>1. ASSUME NEW s \in SUBSET (1 .. n), s # {}
        PROVE  f[s] = TakeSpare(f[s \ {Max(s)}], o[Max(s)])
    <3>1. Max(s) \in 1 .. n
      BY <2>1, GreatestIsMax, s \subseteq 0 .. n
    <3>2. f[s \ {Max(s)}] \in Caches
      BY <1>5, s \ {Max(s)} \in SUBSET (1 .. n) DEF IsFold
    <3>3. f[s] = step[Max(s)][f[s \ {Max(s)}]]
      BY <2>1, <1>5 DEF IsFold
    <3>4. QED
      BY <3>1, <3>2, <3>3, <1>3
  <2>2. \A s \in SUBSET (1 .. n) :
          f[s] = IF s = {} THEN cache
                 ELSE TakeSpare(f[s \ {Max(s)}], o[Max(s)])
    BY <2>1, <1>5 DEF IsFold
  <2>3. f \in [SUBSET (1 .. n) -> Caches]
    BY <1>5 DEF IsFold
  <2>4. QED
    BY <2>2, <2>3, <1>4
<1>7. Solves(iter)
  <2> HIDE DEF Solves
  <2>1. QED
    BY <1>6
<1>8. TakingFold(cache, o) = iter[1 .. n]
  <2>1. TakingFold(cache, o) = iter[DOMAIN o]
    BY DEF TakingFold, FoldLeft, MapThenFoldSet
  <2>2. QED
    BY <2>1, <1>4
<1> HIDE DEF iter
<1>9. iter[{}] = cache
  BY <1>7
<1>10. ASSUME NEW k \in 1 .. n
       PROVE  iter[1 .. k] = TakeSpare(iter[1 .. k - 1], o[k])
  <2> DEFINE s == 1 .. k
  <2>1. s \in SUBSET (1 .. n) /\ s # {}
    <3>1. \A l \in 1 .. k : l \in 1 .. n
      OBVIOUS
    <3>2. k \in 1 .. k
      OBVIOUS
    <3>3. QED
      BY <3>1, <3>2
  <2>2. Max(s) = k /\ s \ {Max(s)} = 1 .. k - 1
    BY MaxUpTo
  <2> HIDE DEF s
  <2>3. iter[s] = TakeSpare(iter[s \ {Max(s)}], o[Max(s)])
    BY <2>1, <1>4, <1>7
  <2>4. iter[s] = TakeSpare(iter[1 .. k - 1], o[k])
    BY <2>2, <2>3
  <2>5. QED
    BY <2>4 DEF s
<1>11. FollowsSteps(iter, Caches, n, step, cache)
  BY <1>3, <1>9, <1>10 DEF FollowsSteps
<1>12. PICK r : IsRun(r, Caches, n, step, cache) /\ r[n] = iter[1 .. n]
  BY <1>2, <1>11, FoldInTurn
<1>13. \A k \in 1 .. n : r[k] = TakeSpare(r[k - 1], o[k])
  <2>1. ASSUME NEW k \in 1 .. n PROVE r[k - 1] \in Caches /\ r[k] = step[k][r[k - 1]]
    BY <1>12 DEF IsRun
  <2>2. QED
    BY <2>1, <1>3
<1>14. QED
  BY <1>8, <1>12, <1>13 DEF IsRun

\* Every decoder has the cells that decoder 0 has.
LEMMA SharedGives ==
  ASSUME NDecoders \in 1 .. MaxDecoders, NEW cache \in Caches
  PROVE  /\ Shared(cache) \in Caches
         /\ Narrowed(Shared(cache), cache)
         /\ DOMAIN Shared(cache).cells = DOMAIN cache.cells
         /\ \A c, q : Holds(Shared(cache), c, q)
                        <=> Holds(cache, c, q) \/ (q \in 1 .. NDecoders - 1 /\ Holds(cache, c, 0))
<1> DEFINE n == NDecoders - 1
           o == [k \in 1 .. n |-> k]
<1>1. n \in Nat /\ o \in [1 .. n -> Nat] /\ \A k \in 1 .. n : o[k] = k
  OBVIOUS
<1>2. Shared(cache) = SharingFold(cache, o)
  BY DEF Shared, SharingFold
<1> HIDE DEF n, o
<1>3. PICK r \in [0 .. n -> Caches] :
        /\ r[0] = cache
        /\ \A k \in 1 .. n : r[k] = SeqCopy(r[k - 1], 0, o[k])
        /\ SharingFold(cache, o) = r[n]
  BY <1>1, SharingInTurn
<1> DEFINE Done(k) ==
             /\ Narrowed(r[k], cache) /\ DOMAIN r[k].cells = DOMAIN cache.cells
             /\ \A c, q : Holds(r[k], c, q)
                            <=> Holds(cache, c, q) \/ (q \in 1 .. k /\ Holds(cache, c, 0))
           G == {k \in 0 .. n : Done(k)}
<1>4. Done(0)
  <2>1. r[0] = cache /\ \A q : q \notin 1 .. 0
    BY <1>3
  <2>2. QED
    BY <2>1, NotNarrowed
<1>5. ASSUME NEW k \in 0 .. n - 1, Done(k) PROVE Done(k + 1)
  <2>1. k + 1 \in 1 .. n /\ (k + 1) - 1 = k /\ k \in 0 .. n
    BY <1>1
  <2>2. r[k] \in Caches /\ r[k + 1] = SeqCopy(r[k], 0, k + 1)
    BY <2>1, <1>1, <1>3
  <2> DEFINE old == r[k]
             new == r[k + 1]
             dst == k + 1
  <2>a. old \in Caches /\ dst \in Nat /\ 0 \in Nat /\ new = SeqCopy(old, 0, dst)
    BY <2>1, <2>2
  <2> HIDE DEF old, new, dst
  <2>b. /\ Narrowed(new, old) /\ DOMAIN new.cells = DOMAIN old.cells
        /\ \A c, q : Holds(new, c, q) <=> Holds(old, c, q) \/ (q = dst /\ Holds(old, c, 0))
    <3>1. Copied(new, old, 0, dst)
      BY <2>a, CopyIsCopied
    <3>2. QED
      BY <3>1 DEF Copied
  <2>3. /\ Narrowed(r[k + 1], r[k]) /\ DOMAIN r[k + 1].cells = DOMAIN r[k].cells
        /\ \A c, q : Holds(r[k + 1], c, q) <=> Holds(r[k], c, q) \/ (q = k + 1 /\ Holds(r[k], c, 0))
    BY <2>b DEF old, new, dst
  <2>4. Narrowed(r[k + 1], cache)
    BY <2>3, <1>5, NarrowedTwice
  <2>5. \A c : Holds(r[k], c, 0) <=> Holds(cache, c, 0)
    BY <1>5
  <2>6. \A q : q \in 1 .. k + 1 <=> q \in 1 .. k \/ q = k + 1
    BY <2>1
  <2>7. \A c, q : Holds(r[k + 1], c, q)
                    <=> Holds(cache, c, q) \/ (q \in 1 .. k + 1 /\ Holds(cache, c, 0))
    BY <2>3, <2>5, <2>6, <1>5
  <2>8. QED
    BY <2>3, <2>4, <2>7, <1>5
<1>6. Done(n)
  <2> HIDE DEF Done
  <2>1. 0 \in G
    BY <1>1, <1>4
  <2>2. \A k \in 0 .. n - 1 : k \in G => k + 1 \in G
    BY <1>1, <1>5
  <2> HIDE DEF G
  <2>3. \A k \in 0 .. n : k \in G
    BY <2>1, <2>2, <1>1, StepByStep
  <2>4. QED
    BY <2>3, <1>1 DEF G
<1>7. QED
  BY <1>1, <1>2, <1>3, <1>6 DEF n

\* The decoders that go on, listed.
LEMMA LiveListed ==
  ASSUME NDecoders \in 1 .. MaxDecoders
  PROVE  /\ IsFiniteSet(Live) /\ Live \subseteq 0 .. MaxDecoders - 1
         /\ Cardinality(Live) \in Nat /\ Cardinality(Live) <= NDecoders
         /\ LiveInOrder \in [1 .. Cardinality(Live) -> Live]
         /\ \A k, l \in 1 .. Cardinality(Live) : LiveInOrder[k] = LiveInOrder[l] => k = l
         /\ \A j \in Live : \E k \in 1 .. Cardinality(Live) : LiveInOrder[k] = j
<1>1. Live \in SUBSET (0 .. NDecoders - 1)
  BY DEF Live, Running
<1>2. IsFiniteSet(0 .. NDecoders - 1) /\ Cardinality(0 .. NDecoders - 1) = NDecoders
  BY FS_Interval
<1>3. IsFiniteSet(Live) /\ Cardinality(Live) <= NDecoders
  <2> DEFINE all  == 0 .. NDecoders - 1
             live == Live
  <2>1. live \in SUBSET all /\ IsFiniteSet(all) /\ Cardinality(all) = NDecoders
    BY <1>1, <1>2
  <2> HIDE DEF all, live
  <2>2. IsFiniteSet(live) /\ Cardinality(live) <= Cardinality(all)
    BY <2>1, FS_Subset
  <2> QED
    BY <2>1, <2>2 DEF live
<1>4. Live \subseteq Int /\ Live \subseteq 0 .. MaxDecoders - 1
  BY <1>1 DEF MaxDecoders
<1> DEFINE n == Cardinality(Live)
<1>5. /\ n \in Nat
      /\ LiveInOrder \in [1 .. n -> Live]
      /\ \A k, l \in 1 .. n : k < l => LiveInOrder[k] < LiveInOrder[l]
      /\ \A x \in Live : \E k \in 1 .. n : LiveInOrder[k] = x
  BY <1>3, <1>4, Listed DEF LiveInOrder
<1> HIDE DEF n
<1>6. ASSUME NEW k \in 1 .. n, NEW l \in 1 .. n, LiveInOrder[k] = LiveInOrder[l], k # l
      PROVE  FALSE
  <2>1. LiveInOrder[k] \in Int /\ LiveInOrder[l] \in Int
    BY <1>4, <1>5
  <2>2. k < l \/ l < k
    BY <1>5, <1>6
  <2>3. QED
    BY <2>1, <2>2, <1>5, <1>6
<1>7. QED
  BY <1>3, <1>4, <1>5, <1>6 DEF n

\* The staging gives every decoder that goes on the cells of its source, under a spare number.
Staged(cache, src, o, k, c, q) ==
  Holds(cache, c, q) \/ \E m \in 1 .. k : q = MaxDecoders + o[m] /\ Holds(cache, c, src[o[m]])

\* The copies of the staging, taken together.
LEMMA StagingGives ==
  ASSUME NEW cache \in Caches, NEW n \in Nat, NEW o \in [1 .. n -> 0 .. MaxDecoders - 1],
         NEW src, \A k \in 1 .. n : src[o[k]] \in 0 .. MaxDecoders - 1
  PROVE  /\ StagingFold(cache, src, o) \in Caches
         /\ Narrowed(StagingFold(cache, src, o), cache)
         /\ \A c, q : Holds(StagingFold(cache, src, o), c, q) <=> Staged(cache, src, o, n, c, q)
<1>0. /\ o \in [1 .. n -> Nat] /\ \A k \in 1 .. n : src[o[k]] \in Nat
      /\ \A k \in 1 .. n : o[k] \in 0 .. MaxDecoders - 1
      /\ MaxDecoders \in Nat
  BY DEF MaxDecoders
<1>a. o \in [1 .. n -> Nat]
  BY <1>0
<1>b. HasSources(src, o, n)
  BY <1>0 DEF HasSources
<1>c. PICK r : IsStaging(r, cache, src, o, n)
  BY <1>a, <1>b, StagingInTurn
<1>1. /\ r \in [0 .. n -> Caches]
      /\ r[0] = cache
      /\ \A k \in 1 .. n : r[k] = SeqCopy(r[k - 1], src[o[k]], MaxDecoders + o[k])
      /\ StagingFold(cache, src, o) = r[n]
  BY <1>c DEF IsStaging
<1> DEFINE Done(k) == /\ Narrowed(r[k], cache)
                      /\ \A c, q : Holds(r[k], c, q) <=> Staged(cache, src, o, k, c, q)
           G == {k \in 0 .. n : Done(k)}
<1>2. Done(0)
  <2>1. r[0] = cache /\ \A m : m \notin 1 .. 0
    BY <1>1
  <2>2. QED
    BY <2>1, NotNarrowed DEF Staged
<1>3. ASSUME NEW k \in 0 .. n - 1, Done(k) PROVE Done(k + 1)
  <2> DEFINE old == r[k]
             new == r[k + 1]
             j == o[k + 1]
             from == src[j]
             dst == MaxDecoders + j
  <2>1. k + 1 \in 1 .. n /\ (k + 1) - 1 = k /\ k \in 0 .. n /\ k \in Nat
    OBVIOUS
  <2>2. /\ old \in Caches /\ from \in Nat /\ dst \in Nat
        /\ new = SeqCopy(old, from, dst)
    BY <2>1, <1>0, <1>1
  <2>3. from \in 0 .. MaxDecoders - 1
    BY <2>1
  <2>4. \A m \in 1 .. k : from # MaxDecoders + o[m]
    <3> SUFFICES ASSUME NEW m \in 1 .. k PROVE from # MaxDecoders + o[m]
      OBVIOUS
    <3>1. m \in 1 .. n
      BY <2>1
    <3>2. o[m] \in 0 .. MaxDecoders - 1
      BY <3>1, <1>0
    <3> HIDE DEF from
    <3>3. QED
      BY <2>3, <3>2, SparesApart
  <2>5. Narrowed(old, cache) /\ \A c, q : Holds(old, c, q) <=> Staged(cache, src, o, k, c, q)
    BY <1>3
  <2> HIDE DEF old, new, from, dst
  <2>6. /\ Narrowed(new, old)
        /\ \A c, q : Holds(new, c, q) <=> Holds(old, c, q) \/ (q = dst /\ Holds(old, c, from))
    BY <2>2, CopyGives
  <2>7. Narrowed(new, cache)
    BY <2>5, <2>6, NarrowedTwice
  <2>8. \A c : Holds(old, c, from) <=> Holds(cache, c, from)
    BY <2>4, <2>5 DEF Staged
  <2>9. \A m : m \in 1 .. k + 1 <=> m \in 1 .. k \/ m = k + 1
    BY <2>1
  <2>10. ASSUME NEW c, NEW q PROVE Holds(new, c, q) <=> Staged(cache, src, o, k + 1, c, q)
    <3>1. Holds(new, c, q) <=> \/ Holds(cache, c, q)
                               \/ \E m \in 1 .. k : q = MaxDecoders + o[m] /\ Holds(cache, c, src[o[m]])
                               \/ q = dst /\ Holds(cache, c, from)
      BY <2>5, <2>6, <2>8 DEF Staged
    <3>2. (q = dst /\ Holds(cache, c, from))
            <=> (q = MaxDecoders + o[k + 1] /\ Holds(cache, c, src[o[k + 1]]))
      BY DEF dst, from
    <3>3. QED
      BY <3>1, <3>2, <2>9 DEF Staged
  <2>11. QED
    BY <2>7, <2>10 DEF new
<1>4. Done(n)
  <2> HIDE DEF Done
  <2>1. 0 \in G
    BY <1>2
  <2>2. \A k \in 0 .. n - 1 : k \in G => k + 1 \in G
    BY <1>3
  <2> HIDE DEF G
  <2>3. \A k \in 0 .. n : k \in G
    BY <2>1, <2>2, StepByStep
  <2>4. QED
    BY <2>3 DEF G
<1>5. QED
  BY <1>1, <1>4

\* Then each in turn gives up its own and takes what is kept under its spare number.
Taken(staged, o, n, k, c, q) ==
  /\ \A m \in 1 .. k : q # MaxDecoders + o[m]
  /\ IF \E m \in 1 .. k : q = o[m] THEN Holds(staged, c, MaxDecoders + q) ELSE Holds(staged, c, q)

\* What the decoders have when k of them have taken theirs.
LEMMA TakingGives ==
  ASSUME NEW staged \in Caches, NEW n \in Nat, NEW o \in [1 .. n -> 0 .. MaxDecoders - 1],
         \A k, l \in 1 .. n : o[k] = o[l] => k = l
  PROVE  /\ TakingFold(staged, o) \in Caches
         /\ Narrowed(TakingFold(staged, o), staged)
         /\ \A c, q : Holds(TakingFold(staged, o), c, q) <=> Taken(staged, o, n, n, c, q)
<1>0. /\ o \in [1 .. n -> Nat] /\ MaxDecoders \in Nat
      /\ \A k \in 1 .. n : o[k] \in 0 .. MaxDecoders - 1
  BY DEF MaxDecoders
<1>1. PICK r \in [0 .. n -> Caches] :
        /\ r[0] = staged
        /\ \A k \in 1 .. n :
             r[k] = TakeSpare(r[k - 1], o[k])
        /\ TakingFold(staged, o) = r[n]
  BY <1>0, TakingInTurn
<1> DEFINE Done(k) == /\ Narrowed(r[k], staged)
                      /\ \A c, q : Holds(r[k], c, q) <=> Taken(staged, o, n, k, c, q)
           G == {k \in 0 .. n : Done(k)}
<1>2. Done(0)
  <2>1. r[0] = staged /\ \A m : m \notin 1 .. 0
    BY <1>1
  <2>2. QED
    BY <2>1, NotNarrowed DEF Taken
<1>3. ASSUME NEW k \in 0 .. n - 1, Done(k) PROVE Done(k + 1)
  <2> DEFINE old == r[k]
             new == r[k + 1]
             j == o[k + 1]
             spare == MaxDecoders + j
             bare == SeqRemove(old, j)
             full == SeqCopy(bare, spare, j)
  <2>1. k + 1 \in 1 .. n /\ (k + 1) - 1 = k /\ k \in 0 .. n /\ k \in Nat
    OBVIOUS
  <2>2. old \in Caches /\ j \in Nat /\ spare \in Nat /\ new = SeqRemove(full, spare)
    BY <2>1, <1>0, <1>1 DEF TakeSpare
  <2>3. \A m \in 1 .. k : /\ o[m] # j /\ MaxDecoders + o[m] # spare
                          /\ o[m] # spare /\ MaxDecoders + o[m] # j
    <3> SUFFICES ASSUME NEW m \in 1 .. k
                 PROVE  /\ o[m] # j /\ MaxDecoders + o[m] # spare
                        /\ o[m] # spare /\ MaxDecoders + o[m] # j
      OBVIOUS
    <3>1. m \in 1 .. n /\ m # k + 1
      BY <2>1
    <3>2. o[m] # o[k + 1] /\ o[m] \in 0 .. MaxDecoders - 1 /\ o[k + 1] \in 0 .. MaxDecoders - 1
      BY <2>1, <3>1, <1>0
    <3>3. QED
      BY <3>2, SparesApart
  <2>4. j # spare
    BY <2>1, <1>0 DEF MaxDecoders
  <2>5. Narrowed(old, staged) /\ \A c, q : Holds(old, c, q) <=> Taken(staged, o, n, k, c, q)
    BY <1>3
  <2> HIDE DEF old, new, j, spare
  <2>6. /\ bare \in Caches /\ Narrowed(bare, old)
        /\ \A c, q : Holds(bare, c, q) <=> Holds(old, c, q) /\ q # j
    BY <2>2, RemoveTakes
  <2> HIDE DEF bare
  <2>7. /\ full \in Caches /\ Narrowed(full, bare)
        /\ \A c, q : Holds(full, c, q) <=> Holds(bare, c, q) \/ (q = j /\ Holds(bare, c, spare))
    BY <2>2, <2>6, CopyGives
  <2> HIDE DEF full
  <2>8. /\ Narrowed(new, full)
        /\ \A c, q : Holds(new, c, q) <=> Holds(full, c, q) /\ q # spare
    BY <2>2, <2>7, RemoveTakes
  <2>9. Narrowed(new, staged)
    <3>1. Narrowed(bare, staged)
      BY <2>5, <2>6, NarrowedTwice
    <3>2. Narrowed(full, staged)
      BY <3>1, <2>7, NarrowedTwice
    <3>3. QED
      BY <3>2, <2>8, NarrowedTwice
  <2>10. \A c, q : Holds(new, c, q) <=> /\ q # spare
                                        /\ IF q = j THEN Holds(old, c, spare) ELSE Holds(old, c, q)
    BY <2>4, <2>6, <2>7, <2>8
  <2>11. \A c : Holds(old, c, spare) <=> Holds(staged, c, spare)
    BY <2>3, <2>5 DEF Taken
  <2>12. \A m : m \in 1 .. k + 1 <=> m \in 1 .. k \/ m = k + 1
    BY <2>1
  <2>13. ASSUME NEW c, NEW q PROVE Holds(new, c, q) <=> Taken(staged, o, n, k + 1, c, q)
    <3>1. (\A m \in 1 .. k + 1 : q # MaxDecoders + o[m])
            <=> (\A m \in 1 .. k : q # MaxDecoders + o[m]) /\ q # spare
      BY <2>12 DEF spare, j
    <3>2. (\E m \in 1 .. k + 1 : q = o[m]) <=> (\E m \in 1 .. k : q = o[m]) \/ q = j
      BY <2>12 DEF j
    <3>3. CASE q = j
      <4>1. Holds(new, c, q) <=> Holds(staged, c, spare)
        BY <3>3, <2>4, <2>10, <2>11
      <4>2. \A m \in 1 .. k : q # MaxDecoders + o[m]
        BY <3>3, <2>3
      <4>3. Taken(staged, o, n, k + 1, c, q) <=> Holds(staged, c, spare)
        BY <3>1, <3>2, <3>3, <4>2, <2>4 DEF Taken, spare
      <4>4. QED
        BY <4>1, <4>3
    <3>4. CASE q # j
      <4>1. Holds(new, c, q) <=> q # spare /\ Taken(staged, o, n, k, c, q)
        BY <3>4, <2>5, <2>10
      <4>2. Taken(staged, o, n, k + 1, c, q) <=> q # spare /\ Taken(staged, o, n, k, c, q)
        BY <3>1, <3>2, <3>4 DEF Taken
      <4>3. QED
        BY <4>1, <4>2
    <3>5. QED
      BY <3>3, <3>4
  <2>14. QED
    BY <2>9, <2>13 DEF new
<1>4. Done(n)
  <2> HIDE DEF Done
  <2>1. 0 \in G
    BY <1>2
  <2>2. \A k \in 0 .. n - 1 : k \in G => k + 1 \in G
    BY <1>3
  <2> HIDE DEF G
  <2>3. \A k \in 0 .. n : k \in G
    BY <2>1, <2>2, StepByStep
  <2>4. QED
    BY <2>3 DEF G
<1>5. QED
  BY <1>1, <1>4

\* Beams that change places: each decoder that goes on has the cells of its source, the others
\* keep theirs, and no spare number is left.
LEMMA ReshuffledGives ==
  ASSUME NDecoders \in 1 .. MaxDecoders, NEW cache \in Caches, NEW src \in [Live -> Live],
         \A c, q : Holds(cache, c, q) => q \in 0 .. MaxDecoders - 1
  PROVE  /\ Reshuffled(cache, src) \in Caches
         /\ Narrowed(Reshuffled(cache, src), cache)
         /\ \A c, q : Holds(Reshuffled(cache, src), c, q)
                        <=> IF q \in Live THEN Holds(cache, c, src[q]) ELSE Holds(cache, c, q)
<1> DEFINE n == Cardinality(Live)
           o == LiveInOrder
           staged == StagingFold(cache, src, o)
           new == TakingFold(staged, o)
<1>1. Reshuffled(cache, src) = new
  BY DEF Reshuffled, StagingFold, TakingFold, TakeSpare
<1>2. /\ Live \subseteq 0 .. MaxDecoders - 1 /\ n \in Nat /\ o \in [1 .. n -> Live]
      /\ \A k, l \in 1 .. n : o[k] = o[l] => k = l
      /\ \A j \in Live : \E k \in 1 .. n : o[k] = j
  BY LiveListed
<1> HIDE DEF n, o
<1>3. o \in [1 .. n -> 0 .. MaxDecoders - 1] /\ \A k \in 1 .. n : src[o[k]] \in 0 .. MaxDecoders - 1
  BY <1>2
<1>4. /\ staged \in Caches /\ Narrowed(staged, cache)
      /\ \A c, q : Holds(staged, c, q) <=> Staged(cache, src, o, n, c, q)
  BY <1>2, <1>3, StagingGives
<1> HIDE DEF staged
<1>5. /\ new \in Caches /\ Narrowed(new, staged)
      /\ \A c, q : Holds(new, c, q) <=> Taken(staged, o, n, n, c, q)
  BY <1>2, <1>3, <1>4, TakingGives
<1> HIDE DEF new
<1>6. Narrowed(new, cache)
  BY <1>4, <1>5, NarrowedTwice
<1>7. \A m \in 1 .. n : o[m] \in Live /\ o[m] \in 0 .. MaxDecoders - 1
  BY <1>2, <1>3
<1>8. ASSUME NEW c, NEW q
      PROVE  Holds(new, c, q) <=> IF q \in Live THEN Holds(cache, c, src[q]) ELSE Holds(cache, c, q)
  <2>1. CASE q \in Live
    <3>1. q \in 0 .. MaxDecoders - 1 /\ \E m \in 1 .. n : q = o[m]
      BY <2>1, <1>2
    <3>2. \A m \in 1 .. n : q # MaxDecoders + o[m]
      BY <3>1, <1>7 DEF MaxDecoders
    <3>3. Holds(new, c, q) <=> Holds(staged, c, MaxDecoders + q)
      BY <3>1, <3>2, <1>5 DEF Taken
    <3>4. ~Holds(cache, c, MaxDecoders + q)
      <4>1. MaxDecoders + q \notin 0 .. MaxDecoders - 1
        BY <3>1 DEF MaxDecoders
      <4>2. QED
        BY <4>1
    <3>5. \A m \in 1 .. n : MaxDecoders + q = MaxDecoders + o[m] <=> q = o[m]
      BY <3>1, <1>7 DEF MaxDecoders
    <3>6. Holds(staged, c, MaxDecoders + q) <=> Holds(cache, c, src[q])
      BY <3>1, <3>4, <3>5, <1>4 DEF Staged
    <3>7. QED
      BY <2>1, <3>3, <3>6
  <2>2. CASE q \notin Live
    <3>1. ~\E m \in 1 .. n : q = o[m]
      BY <2>2, <1>7
    <3>2. Holds(new, c, q) <=> Holds(staged, c, q) /\ \A m \in 1 .. n : q # MaxDecoders + o[m]
      BY <3>1, <1>5 DEF Taken
    <3>3. Holds(staged, c, q) <=> Staged(cache, src, o, n, c, q)
      BY <1>4
    <3>4. Holds(cache, c, q) => \A m \in 1 .. n : q # MaxDecoders + o[m]
      <4>1. Holds(cache, c, q) => q \in 0 .. MaxDecoders - 1
        OBVIOUS
      <4>2. q \in 0 .. MaxDecoders - 1 => \A m \in 1 .. n : q # MaxDecoders + o[m]
        BY <1>7 DEF MaxDecoders
      <4>3. QED
        BY <4>1, <4>2
    <3>5. Holds(new, c, q) <=> Holds(cache, c, q)
      BY <3>2, <3>3, <3>4 DEF Staged
    <3>6. QED
      BY <2>2, <3>5
  <2>3. QED
    BY <2>1, <2>2
<1>9. QED
  BY <1>1, <1>5, <1>6, <1>8

\* A batch of tokens, and the cell a token gets.
Batches == Seq([pos : Nat, seq : Nat, from : Seq(Tokens)])

CellFor(b) == [pos |-> b.pos, seqs |-> {b.seq}, from |-> b.from]

\* new is old with the batch in the cells from slot on, and the graph looks at all of them.
Filled(new, old, batch, slot) ==
  /\ new.size = old.size
  /\ DOMAIN new.cells = DOMAIN old.cells \union slot .. slot + Len(batch) - 1
  /\ \A c \in DOMAIN old.cells : new.cells[c] = old.cells[c]
  /\ \A k \in 1 .. Len(batch) : /\ slot + k - 1 \notin DOMAIN old.cells
                                /\ new.cells[slot + k - 1] = CellFor(batch[k])
  /\ \A c \in DOMAIN new.cells : c < new.n

\* whisper_kv_cache_find_slot and the graph: with room above h, a batch finds a slot below it.
LEMMA DecodeGives ==
  ASSUME NEW cache \in Caches, NEW h \in Nat, Below(cache, h), NEW batch \in Batches,
         h + Len(batch) <= cache.size
  PROVE  /\ HasSlot(cache, Len(batch))
         /\ Decode(cache, batch) \in Caches
         /\ Below(Decode(cache, batch), h + Len(batch))
         /\ \E slot \in 0 .. h : Filled(Decode(cache, batch), cache, batch, slot)
<1> DEFINE len == Len(batch)
           free == FreeWindows(cache, len)
           ahead == {s \in free : s >= cache.head}
           slot == SlotFor(cache, len)
           used == slot .. slot + len - 1
           cells == [c \in DOMAIN cache.cells \union used |->
                      IF c \in used THEN CellFor(batch[c - slot + 1]) ELSE cache.cells[c]]
           new == Decode(cache, batch)
<1>1. /\ len \in Nat /\ \A k \in 1 .. len : CellFor(batch[k]) \in Cell
  <2>1. len \in Nat /\ \A k \in 1 .. len : batch[k] \in [pos : Nat, seq : Nat, from : Seq(Tokens)]
    BY LenProperties, ElementOfSeq DEF Batches
  <2>2. QED
    BY <2>1 DEF CellFor, Cell
<1>2. /\ DOMAIN cache.cells \subseteq 0 .. h - 1 /\ cache.head <= h
      /\ cache.cells \in [DOMAIN cache.cells -> Cell]
      /\ cache.size \in Nat /\ cache.head \in Nat
  BY CachesAre DEF Below
<1> HIDE DEF len
<1>3. h \in free
  <2>1. h \in 0 .. cache.size - len
    BY <1>1, <1>2 DEF len
  <2>2. \A c \in h .. h + len - 1 : c \notin DOMAIN cache.cells
    BY <1>1, <1>2
  <2>3. (h .. h + len - 1) \cap DOMAIN cache.cells = {}
    BY <2>2
  <2>4. QED
    BY <2>1, <2>3 DEF FreeWindows
<1>4. /\ free \subseteq Nat
      /\ \A s \in free : \A c \in s .. s + len - 1 : c \notin DOMAIN cache.cells
  <2>1. \A s \in free : s \in Nat /\ (s .. s + len - 1) \cap DOMAIN cache.cells = {}
    BY DEF FreeWindows
  <2>2. QED
    BY <2>1
<1>5. HasSlot(cache, len)
  BY <1>3 DEF HasSlot
<1>6. slot = Min(ahead)
  <2>1. h \in ahead
    BY <1>2, <1>3
  <2>2. slot = Min(IF ahead # {} THEN ahead ELSE free)
    BY DEF SlotFor
  <2>3. QED
    BY <2>1, <2>2
<1>7. slot \in ahead /\ slot <= h
  <2>1. h \in ahead /\ ahead \subseteq Nat
    BY <1>2, <1>3, <1>4
  <2> HIDE DEF ahead
  <2>2. Min(ahead) \in ahead /\ Min(ahead) <= h
    BY <2>1, LeastIsMin
  <2>3. QED
    BY <1>6, <2>2
<1>8. slot \in 0 .. h /\ \A c \in used : c \notin DOMAIN cache.cells
  BY <1>4, <1>7
<1> HIDE DEF slot, free, ahead
<1>9. new = [cache EXCEPT !.cells = cells, !.head = slot, !.n = CellMax(cells)]
  BY DEF Decode, CellFor, slot, len
<1>10. \A c \in DOMAIN cache.cells : cells[c] = cache.cells[c]
  BY <1>8
<1>11. \A k \in 1 .. len : slot + k - 1 \in used /\ cells[slot + k - 1] = CellFor(batch[k])
  <2> SUFFICES ASSUME NEW k \in 1 .. len
               PROVE  slot + k - 1 \in used /\ cells[slot + k - 1] = CellFor(batch[k])
    OBVIOUS
  <2>1. slot + k - 1 \in used /\ (slot + k - 1) - slot + 1 = k
    BY <1>1, <1>8
  <2>2. QED
    BY <2>1
<1>12. DOMAIN cells = DOMAIN cache.cells \union used
  OBVIOUS
<1>13. \A c \in used : c - slot + 1 \in 1 .. len
  BY <1>1, <1>8
<1>14. \A c \in DOMAIN cells : cells[c] \in Cell
  <2>1. \A c \in used : cells[c] = CellFor(batch[c - slot + 1])
    OBVIOUS
  <2>2. \A c \in used : cells[c] \in Cell
    BY <2>1, <1>1, <1>13
  <2>3. \A c \in DOMAIN cache.cells : cells[c] \in Cell
    BY <1>2, <1>10
  <2>4. QED
    BY <2>2, <2>3, <1>12
<1>15. cells \in [DOMAIN cells -> Cell]
  BY <1>14
<1>16. \A c \in used : c \in 0 .. (h + len) - 1
  BY <1>1, <1>8
<1> HIDE DEF cells, used
<1>17. DOMAIN cells \subseteq 0 .. (h + len) - 1
  BY <1>1, <1>2, <1>12, <1>16
<1>18. CellMax(cells) \in Nat /\ \A c \in DOMAIN cells : c < CellMax(cells)
  <2> DEFINE D == DOMAIN cells \union {0}
  <2>1. D \subseteq 0 .. h + len /\ h + len \in Nat /\ D # {} /\ D \subseteq Nat
    BY <1>1, <1>17
  <2> HIDE DEF D
  <2>2. Max(D) \in D /\ \A c \in D : Max(D) >= c
    BY <2>1, GreatestIsMax
  <2>3. Max(D) \in Nat /\ \A c \in D : c \in Nat
    BY <2>1, <2>2
  <2>4. CellMax(cells) = Max(D) + 1
    BY DEF CellMax, D
  <2>5. \A c \in DOMAIN cells : c \in D
    BY DEF D
  <2>6. QED
    BY <2>2, <2>3, <2>4, <2>5
<1>19. new = [cells |-> cells, size |-> cache.size, head |-> slot, n |-> CellMax(cells)]
  BY <1>9 DEF Caches
<1> HIDE DEF new
<1>20. new \in Caches
  <2> DEFINE D == DOMAIN cells
             n == CellMax(cells)
  <2>1. D \in SUBSET Nat
    BY <1>17
  <2>2. cells \in [D -> Cell] /\ cache.size \in Nat /\ slot \in Nat /\ n \in Nat
    BY <1>2, <1>8, <1>15, <1>18
  <2>3. new = [cells |-> cells, size |-> cache.size, head |-> slot, n |-> n]
    BY <1>19
  <2> HIDE DEF D, n
  <2>4. QED
    BY <2>1, <2>2, <2>3, MakeCache
<1>21. new.cells = cells /\ new.size = cache.size /\ new.head = slot /\ new.n = CellMax(cells)
  BY <1>19
<1>22. Below(new, h + len)
  BY <1>1, <1>8, <1>17, <1>21 DEF Below
<1>23. Filled(new, cache, batch, slot)
  BY <1>8, <1>10, <1>11, <1>12, <1>18, <1>21 DEF Filled, used, len
<1>24. QED
  BY <1>5, <1>8, <1>20, <1>22, <1>23 DEF new, len

-----------------------------------------------------------------------------
\* Sequence j has the first p + len positions, each once, and those after the prompt were
\* computed from the tokens up to them.
HasHistory(cache, j, tokens, p, len) ==
  /\ \A c : Holds(cache, c, j) =>
       /\ cache.cells[c].pos \in 0 .. p + len - 1
       /\ cache.cells[c].from = SubSeq(tokens, 1, More(0, cache.cells[c].pos - p + 1))
  /\ \A x \in 0 .. p + len - 1 : \E c : Holds(cache, c, j) /\ cache.cells[c].pos = x
  /\ \A c, d : Holds(cache, c, j) /\ Holds(cache, d, j) /\ cache.cells[c].pos = cache.cells[d].pos
                 => c = d

\* A decoder that goes on with the tokens and the cells of another, or its own.
LEMMA HistoryMoves ==
  ASSUME NEW old, NEW new, Narrowed(new, old), NEW j, NEW s, NEW p \in Nat, NEW len \in Nat,
         \A c : Holds(new, c, j) <=> Holds(old, c, s),
         NEW tokens \in Seq(Tokens), Len(tokens) = len, NEW token \in Tokens,
         HasHistory(old, s, tokens, p, len)
  PROVE  HasHistory(new, j, Append(tokens, token), p, len)
<1>1. ASSUME NEW c, Holds(new, c, j)
      PROVE  /\ Holds(old, c, s)
             /\ new.cells[c].pos = old.cells[c].pos /\ new.cells[c].from = old.cells[c].from
  BY <1>1 DEF Narrowed, Holds
<1>2. ASSUME NEW x \in 0 .. p + len - 1
      PROVE  SubSeq(Append(tokens, token), 1, More(0, x - p + 1)) = SubSeq(tokens, 1, More(0, x - p + 1))
  <2> DEFINE m == More(0, x - p + 1)
             longer == Append(tokens, token)
  <2>1. m \in 0 .. len
    BY DEF More
  <2> HIDE DEF m
  <2>2. /\ longer \in Seq(Tokens) /\ Len(longer) = len + 1
        /\ \A k \in 1 .. len : longer[k] = tokens[k]
    BY AppendProperties
  <2> HIDE DEF longer
  <2>3. /\ \A k \in 1 .. m : longer[k] \in Tokens
        /\ \A k \in 1 .. m : tokens[k] \in Tokens
    BY <2>1, <2>2
  <2>4. /\ SubSeq(longer, 1, m) \in Seq(Tokens) /\ Len(SubSeq(longer, 1, m)) = m
        /\ \A k \in 1 .. m : SubSeq(longer, 1, m)[k] = longer[k]
    BY <2>1, <2>2, <2>3
  <2>5. /\ SubSeq(tokens, 1, m) \in Seq(Tokens) /\ Len(SubSeq(tokens, 1, m)) = m
        /\ \A k \in 1 .. m : SubSeq(tokens, 1, m)[k] = tokens[k]
    BY <2>1, <2>3
  <2>6. \A k \in 1 .. m : k \in 1 .. len
    BY <2>1
  <2>7. \A k \in 1 .. m : SubSeq(longer, 1, m)[k] = SubSeq(tokens, 1, m)[k]
    BY <2>2, <2>4, <2>5, <2>6
  <2> DEFINE s1 == SubSeq(longer, 1, m)
             s2 == SubSeq(tokens, 1, m)
  <2>8. /\ s1 \in Seq(Tokens) /\ s2 \in Seq(Tokens) /\ Len(s1) = Len(s2)
        /\ \A k \in 1 .. Len(s1) : s1[k] = s2[k]
    BY <2>4, <2>5, <2>7
  <2> HIDE DEF s1, s2
  <2>9. s1 = s2
    BY <2>8, SeqEqual
  <2>10. QED
    BY <2>9 DEF s1, s2, m, longer
<1>3. ASSUME NEW c, Holds(new, c, j)
      PROVE  /\ new.cells[c].pos \in 0 .. p + len - 1
             /\ new.cells[c].from
                  = SubSeq(Append(tokens, token), 1, More(0, new.cells[c].pos - p + 1))
  <2>1. /\ Holds(old, c, s)
        /\ new.cells[c].pos = old.cells[c].pos /\ new.cells[c].from = old.cells[c].from
    BY <1>1, <1>3
  <2>2. /\ old.cells[c].pos \in 0 .. p + len - 1
        /\ old.cells[c].from = SubSeq(tokens, 1, More(0, old.cells[c].pos - p + 1))
    BY <2>1 DEF HasHistory
  <2>3. QED
    BY <2>1, <2>2, <1>2
<1>4. ASSUME NEW x \in 0 .. p + len - 1
      PROVE  \E c : Holds(new, c, j) /\ new.cells[c].pos = x
  <2>1. PICK c : Holds(old, c, s) /\ old.cells[c].pos = x
    BY <1>4 DEF HasHistory
  <2>2. Holds(new, c, j)
    BY <2>1
  <2>3. QED
    BY <2>1, <2>2, <1>1
<1>5. ASSUME NEW c, NEW d, Holds(new, c, j), Holds(new, d, j), new.cells[c].pos = new.cells[d].pos
      PROVE  c = d
  <2>1. Holds(old, c, s) /\ Holds(old, d, s) /\ old.cells[c].pos = old.cells[d].pos
    BY <1>1, <1>5
  <2>2. QED
    BY <2>1 DEF HasHistory
<1>6. QED
  BY <1>3, <1>4, <1>5 DEF HasHistory

\* A decoder whose newest token is decoded.
LEMMA HistoryGrows ==
  ASSUME NEW old, NEW new, NEW j, NEW p \in Nat, NEW len \in Nat, NEW c0,
         ~Holds(old, c0, j), \A c : Holds(new, c, j) <=> Holds(old, c, j) \/ c = c0,
         \A c \in DOMAIN old.cells : new.cells[c] = old.cells[c],
         NEW tokens \in Seq(Tokens), Len(tokens) = len + 1,
         new.cells[c0].pos = p + len, new.cells[c0].from = tokens,
         HasHistory(old, j, tokens, p, len)
  PROVE  HasHistory(new, j, tokens, p, len + 1)
<1>1. ASSUME NEW c, Holds(new, c, j), c # c0
      PROVE  Holds(old, c, j) /\ new.cells[c] = old.cells[c] /\ old.cells[c].pos \in 0 .. p + len - 1
  BY <1>1 DEF Holds, HasHistory
<1>2. ASSUME NEW c, Holds(new, c, j)
      PROVE  /\ new.cells[c].pos \in 0 .. p + (len + 1) - 1
             /\ new.cells[c].from = SubSeq(tokens, 1, More(0, new.cells[c].pos - p + 1))
  <2>1. CASE c = c0
    <3>1. More(0, (p + len) - p + 1) = len + 1
      BY DEF More
    <3>2. SubSeq(tokens, 1, len + 1) = tokens
      BY SubSeqFull
    <3>3. QED
      BY <2>1, <3>1, <3>2
  <2>2. CASE c # c0
    <3>1. Holds(old, c, j) /\ new.cells[c] = old.cells[c] /\ old.cells[c].pos \in 0 .. p + len - 1
      BY <1>1, <1>2, <2>2
    <3>2. old.cells[c].from = SubSeq(tokens, 1, More(0, old.cells[c].pos - p + 1))
      BY <3>1 DEF HasHistory
    <3>3. QED
      BY <3>1, <3>2
  <2>3. QED
    BY <2>1, <2>2
<1>3. ASSUME NEW x \in 0 .. p + (len + 1) - 1
      PROVE  \E c : Holds(new, c, j) /\ new.cells[c].pos = x
  <2>1. CASE x = p + len
    BY <2>1
  <2>2. CASE x # p + len
    <3>1. x \in 0 .. p + len - 1
      BY <2>2
    <3>2. PICK c : Holds(old, c, j) /\ old.cells[c].pos = x
      BY <3>1 DEF HasHistory
    <3>3. QED
      BY <3>2 DEF Holds
  <2>3. QED
    BY <2>1, <2>2
<1>4. ASSUME NEW c, NEW d, Holds(new, c, j), Holds(new, d, j), new.cells[c].pos = new.cells[d].pos
      PROVE  c = d
  <2>1. ASSUME NEW e, Holds(new, e, j), e # c0 PROVE new.cells[e].pos # p + len
    <3>1. new.cells[e].pos \in 0 .. p + len - 1
      BY <2>1, <1>1
    <3>2. QED
      BY <3>1
  <2>2. CASE c = c0 \/ d = c0
    BY <1>4, <2>1, <2>2
  <2>3. CASE c # c0 /\ d # c0
    BY <1>1, <1>4, <2>3 DEF HasHistory
  <2>4. QED
    BY <2>2, <2>3
<1>5. QED
  BY <1>2, <1>3, <1>4 DEF HasHistory

-----------------------------------------------------------------------------
(***************************************************************************)
(* The cache of a call: the cells that can be in use are bounded, and      *)
(* every decoder that goes on has its history.                             *)
(***************************************************************************)

\* How far up the cells can be in use: the prompt, and a cell for each decoder and each token.
HighWater == PromptSize(prompt) + NDecoders * i

\* The cache is as big as its decoders need; while they decode, nothing lies above the high water
\* and each that goes on has its history.
CacheInv ==
  /\ kv \in Caches
  /\ kv_self_n_dec \in 1 .. MaxDecoders
  /\ kv.size = KVPad * (IF kv_self_n_dec > 1 THEN kv_self_n_dec + 2 ELSE 1)
  /\ pc \in Decoding =>
       /\ kv_self_n_dec >= NDecoders
       /\ Below(kv, HighWater)
       /\ \A c \in DOMAIN kv.cells : c < kv.n
       /\ \A c, q : Holds(kv, c, q) => q \in 0 .. MaxDecoders - 1
       /\ \A j \in Live : HasHistory(kv, j, decoders[j].tokens, PromptSize(prompt), i)

\* Products with a number of decoders.
LEMMA Times ==
  ASSUME NEW x \in Nat, NEW y \in Nat, x <= y, NEW k \in 1 .. MaxDecoders
  PROVE  k * x \in Nat /\ k * x <= k * y
<1>1. k \in {1, 2, 3, 4, 5, 6, 7, 8}
  BY DEF MaxDecoders
<1>2. QED
  BY <1>1

\* N decoders, in a cache made for m, never need more cells than there are.
LEMMA CellsSuffice ==
  ASSUME NEW N \in 1 .. MaxDecoders, NEW m \in 1 .. MaxDecoders, N <= m,
         NEW half \in Nat, NEW pad \in Nat, 2 * half <= pad, half >= 6,
         NEW size \in Nat, size <= half + 4, NEW x \in 0 .. half - 5
  PROVE  /\ size + N * x \in Nat
         /\ size + N * x + N <= pad * (IF m > 1 THEN m + 2 ELSE 1)
<1>1. N * x \in Nat /\ N * x <= N * (half - 5)
  <2>1. x \in Nat /\ half - 5 \in Nat /\ x <= half - 5
    OBVIOUS
  <2>2. QED
    BY <2>1, Times
<1>2. N \in {1, 2, 3, 4, 5, 6, 7, 8} /\ m \in {1, 2, 3, 4, 5, 6, 7, 8}
  BY DEF MaxDecoders
<1>3. N * (half - 5) + N = N * (half - 4)
  BY <1>2
<1>4. CASE m = 1
  BY <1>1, <1>2, <1>4
<1>5. CASE m > 1
  <2>1. half + 4 + N * (half - 4) <= pad * (m + 2)
    <3>1. N * (half - 4) <= m * (half - 4)
      BY <1>2
    <3>2. half + 4 + m * (half - 4) <= pad * (m + 2)
      BY <1>2, <1>5
    <3>3. N * (half - 4) \in Int /\ m * (half - 4) \in Int /\ pad * (m + 2) \in Int
      BY <1>2
    <3>4. QED
      BY <3>1, <3>2, <3>3
  <2>2. QED
    BY <1>1, <1>2, <1>3, <1>5, <2>1
<1>6. QED
  BY <1>1, <1>2, <1>4, <1>5

\* A prompt fits in the smallest cache.
LEMMA PromptSizes ==
  ASSUME params \in ParamSets, NEW p \in [prev : {0, 1}, take0 : Nat, take1 : Nat],
         p.prev + p.take0 + p.take1 <= MaxPrompt
  PROVE  /\ PromptSize(p) \in Nat /\ PromptSize(p) <= NTextCtx \div 2 + 4 /\ PromptSize(p) <= KVPad
         /\ NTextCtx \div 2 \in Nat /\ NTextCtx \div 2 >= 6 /\ 2 * (NTextCtx \div 2) <= KVPad
         /\ KVPad \in Nat
<1>1. p.prev \in Nat /\ p.take0 \in Nat /\ p.take1 \in Nat
  OBVIOUS
<1>2. /\ MaxPrompt \in Nat /\ MaxPrompt <= NTextCtx \div 2 /\ params.n_init \in 1 .. 4
      /\ NTextCtx \div 2 \in Nat /\ 2 * (NTextCtx \div 2) <= NTextCtx
  BY Lengths
<1>3. NTextCtx \in Nat /\ NTextCtx >= 12 /\ KVPad \in Nat /\ KVPad >= NTextCtx
  BY WhisperAssumption
<1>4. NTextCtx \div 2 >= 6
  BY <1>3
<1>5. PromptSize(p) = p.prev + p.take0 + p.take1 + params.n_init
  BY DEF PromptSize
<1>6. QED
  BY <1>1, <1>2, <1>3, <1>4, <1>5

\* There is room for a token more of each decoder.
LEMMA Room ==
  ASSUME WhisperInv, CacheInv, pc \in Decoding
  PROVE  /\ PromptSize(prompt) \in Nat /\ i \in Nat /\ NDecoders \in 1 .. MaxDecoders
         /\ HighWater \in Nat /\ HighWater + NDecoders <= kv.size
<1>1. /\ params \in ParamSets /\ i \in 0 .. NMax - 1
      /\ prompt \in [prev : {0, 1}, take0 : Nat, take1 : Nat]
      /\ prompt.prev + prompt.take0 + prompt.take1 <= MaxPrompt
  BY DEF WhisperInv, PromptInv
<1>2. NDecoders \in 1 .. MaxDecoders
  BY <1>1, SomeDecoders
<1>3. /\ PromptSize(prompt) \in Nat /\ PromptSize(prompt) <= NTextCtx \div 2 + 4
      /\ NTextCtx \div 2 \in Nat /\ NTextCtx \div 2 >= 6 /\ 2 * (NTextCtx \div 2) <= KVPad
      /\ KVPad \in Nat
  BY <1>1, PromptSizes
<1>4. i \in 0 .. NTextCtx \div 2 - 5
  BY <1>1, <1>3 DEF NMax
<1>5. /\ kv_self_n_dec \in 1 .. MaxDecoders /\ NDecoders <= kv_self_n_dec
      /\ kv.size = KVPad * (IF kv_self_n_dec > 1 THEN kv_self_n_dec + 2 ELSE 1)
  BY <1>2 DEF CacheInv, MaxDecoders
<1>6. /\ PromptSize(prompt) + NDecoders * i \in Nat
      /\ PromptSize(prompt) + NDecoders * i + NDecoders
           <= KVPad * (IF kv_self_n_dec > 1 THEN kv_self_n_dec + 2 ELSE 1)
  BY <1>2, <1>3, <1>4, <1>5, CellsSuffice
<1>7. QED
  BY <1>1, <1>2, <1>3, <1>4, <1>5, <1>6 DEF HighWater

\* The batch of the newest tokens has one for each decoder that goes on.
LEMMA BatchOfTokens ==
  ASSUME WhisperInv, pc = "decode"
  PROVE  /\ TokenBatch \in Batches
         /\ Len(TokenBatch) = Cardinality(Live) /\ Len(TokenBatch) <= NDecoders
         /\ Len(TokenBatch) \in Nat
         /\ \A k \in 1 .. Cardinality(Live) :
              TokenBatch[k] = [pos |-> NPast, seq |-> LiveInOrder[k],
                               from |-> decoders[LiveInOrder[k]].tokens]
<1>1. /\ params \in ParamSets /\ i \in Nat
      /\ prompt \in [prev : {0, 1}, take0 : Nat, take1 : Nat]
      /\ prompt.prev + prompt.take0 + prompt.take1 <= MaxPrompt
      /\ decoders \in [0 .. MaxDecoders - 1 -> Decoder]
  BY DEF WhisperInv, PromptInv, DecodersInv
<1>2. NDecoders \in 1 .. MaxDecoders
  BY <1>1, SomeDecoders
<1> DEFINE n == Cardinality(Live)
<1>3. /\ Live \subseteq 0 .. MaxDecoders - 1 /\ n \in Nat /\ n <= NDecoders
      /\ LiveInOrder \in [1 .. n -> Live]
  BY <1>2, LiveListed
<1>4. NPast \in Nat
  BY <1>1, PromptSizes DEF NPast
<1> HIDE DEF n
<1>5. LiveInOrder \in Seq(Live) /\ Len(LiveInOrder) = n
  BY <1>3
<1> DEFINE Entry == [pos : Nat, seq : Nat, from : Seq(Tokens)]
           entry(k) == [pos |-> NPast, seq |-> LiveInOrder[k],
                        from |-> decoders[LiveInOrder[k]].tokens]
<1>6. TokenBatch = [k \in 1 .. n |-> entry(k)]
  BY <1>5 DEF TokenBatch
<1>7. ASSUME NEW k \in 1 .. n PROVE entry(k) \in Entry
  <2>1. LiveInOrder[k] \in 0 .. MaxDecoders - 1
    BY <1>3
  <2>2. decoders[LiveInOrder[k]].tokens \in Seq(Tokens) /\ LiveInOrder[k] \in Nat
    BY <2>1, <1>1 DEF Decoder
  <2>3. QED
    BY <2>2, <1>4
<1> HIDE DEF Entry, entry
<1>8. TokenBatch \in [1 .. n -> Entry]
  BY <1>6, <1>7
<1>9. TokenBatch \in Seq(Entry) /\ Len(TokenBatch) = n
  BY <1>3, <1>8
<1>10. \A k \in 1 .. n : TokenBatch[k] = entry(k)
  BY <1>6
<1>11. QED
  BY <1>3, <1>9, <1>10 DEF n, Entry, entry, Batches

-----------------------------------------------------------------------------
\* Every attempt starts with an empty cache that is big enough.
LEMMA Emptied ==
  ASSUME params \in ParamSets, kv \in Caches, kv_self_n_dec \in 1 .. MaxDecoders,
         kv.size = KVPad * (IF kv_self_n_dec > 1 THEN kv_self_n_dec + 2 ELSE 1)
  PROVE  /\ CacheForAttempt \in Caches /\ DOMAIN CacheForAttempt.cells = {}
         /\ CacheForAttempt.head = 0
         /\ More(kv_self_n_dec, NDecoders) \in 1 .. MaxDecoders
         /\ More(kv_self_n_dec, NDecoders) >= NDecoders
         /\ CacheForAttempt.size
              = KVPad * (IF More(kv_self_n_dec, NDecoders) > 1
                           THEN More(kv_self_n_dec, NDecoders) + 2 ELSE 1)
         /\ CacheForAttempt.size >= KVPad
<1>1. NDecoders \in 1 .. MaxDecoders
  BY SomeDecoders
<1>2. KVPad \in Nat
  BY WhisperAssumption
<1>3. NoCells \in [{} -> Cell] /\ DOMAIN NoCells = {}
  BY DEF NoCells
<1>4. ASSUME NEW size \in Nat, NEW n \in Nat
      PROVE  [cells |-> NoCells, size |-> size, head |-> 0, n |-> n] \in Caches
  BY <1>3, MakeCache, {} \in SUBSET Nat
<1> DEFINE m == More(kv_self_n_dec, NDecoders)
<1>5. m \in 1 .. MaxDecoders /\ m >= NDecoders
  BY <1>1 DEF More, MaxDecoders
<1>6. CASE kv_self_n_dec < NDecoders
  <2>1. m = NDecoders /\ NDecoders > 1
    BY <1>1, <1>6 DEF More, MaxDecoders
  <2>2. Factor = NDecoders + 2 /\ Factor \in Nat
    BY <1>1, <2>1 DEF Factor, MaxDecoders
  <2>3. CacheForAttempt = [cells |-> NoCells, size |-> KVPad * Factor, head |-> 0, n |-> 0]
    BY <1>6 DEF CacheForAttempt, NewCache
  <2>4. KVPad * Factor \in Nat /\ KVPad * Factor >= KVPad
    <3>1. NDecoders \in {1, 2, 3, 4, 5, 6, 7, 8}
      BY <1>1 DEF MaxDecoders
    <3>2. QED
      BY <2>2, <3>1, <1>2
  <2>5. CacheForAttempt \in Caches
    BY <2>3, <2>4, <1>4
  <2>6. /\ CacheForAttempt.cells = NoCells /\ CacheForAttempt.head = 0
        /\ CacheForAttempt.size = KVPad * Factor
    BY <2>3
  <2>7. KVPad * Factor = KVPad * (IF m > 1 THEN m + 2 ELSE 1)
    BY <2>1, <2>2
  <2>8. QED
    BY <2>4, <2>5, <2>6, <2>7, <1>3, <1>5
<1>7. CASE ~(kv_self_n_dec < NDecoders)
  <2>1. m = kv_self_n_dec
    BY <1>1, <1>7 DEF More, MaxDecoders
  <2>2. CacheForAttempt = [kv EXCEPT !.cells = NoCells, !.head = 0]
    BY <1>7 DEF CacheForAttempt, ClearCache
  <2>3. CacheForAttempt = [cells |-> NoCells, size |-> kv.size, head |-> 0, n |-> kv.n]
    BY <2>2 DEF Caches
  <2>4. kv.size \in Nat /\ kv.n \in Nat
    BY CachesAre
  <2>5. CacheForAttempt \in Caches
    BY <2>3, <2>4, <1>4
  <2>6. /\ CacheForAttempt.cells = NoCells /\ CacheForAttempt.head = 0
        /\ CacheForAttempt.size = kv.size
    BY <2>3
  <2>7. kv.size >= KVPad
    <3>1. kv_self_n_dec \in {1, 2, 3, 4, 5, 6, 7, 8}
      BY DEF MaxDecoders
    <3>2. QED
      BY <3>1, <1>2
  <2>8. QED
    BY <2>1, <2>5, <2>6, <2>7, <1>3, <1>5
<1>8. QED
  BY <1>6, <1>7

\* No call fails for want of a slot.
LEMMA AlwaysASlot ==
  ASSUME WhisperInv, CacheInv
  PROVE  SlotsSuffice
<1>1. ASSUME pc = "attempt"
      PROVE  HasSlot(CacheForAttempt, PromptSize(ChosenPrompt))
  <2>1. params \in ParamSets
    BY DEF WhisperInv
  <2>2. /\ DOMAIN CacheForAttempt.cells = {} /\ CacheForAttempt.size >= KVPad
        /\ CacheForAttempt.size \in Nat
    BY <2>1, Emptied, CachesAre DEF CacheInv
  <2>3. PromptSize(ChosenPrompt) \in Nat /\ PromptSize(ChosenPrompt) <= KVPad /\ KVPad \in Nat
    BY <2>1, ChosenPromptFits, PromptSizes
  <2>4. 0 \in 0 .. CacheForAttempt.size - PromptSize(ChosenPrompt)
    BY <2>2, <2>3
  <2>5. (0 .. 0 + PromptSize(ChosenPrompt) - 1) \cap DOMAIN CacheForAttempt.cells = {}
    BY <2>2
  <2>6. 0 \in FreeWindows(CacheForAttempt, PromptSize(ChosenPrompt))
    BY <2>4, <2>5 DEF FreeWindows
  <2>7. QED
    BY <2>6 DEF HasSlot
<1>2. ASSUME pc = "decode"
      PROVE  HasSlot(kv, Len(TokenBatch))
  <2>1. /\ HighWater \in Nat /\ HighWater + NDecoders <= kv.size /\ NDecoders \in 1 .. MaxDecoders
    BY <1>2, Room DEF Decoding
  <2>2. kv \in Caches /\ Below(kv, HighWater) /\ kv.size \in Nat
    BY <1>2, CachesAre DEF CacheInv, Decoding
  <2>3. TokenBatch \in Batches /\ Len(TokenBatch) <= NDecoders /\ Len(TokenBatch) \in Nat
    BY <1>2, BatchOfTokens
  <2>4. HighWater + Len(TokenBatch) <= kv.size
    BY <2>1, <2>2, <2>3 DEF MaxDecoders
  <2>5. QED
    BY <2>1, <2>2, <2>3, <2>4, DecodeGives
<1>3. QED
  BY <1>1, <1>2 DEF SlotsSuffice

\* The cache that whisper_init_state makes.
LEMMA CacheInitially == Init => CacheInv
<1> SUFFICES ASSUME Init PROVE CacheInv
  OBVIOUS
<1>1. KVPad \in Nat
  BY WhisperAssumption
<1>2. NoCells \in [{} -> Cell] /\ {} \in SUBSET Nat
  BY DEF NoCells
<1>3. kv = [cells |-> NoCells, size |-> KVPad, head |-> 0, n |-> 0]
  BY DEF Init, NewCache
<1>4. kv \in Caches
  <2>1. \A size \in Nat : [cells |-> NoCells, size |-> size, head |-> 0, n |-> 0] \in Caches
    BY <1>2, MakeCache, 0 \in Nat
  <2>2. QED
    BY <1>1, <1>3, <2>1
<1>5. kv.size = KVPad /\ kv_self_n_dec = 1 /\ pc = "called"
  BY <1>3 DEF Init
<1>6. QED
  BY <1>1, <1>4, <1>5 DEF CacheInv, Decoding, MaxDecoders

\* Steps that leave the cache alone, outside the decoding.
LEMMA CacheStays ==
  ASSUME CacheInv, UNCHANGED <<kv, kv_self_n_dec>>, pc' \notin Decoding
  PROVE  CacheInv'
BY DEF CacheInv, Decoding

\* The prompt in the cache, shared by all the decoders.
LEMMA StartFills ==
  ASSUME WhisperInv, CacheInv, StartAttempt
  PROVE  CacheInv'
<1> DEFINE empty == CacheForAttempt
           size == PromptSize(ChosenPrompt)
           batch == PromptBatch(size)
           decoded == Decode(empty, batch)
           shared == Shared(decoded)
           m == More(kv_self_n_dec, NDecoders)
<1>1. /\ params \in ParamSets /\ decoders \in [0 .. MaxDecoders - 1 -> Decoder]
      /\ kv \in Caches /\ kv_self_n_dec \in 1 .. MaxDecoders
      /\ kv.size = KVPad * (IF kv_self_n_dec > 1 THEN kv_self_n_dec + 2 ELSE 1)
  BY DEF WhisperInv, CacheInv, DecodersInv
<1>2. /\ pc' = "sample" /\ params' = params /\ it' = it /\ i' = 0
      /\ prompt' = ChosenPrompt /\ kv' = shared /\ kv_self_n_dec' = m
      /\ decoders' = [j \in DOMAIN decoders |-> IF j \in Running THEN FreshDecoder ELSE decoders[j]]
  BY DEF StartAttempt
<1>3. NDecoders \in 1 .. MaxDecoders /\ Running \subseteq 0 .. MaxDecoders - 1
  BY <1>1, SomeDecoders
<1>4. NDecoders' = NDecoders /\ Running' = Running
  BY <1>2 DEF NDecoders, Running, Temperature
<1>5. size \in Nat /\ size <= KVPad /\ KVPad \in Nat
  BY <1>1, ChosenPromptFits, PromptSizes
<1>6. /\ empty \in Caches /\ DOMAIN empty.cells = {} /\ empty.head = 0
      /\ m \in 1 .. MaxDecoders /\ m >= NDecoders
      /\ empty.size = KVPad * (IF m > 1 THEN m + 2 ELSE 1)
      /\ empty.size >= KVPad /\ empty.size \in Nat
  BY <1>1, Emptied, CachesAre
<1>7. PromptSize(prompt)' = size
  BY <1>2 DEF PromptSize
<1> HIDE DEF empty, size, m
<1>8. /\ batch \in Batches /\ Len(batch) = size
      /\ \A k \in 1 .. size : CellFor(batch[k]) = [pos |-> k - 1, seqs |-> {0}, from |-> <<>>]
  <2> DEFINE Entry == [pos : Nat, seq : Nat, from : Seq(Tokens)]
             entry(k) == [pos |-> k - 1, seq |-> 0, from |-> <<>>]
  <2>1. ASSUME NEW k \in 1 .. size PROVE entry(k) \in Entry
    BY <1>5
  <2>2. batch = [k \in 1 .. size |-> entry(k)]
    BY DEF PromptBatch
  <2>3. \A k \in 1 .. size : CellFor(entry(k)) = [pos |-> k - 1, seqs |-> {0}, from |-> <<>>]
    BY DEF CellFor
  <2> HIDE DEF Entry, entry, batch
  <2>4. batch \in [1 .. size -> Entry]
    BY <2>1, <2>2
  <2>5. batch \in Seq(Entry) /\ Len(batch) = size
    BY <2>4, <1>5
  <2>6. QED
    BY <2>2, <2>3, <2>5 DEF Batches, Entry
<1> HIDE DEF batch
<1>9. Below(empty, 0)
  BY <1>6 DEF Below
<1>10. /\ decoded \in Caches /\ Below(decoded, size)
       /\ \E slot \in 0 .. 0 : Filled(decoded, empty, batch, slot)
  <2>a. empty.size >= KVPad /\ empty.size \in Nat
    BY <1>6
  <2>1. 0 + Len(batch) <= empty.size /\ 0 \in Nat /\ 0 + Len(batch) = size
    BY <2>a, <1>5, <1>8
  <2>2. QED
    BY <2>1, <1>6, <1>8, <1>9, DecodeGives
<1> HIDE DEF decoded
<1>11. /\ decoded.size = empty.size /\ DOMAIN decoded.cells = 0 .. size - 1
       /\ \A c \in 0 .. size - 1 : /\ decoded.cells[c].pos = c /\ decoded.cells[c].seqs = {0}
                                   /\ decoded.cells[c].from = <<>>
       /\ \A c \in DOMAIN decoded.cells : c < decoded.n
  <2>1. Filled(decoded, empty, batch, 0)
    BY <1>10
  <2>2. DOMAIN decoded.cells = 0 .. size - 1
    BY <2>1, <1>5, <1>6, <1>8 DEF Filled
  <2>3. ASSUME NEW c \in 0 .. size - 1
        PROVE  /\ decoded.cells[c].pos = c /\ decoded.cells[c].seqs = {0}
               /\ decoded.cells[c].from = <<>>
    <3>1. c + 1 \in 1 .. size /\ 0 + (c + 1) - 1 = c /\ (c + 1) - 1 = c
      BY <1>5
    <3>2. decoded.cells[0 + (c + 1) - 1] = CellFor(batch[c + 1])
      BY <2>1, <3>1, <1>8 DEF Filled
    <3>3. CellFor(batch[c + 1]) = [pos |-> (c + 1) - 1, seqs |-> {0}, from |-> <<>>]
      BY <3>1, <1>8
    <3>4. QED
      BY <3>1, <3>2, <3>3
  <2>4. QED
    BY <2>1, <2>2, <2>3 DEF Filled
<1>12. /\ shared \in Caches /\ Narrowed(shared, decoded)
       /\ DOMAIN shared.cells = DOMAIN decoded.cells
       /\ \A c, q : Holds(shared, c, q)
                      <=> Holds(decoded, c, q) \/ (q \in 1 .. NDecoders - 1 /\ Holds(decoded, c, 0))
  BY <1>3, <1>10, SharedGives
<1> HIDE DEF shared
<1>13. /\ shared.size = empty.size /\ Below(shared, size)
       /\ \A c \in DOMAIN shared.cells : c < shared.n
       /\ \A c \in 0 .. size - 1 : shared.cells[c].pos = c /\ shared.cells[c].from = <<>>
  <2>1. shared.size = empty.size /\ DOMAIN shared.cells = 0 .. size - 1 /\ shared.n = decoded.n
    BY <1>11, <1>12 DEF Narrowed
  <2>2. Below(shared, size)
    BY <1>5, <1>10, <1>12 DEF Narrowed
  <2>3. \A c \in 0 .. size - 1 :
          shared.cells[c].pos = decoded.cells[c].pos /\ shared.cells[c].from = decoded.cells[c].from
    BY <2>1, <1>12 DEF Narrowed
  <2>4. \A c \in 0 .. size - 1 : decoded.cells[c].pos = c /\ decoded.cells[c].from = <<>>
    BY <1>11
  <2>5. QED
    BY <2>1, <2>2, <2>3, <2>4, <1>11
<1>14. \A c, q : Holds(shared, c, q) <=> c \in 0 .. size - 1 /\ q \in 0 .. NDecoders - 1
  <2>1. \A c, q : Holds(decoded, c, q) <=> c \in 0 .. size - 1 /\ q = 0
    <3>1. DOMAIN decoded.cells = 0 .. size - 1 /\ \A c \in 0 .. size - 1 : decoded.cells[c].seqs = {0}
      BY <1>11
    <3>2. QED
      BY <3>1 DEF Holds
  <2>2. \A q : q \in 0 .. NDecoders - 1 <=> q = 0 \/ q \in 1 .. NDecoders - 1
    BY <1>3
  <2>3. QED
    BY <2>1, <2>2, <1>12
<1>15. \A c, q : Holds(shared, c, q) => q \in 0 .. MaxDecoders - 1
  <2>1. \A q \in 0 .. NDecoders - 1 : q \in 0 .. MaxDecoders - 1
    BY <1>3 DEF MaxDecoders
  <2>2. QED
    BY <2>1, <1>14
<1>16. HighWater' = size
  <2>1. HighWater' = PromptSize(prompt)' + NDecoders' * i'
    BY DEF HighWater
  <2>2. NDecoders * 0 = 0
    BY <1>3
  <2>3. QED
    BY <2>1, <2>2, <1>2, <1>4, <1>5, <1>7
<1>17. ASSUME NEW j \in Live'
       PROVE  HasHistory(shared, j, decoders'[j].tokens, size, 0)
  <2>1. j \in 0 .. NDecoders - 1 /\ j \in Running
    BY <1>4 DEF Live, Running
  <2>2. decoders'[j].tokens = <<>>
    BY <1>1, <1>2, <1>3, <2>1 DEF FreshDecoder
  <2>3. ASSUME NEW c, Holds(shared, c, j)
        PROVE  /\ shared.cells[c].pos \in 0 .. size + 0 - 1
               /\ shared.cells[c].from = SubSeq(<<>>, 1, More(0, shared.cells[c].pos - size + 1))
    <3>1. c \in 0 .. size - 1 /\ shared.cells[c].pos = c /\ shared.cells[c].from = <<>>
      BY <2>3, <1>13, <1>14
    <3>2. More(0, c - size + 1) = 0
      BY <3>1, <1>5 DEF More
    <3>3. SubSeq(<<>>, 1, 0) = <<>>
      BY SubSeqEmpty
    <3>4. QED
      BY <3>1, <3>2, <3>3, <1>5
  <2>4. \A x \in 0 .. size + 0 - 1 : Holds(shared, x, j) /\ shared.cells[x].pos = x
    BY <2>1, <1>5, <1>13, <1>14
  <2>5. \A c, d : Holds(shared, c, j) /\ Holds(shared, d, j)
                    /\ shared.cells[c].pos = shared.cells[d].pos => c = d
    BY <1>13, <1>14
  <2>6. QED
    BY <2>2, <2>3, <2>4, <2>5 DEF HasHistory
<1>18. QED
  BY <1>2, <1>4, <1>6, <1>7, <1>12, <1>13, <1>15, <1>16, <1>17 DEF CacheInv

\* A token more for every decoder that goes on, after its own tokens or another's.
LEMMA SampleKeeps ==
  ASSUME WhisperInv, CacheInv, Sample \/ SampleBeam
  PROVE  CacheInv'
<1>1. /\ params \in ParamSets /\ decoders \in [0 .. MaxDecoders - 1 -> Decoder]
      /\ pc = "sample" /\ pc' = "update"
      /\ UNCHANGED <<params, it, i, prompt, kv_self_n_dec>>
      /\ \A j \in Live : Len(decoders[j].tokens) = i
  BY DEF WhisperInv, DecodersInv, Sample, SampleBeam
<1>2. NDecoders \in 1 .. MaxDecoders /\ Live \subseteq DOMAIN decoders /\ Running \subseteq DOMAIN decoders
  BY <1>1, SomeDecoders DEF Live
<1>3. /\ kv \in Caches /\ kv_self_n_dec \in 1 .. MaxDecoders /\ kv_self_n_dec >= NDecoders
      /\ kv.size = KVPad * (IF kv_self_n_dec > 1 THEN kv_self_n_dec + 2 ELSE 1)
      /\ Below(kv, HighWater)
      /\ \A c \in DOMAIN kv.cells : c < kv.n
      /\ \A c, q : Holds(kv, c, q) => q \in 0 .. MaxDecoders - 1
      /\ \A j \in Live : HasHistory(kv, j, decoders[j].tokens, PromptSize(prompt), i)
  BY <1>1 DEF CacheInv, Decoding
<1>4. PromptSize(prompt) \in Nat /\ i \in Nat /\ HighWater \in Nat
  BY <1>1, Room DEF Decoding
<1>5. \E src \in [Live -> Live], token \in [Live -> Tokens] :
        /\ decoders' = [j \in DOMAIN decoders |->
                          IF j \in Live THEN Extend(decoders[src[j]], token[j]) ELSE decoders[j]]
        /\ kv' \in Caches /\ Narrowed(kv', kv)
        /\ \A c, q : Holds(kv', c, q)
                       <=> IF q \in Live THEN Holds(kv, c, src[q]) ELSE Holds(kv, c, q)
  <2>1. CASE Sample
    <3>1. PICK token \in [Live -> Tokens] :
            decoders' = [j \in DOMAIN decoders |->
                           IF j \in Live THEN Extend(decoders[j], token[j]) ELSE decoders[j]]
      BY <2>1 DEF Sample
    <3> DEFINE src == [j \in Live |-> j]
    <3>2. src \in [Live -> Live] /\ \A j \in Live : src[j] = j
      OBVIOUS
    <3> HIDE DEF src
    <3>3. decoders' = [j \in DOMAIN decoders |->
                         IF j \in Live THEN Extend(decoders[src[j]], token[j]) ELSE decoders[j]]
      BY <3>1, <3>2
    <3>4. kv' = kv
      BY <2>1 DEF Sample
    <3>5. \A c, q : Holds(kv', c, q)
                      <=> IF q \in Live THEN Holds(kv, c, src[q]) ELSE Holds(kv, c, q)
      BY <3>2, <3>4
    <3>6. kv' \in Caches /\ Narrowed(kv', kv)
      BY <1>3, <3>4, NotNarrowed
    <3>7. QED
      BY <3>2, <3>3, <3>5, <3>6
  <2>2. CASE SampleBeam
    <3>1. PICK src \in [Live -> Live], token \in [Live -> Tokens] :
            /\ decoders' = [j \in DOMAIN decoders |->
                              IF j \in Live THEN Extend(decoders[src[j]], token[j]) ELSE decoders[j]]
            /\ kv' = Reshuffled(kv, src)
      BY <2>2 DEF SampleBeam
    <3>2. /\ Reshuffled(kv, src) \in Caches /\ Narrowed(Reshuffled(kv, src), kv)
          /\ \A c, q : Holds(Reshuffled(kv, src), c, q)
                         <=> IF q \in Live THEN Holds(kv, c, src[q]) ELSE Holds(kv, c, q)
      BY <1>2, <1>3, ReshuffledGives
    <3>3. QED
      BY <3>1, <3>2
  <2>3. QED
    BY <2>1, <2>2
<1>6. PICK src \in [Live -> Live], token \in [Live -> Tokens] :
        /\ decoders' = [j \in DOMAIN decoders |->
                          IF j \in Live THEN Extend(decoders[src[j]], token[j]) ELSE decoders[j]]
        /\ kv' \in Caches /\ Narrowed(kv', kv)
        /\ \A c, q : Holds(kv', c, q)
                       <=> IF q \in Live THEN Holds(kv, c, src[q]) ELSE Holds(kv, c, q)
  BY <1>5
<1>7. NDecoders' = NDecoders /\ PromptSize(prompt)' = PromptSize(prompt) /\ HighWater' = HighWater
  BY <1>1 DEF NDecoders, Temperature, PromptSize, HighWater
<1>8. Live' \subseteq Live
  BY <1>1, <1>2, <1>6 DEF Live, Running, NDecoders, Temperature
<1>9. /\ kv'.size = kv.size /\ Below(kv', HighWater)
      /\ \A c \in DOMAIN kv'.cells : c < kv'.n
  <2>1. kv'.size = kv.size /\ kv'.n = kv.n /\ DOMAIN kv'.cells \subseteq DOMAIN kv.cells
    BY <1>6 DEF Narrowed
  <2>2. Below(kv', HighWater)
    BY <1>3, <1>4, <1>6 DEF Narrowed
  <2>3. QED
    BY <2>1, <2>2, <1>3
<1>10. \A c, q : Holds(kv', c, q) => q \in 0 .. MaxDecoders - 1
  <2>1. \A q \in Live : q \in 0 .. MaxDecoders - 1
    BY <1>1, <1>2
  <2>2. QED
    BY <2>1, <1>3, <1>6
<1>11. ASSUME NEW j \in Live
       PROVE  HasHistory(kv', j, decoders'[j].tokens, PromptSize(prompt), i)
  <2> DEFINE s == src[j]
             tokens == decoders[s].tokens
             t == token[j]
  <2>1. s \in Live /\ t \in Tokens /\ j \in DOMAIN decoders /\ s \in DOMAIN decoders
    BY <1>2
  <2>2. tokens \in Seq(Tokens) /\ Len(tokens) = i /\ HasHistory(kv, s, tokens, PromptSize(prompt), i)
    BY <2>1, <1>1, <1>3 DEF Decoder
  <2>3. decoders'[j].tokens = Append(tokens, t)
    <3>1. decoders'[j] = Extend(decoders[s], t) /\ decoders[s] \in Decoder
      BY <2>1, <1>1, <1>6
    <3>2. QED
      BY <3>1 DEF Extend, Decoder
  <2>4. \A c : Holds(kv', c, j) <=> Holds(kv, c, s)
    BY <1>6
  <2>5. Narrowed(kv', kv)
    BY <1>6
  <2> HIDE DEF s, tokens, t
  <2>6. HasHistory(kv', j, Append(tokens, t), PromptSize(prompt), i)
    BY <2>1, <2>2, <2>4, <2>5, <1>4, HistoryMoves
  <2>7. QED
    BY <2>3, <2>6
<1>12. QED
  BY <1>1, <1>3, <1>6, <1>7, <1>8, <1>9, <1>10, <1>11 DEF CacheInv

\* What the token does to its decoder leaves its tokens and the cache as they are.
LEMMA UpdateKeeps ==
  ASSUME WhisperInv, CacheInv, Update
  PROVE  CacheInv'
<1>1. /\ params \in ParamSets /\ decoders \in [0 .. MaxDecoders - 1 -> Decoder]
      /\ pc = "update" /\ i \in Nat
      /\ UNCHANGED <<params, it, i, prompt, kv, kv_self_n_dec>>
      /\ \A j \in Live : Len(decoders[j].tokens) = i + 1
      /\ \A j \in DOMAIN decoders : decoders[j].result_len <= Len(decoders[j].tokens)
  BY DEF WhisperInv, DecodersInv, Update
<1>2. Running \subseteq DOMAIN decoders /\ Live \subseteq DOMAIN decoders
  BY <1>1, SomeDecoders DEF Live
<1>3. decoders' = [j \in DOMAIN decoders |-> IF j \in Live THEN Updated(decoders[j]) ELSE decoders[j]]
  BY DEF Update
<1>4. \A j \in Live : decoders'[j].tokens = decoders[j].tokens
  BY <1>1, <1>2, <1>3, UpdateDecoder
<1>5. NDecoders' = NDecoders /\ PromptSize(prompt)' = PromptSize(prompt) /\ HighWater' = HighWater
  BY <1>1 DEF NDecoders, Temperature, PromptSize, HighWater
<1>6. Live' \subseteq Live
  BY <1>1, <1>2, <1>3 DEF Live, Running, NDecoders, Temperature
<1>7. QED
  BY <1>1, <1>4, <1>5, <1>6 DEF CacheInv, Decoding

\* Every decoder that goes on gets a cell for its newest token.
LEMMA DecodeKeeps ==
  ASSUME WhisperInv, CacheInv, DecodeTokens
  PROVE  CacheInv'
<1> DEFINE n == Cardinality(Live)
           batch == TokenBatch
           decoded == Decode(kv, batch)
<1>1. /\ params \in ParamSets /\ decoders \in [0 .. MaxDecoders - 1 -> Decoder]
      /\ pc = "decode" /\ UNCHANGED <<params, it, prompt, decoders, kv_self_n_dec>>
      /\ kv' = decoded
      /\ \/ pc' = "rank"
         \/ pc' = "sample" /\ i' = i + 1
      /\ \A j \in Live : Len(decoders[j].tokens) = i + 1
  BY DEF WhisperInv, DecodersInv, DecodeTokens
<1>2. NDecoders \in 1 .. MaxDecoders
  BY <1>1, SomeDecoders
<1>3. /\ kv \in Caches /\ kv_self_n_dec \in 1 .. MaxDecoders /\ kv_self_n_dec >= NDecoders
      /\ kv.size = KVPad * (IF kv_self_n_dec > 1 THEN kv_self_n_dec + 2 ELSE 1)
      /\ Below(kv, HighWater)
      /\ \A c, q : Holds(kv, c, q) => q \in 0 .. MaxDecoders - 1
      /\ \A j \in Live : HasHistory(kv, j, decoders[j].tokens, PromptSize(prompt), i)
  BY <1>1 DEF CacheInv, Decoding
<1>4. /\ PromptSize(prompt) \in Nat /\ i \in Nat /\ HighWater \in Nat
      /\ HighWater + NDecoders <= kv.size
  BY <1>1, Room DEF Decoding
<1>5. /\ batch \in Batches /\ Len(batch) = n /\ n <= NDecoders /\ n \in Nat
      /\ \A k \in 1 .. n : batch[k] = [pos |-> NPast, seq |-> LiveInOrder[k],
                                       from |-> decoders[LiveInOrder[k]].tokens]
  BY <1>1, BatchOfTokens
<1>6. /\ Live \subseteq 0 .. MaxDecoders - 1
      /\ LiveInOrder \in [1 .. n -> Live]
      /\ \A k, l \in 1 .. n : LiveInOrder[k] = LiveInOrder[l] => k = l
      /\ \A j \in Live : \E k \in 1 .. n : LiveInOrder[k] = j
  BY <1>2, LiveListed
<1> HIDE DEF n, batch
<1>7. HighWater + Len(batch) <= kv.size
  <2>1. kv.size \in Nat
    BY <1>3, CachesAre
  <2>2. HighWater + n <= HighWater + NDecoders
    BY <1>2, <1>4, <1>5
  <2>3. QED
    BY <2>1, <2>2, <1>2, <1>4, <1>5
<1>8. /\ decoded \in Caches /\ Below(decoded, HighWater + Len(batch))
      /\ \E slot \in 0 .. HighWater : Filled(decoded, kv, batch, slot)
  BY <1>3, <1>4, <1>5, <1>7, DecodeGives
<1>9. PICK slot \in 0 .. HighWater : Filled(decoded, kv, batch, slot)
  BY <1>8
<1> HIDE DEF decoded
<1>10. /\ decoded.size = kv.size
       /\ DOMAIN decoded.cells = DOMAIN kv.cells \union slot .. slot + n - 1
       /\ \A c \in DOMAIN kv.cells : decoded.cells[c] = kv.cells[c]
       /\ \A k \in 1 .. n : /\ slot + k - 1 \notin DOMAIN kv.cells
                            /\ decoded.cells[slot + k - 1] = CellFor(batch[k])
       /\ \A c \in DOMAIN decoded.cells : c < decoded.n
  BY <1>5, <1>9 DEF Filled
<1>11. \A c : c \in slot .. slot + n - 1 => \E k \in 1 .. n : c = slot + k - 1
  <2> SUFFICES ASSUME NEW c \in slot .. slot + n - 1
               PROVE  \E k \in 1 .. n : c = slot + k - 1
    OBVIOUS
  <2>1. c - slot + 1 \in 1 .. n /\ c = slot + (c - slot + 1) - 1
    BY <1>4, <1>5
  <2>2. QED
    BY <2>1
<1>12. ASSUME NEW k \in 1 .. n
       PROVE  /\ slot + k - 1 \in DOMAIN decoded.cells /\ slot + k - 1 \notin DOMAIN kv.cells
              /\ decoded.cells[slot + k - 1].pos = NPast
              /\ decoded.cells[slot + k - 1].seqs = {LiveInOrder[k]}
              /\ decoded.cells[slot + k - 1].from = decoders[LiveInOrder[k]].tokens
  <2>1. slot + k - 1 \in slot .. slot + n - 1
    BY <1>4, <1>5
  <2>2. batch[k] = [pos |-> NPast, seq |-> LiveInOrder[k],
                    from |-> decoders[LiveInOrder[k]].tokens]
    BY <1>5
  <2>3. decoded.cells[slot + k - 1] = CellFor(batch[k])
    BY <1>10
  <2>4. QED
    BY <2>1, <2>2, <2>3, <1>10 DEF CellFor
<1>13. \A c, q : Holds(decoded, c, q)
                   <=> Holds(kv, c, q) \/ \E k \in 1 .. n : c = slot + k - 1 /\ q = LiveInOrder[k]
  <2> SUFFICES ASSUME NEW c, NEW q
               PROVE  Holds(decoded, c, q)
                        <=> Holds(kv, c, q) \/ \E k \in 1 .. n : c = slot + k - 1 /\ q = LiveInOrder[k]
    OBVIOUS
  <2>1. CASE c \in DOMAIN kv.cells
    BY <2>1, <1>10, <1>12 DEF Holds
  <2>2. CASE c \in slot .. slot + n - 1
    <3>1. PICK k \in 1 .. n : c = slot + k - 1
      BY <2>2, <1>11
    <3>2. Holds(decoded, c, q) <=> q = LiveInOrder[k]
      BY <3>1, <1>12 DEF Holds
    <3>3. ~Holds(kv, c, q)
      BY <3>1, <1>12 DEF Holds
    <3>4. \A l \in 1 .. n : c = slot + l - 1 => l = k
      BY <3>1, <1>4, <1>5
    <3>5. QED
      BY <3>1, <3>2, <3>3, <3>4
  <2>3. CASE c \notin DOMAIN kv.cells /\ c \notin slot .. slot + n - 1
    <3>1. ~Holds(decoded, c, q) /\ ~Holds(kv, c, q)
      BY <2>3, <1>10 DEF Holds
    <3>2. \A k \in 1 .. n : c # slot + k - 1
      BY <2>3, <1>12, <1>10
    <3>3. QED
      BY <3>1, <3>2
  <2>4. QED
    BY <2>1, <2>2, <2>3
<1>14. \A c, q : Holds(decoded, c, q) => q \in 0 .. MaxDecoders - 1
  <2>1. \A k \in 1 .. n : LiveInOrder[k] \in 0 .. MaxDecoders - 1
    BY <1>6
  <2>2. QED
    BY <2>1, <1>3, <1>13
<1>15. ASSUME NEW j \in Live
       PROVE  HasHistory(decoded, j, decoders[j].tokens, PromptSize(prompt), i + 1)
  <2> DEFINE tokens == decoders[j].tokens
             size == PromptSize(prompt)
  <2>1. PICK k \in 1 .. n : LiveInOrder[k] = j
    BY <1>6
  <2> DEFINE c0 == slot + k - 1
  <2>2. ~Holds(kv, c0, j)
    BY <1>12 DEF Holds
  <2>3. \A c : Holds(decoded, c, j) <=> Holds(kv, c, j) \/ c = c0
    <3>1. \A l \in 1 .. n : j = LiveInOrder[l] <=> l = k
      BY <2>1, <1>6
    <3>2. QED
      BY <3>1, <1>13
  <2>4. decoded.cells[c0].pos = size + i /\ decoded.cells[c0].from = tokens
    BY <2>1, <1>12 DEF NPast
  <2>5. tokens \in Seq(Tokens) /\ Len(tokens) = i + 1
    BY <1>1, <1>6 DEF Decoder
  <2>6. HasHistory(kv, j, tokens, size, i) /\ size \in Nat /\ i \in Nat
    BY <1>3, <1>4
  <2>7. \A c \in DOMAIN kv.cells : decoded.cells[c] = kv.cells[c]
    BY <1>10
  <2> HIDE DEF tokens, size, c0
  <2>8. HasHistory(decoded, j, tokens, size, i + 1)
    BY <2>2, <2>3, <2>4, <2>5, <2>6, <2>7, HistoryGrows
  <2>9. QED
    BY <2>8 DEF tokens, size
<1>16. NDecoders' = NDecoders /\ PromptSize(prompt)' = PromptSize(prompt) /\ Live' = Live
  BY <1>1 DEF NDecoders, Temperature, PromptSize, Live, Running
<1>17. CASE pc' = "rank"
  BY <1>1, <1>3, <1>8, <1>10, <1>17 DEF CacheInv, Decoding
<1>18. CASE pc' = "sample" /\ i' = i + 1
  <2>1. HighWater' = HighWater + NDecoders
    <3>1. HighWater' = PromptSize(prompt)' + NDecoders' * i'
      BY DEF HighWater
    <3>2. NDecoders * (i + 1) = NDecoders * i + NDecoders
      <4>1. NDecoders \in {1, 2, 3, 4, 5, 6, 7, 8}
        BY <1>2 DEF MaxDecoders
      <4>2. QED
        BY <4>1, <1>4
    <3>3. NDecoders * i \in Int
      <4>1. NDecoders \in Int /\ i \in Int
        BY <1>2, <1>4
      <4>2. QED
        BY <4>1
    <3>4. QED
      BY <3>1, <3>2, <3>3, <1>2, <1>4, <1>16, <1>18 DEF HighWater
  <2>2. Below(decoded, HighWater')
    <3>1. HighWater + Len(batch) <= HighWater' /\ HighWater' \in Nat /\ HighWater + Len(batch) \in Nat
      BY <2>1, <1>2, <1>4, <1>5
    <3>2. decoded.head \in Nat
      BY <1>8, CachesAre
    <3>3. QED
      BY <3>1, <3>2, <1>8 DEF Below
  <2>3. \A j \in Live' : HasHistory(kv', j, decoders'[j].tokens, PromptSize(prompt)', i')
    BY <1>1, <1>15, <1>16, <1>18
  <2>4. QED
    BY <2>2, <2>3, <1>1, <1>3, <1>8, <1>10, <1>14, <1>16 DEF CacheInv
<1>19. QED
  BY <1>1, <1>17, <1>18

\* One step of whisper_full_with_state, as far as the cache goes.
LEMMA CacheStep == WhisperInv /\ CacheInv /\ [Next]_vars => CacheInv'
<1> SUFFICES ASSUME WhisperInv, CacheInv, [Next]_vars PROVE CacheInv'
  OBVIOUS
<1>1. CASE \/ TooShort \/ PreparePrompt \/ Finish \/ EncodeChunk \/ EncodeFails
           \/ AttemptFails \/ DecodeFails \/ Rank \/ Accept \/ Retry \/ Output
  <2>1. UNCHANGED <<kv, kv_self_n_dec>> /\ pc' \in {"returned", "chunk", "attempt", "judge", "output"}
    BY <1>1 DEF TooShort, PreparePrompt, Finish, EncodeChunk, EncodeFails, AttemptFails,
                DecodeFails, Rank, Accept, Retry, Output, Return
  <2>2. QED
    BY <2>1, CacheStays DEF Decoding
<1>2. CASE UNCHANGED vars
  <2>1. UNCHANGED <<pc, params, it, prompt, i, decoders, kv, kv_self_n_dec>>
    BY <1>2 DEF vars
  <2>2. /\ NDecoders' = NDecoders /\ PromptSize(prompt)' = PromptSize(prompt)
        /\ HighWater' = HighWater /\ Live' = Live
    BY <2>1 DEF NDecoders, Temperature, PromptSize, HighWater, Live, Running
  <2>3. QED
    BY <2>1, <2>2 DEF CacheInv
<1>3. QED
  BY <1>1, <1>2, StartFills, SampleKeeps, UpdateKeeps, DecodeKeeps DEF Next, Returned

\* Of every call.
LEMMA CacheInvariant == Spec => [](WhisperInv /\ CacheInv)
<1>1. Init => CacheInv
  BY CacheInitially
<1>2. WhisperInv /\ CacheInv /\ [Next]_vars => CacheInv'
  BY CacheStep
<1>3. QED
  BY <1>1, <1>2, WhisperInitially, WhisperStep, PTL DEF Spec

\* No prompt and no batch of tokens ever lacks a slot: the failures that
\* whisper_full_with_state reports are those of memory and of the graphs alone.
THEOREM SlotsAlwaysSuffice == Spec => []SlotsSuffice
<1>1. WhisperInv /\ CacheInv => SlotsSuffice
  BY AlwaysASlot
<1>2. QED
  BY <1>1, CacheInvariant, PTL

\* Every decoder samples from its own history, each position of it once.
THEOREM HistoryIsAlwaysCached == Spec => []HistoryIsCached
<1>1. WhisperInv /\ CacheInv => HistoryIsCached
  <2> SUFFICES ASSUME WhisperInv, CacheInv PROVE HistoryIsCached
    OBVIOUS
  <2>1. pc = "sample" => \A c \in DOMAIN kv.cells : c < kv.n
    BY DEF CacheInv, Decoding
  <2>2. ASSUME pc = "sample", NEW j \in Live
        PROVE  /\ {kv.cells[c].pos : c \in SeenBy(kv, j)}
                    = 0 .. (PromptSize(prompt) + Len(decoders[j].tokens)) - 1
               /\ \A c, d \in SeenBy(kv, j) : kv.cells[c].pos = kv.cells[d].pos => c = d
               /\ \A c \in SeenBy(kv, j) :
                    kv.cells[c].from = SubSeq(decoders[j].tokens, 1,
                                              More(0, kv.cells[c].pos - PromptSize(prompt) + 1))
    <3> DEFINE seen == SeenBy(kv, j)
               tokens == decoders[j].tokens
               p == PromptSize(prompt)
    <3>1. HasHistory(kv, j, tokens, p, Len(tokens)) /\ Len(tokens) = i
      BY <2>2 DEF CacheInv, Decoding, WhisperInv, DecodersInv
    <3>2. \A c : c \in seen <=> Holds(kv, c, j)
      BY <2>1, <2>2 DEF SeenBy, Holds
    <3>3. p \in Nat /\ i \in Nat
      BY <2>2, Room DEF Decoding
    <3> HIDE DEF seen, tokens, p
    <3>4. {kv.cells[c].pos : c \in seen} = 0 .. (p + Len(tokens)) - 1
      <4>1. (p + Len(tokens)) - 1 = p + (Len(tokens) - 1)
        BY <3>1, <3>3
      <4>2. {kv.cells[c].pos : c \in seen} = 0 .. p + (Len(tokens) - 1)
        BY <3>1, <3>2 DEF HasHistory
      <4>3. QED
        BY <4>1, <4>2
    <3>5. \A c, d \in seen : kv.cells[c].pos = kv.cells[d].pos => c = d
      BY <3>1, <3>2 DEF HasHistory
    <3>6. \A c \in seen : kv.cells[c].from = SubSeq(tokens, 1, More(0, kv.cells[c].pos - p + 1))
      BY <3>1, <3>2 DEF HasHistory
    <3>7. QED
      BY <3>4, <3>5, <3>6 DEF seen, tokens, p
  <2>3. QED
    BY <2>2 DEF HistoryIsCached
<1>2. QED
  BY <1>1, CacheInvariant, PTL

-----------------------------------------------------------------------------
(***************************************************************************)
(* The window: the timestamps of a decoder lie within it, in order.        *)
(***************************************************************************)

\* What the first n tokens of a decoder say of the window: no timestamp lies beyond it, they do
\* not go back, and without any it has not moved.
InWindow(d, n) ==
  /\ \A k \in 1 .. n : d.tokens[k] > 0 => 2 * d.tokens[k] <= d.seek_delta
  /\ \A k, l \in 1 .. n :
       k < l /\ d.tokens[k] > 0 /\ d.tokens[l] > 0 => d.tokens[k] <= d.tokens[l]
  /\ ~d.has_ts /\ ~Finished(d) => \A k \in 1 .. n : d.tokens[k] <= 0

\* The newest timestamp is not before the others.
GoesOn(d) == d.has_ts /\ Newest(d) >= 0 => Newest(d) >= d.seek_delta \div 2

\* While a token is taken in, what is said of a decoder leaves out that token.
WindowInv ==
  /\ result_all \in Seq(Int) /\ result_all # <<>>
  /\ AtEnd \/ Last(result_all) <= seek
  /\ \A j \in DOMAIN decoders :
       InWindow(decoders[j], IF pc = "update" /\ j \in Live THEN i ELSE Len(decoders[j].tokens))
  /\ pc = "update" => \A j \in Live : GoesOn(decoders[j])

\* A decoder's tokens, as numbers.
LEMMA TokensAre ==
  ASSUME NEW d \in Decoder
  PROVE  /\ d.tokens \in Seq(Tokens) /\ Len(d.tokens) \in Nat
         /\ \A k \in 1 .. Len(d.tokens) :
              d.tokens[k] \in Int /\ 2 * d.tokens[k] \in Int /\ 2 * d.tokens[k] <= Chunk
         /\ d.seek_delta \in 1 .. Chunk /\ Chunk \in Nat
<1>1. d.tokens \in Seq(Tokens) /\ Len(d.tokens) \in Nat /\ d.seek_delta \in 1 .. Chunk
  BY DEF Decoder
<1>2. MaxTs \in Nat /\ Text \in Int /\ Text < 0 /\ Eot \in Int /\ Eot < 0
  BY WhisperAssumption
<1>3. \A t \in Tokens : t \in Int /\ 2 * t \in Int /\ 2 * t <= Chunk
  BY <1>2 DEF Tokens, Chunk
<1>4. \A k \in 1 .. Len(d.tokens) : d.tokens[k] \in Tokens
  BY <1>1
<1>5. Chunk \in Nat
  BY <1>2 DEF Chunk
<1>6. QED
  BY <1>1, <1>3, <1>4, <1>5

\* A new decoder.
LEMMA FreshInWindow == InWindow(FreshDecoder, Len(FreshDecoder.tokens))
BY DEF InWindow, FreshDecoder

\* A permitted token more.
LEMMA ExtendInWindow ==
  ASSUME NEW d \in Decoder, InWindow(d, Len(d.tokens)), NEW token \in Permitted(d)
  PROVE  /\ InWindow(Extend(d, token), Len(d.tokens))
         /\ GoesOn(Extend(d, token))
<1>1. /\ token \in Tokens /\ (d.has_ts /\ token >= 0 => token >= d.seek_delta \div 2)
  BY DEF Permitted, Increasing, IsTimestamp
<1> DEFINE longer == Append(d.tokens, token)
           x == Extend(d, token)
<1>2. d.tokens \in Seq(Tokens) /\ Len(d.tokens) \in Nat
  BY TokensAre
<1>3. /\ longer \in Seq(Tokens) /\ Len(longer) = Len(d.tokens) + 1
      /\ longer[Len(d.tokens) + 1] = token
      /\ \A k \in 1 .. Len(d.tokens) : longer[k] = d.tokens[k]
  BY <1>1, <1>2
<1>4. /\ x.tokens = longer /\ x.seek_delta = d.seek_delta /\ x.has_ts = d.has_ts
      /\ Finished(x) = Finished(d)
  BY DEF Extend, Decoder, Finished
<1>5. Newest(x) = token
  BY <1>3, <1>4 DEF Newest
<1> HIDE DEF x, longer
<1>6. InWindow(x, Len(d.tokens))
  BY <1>3, <1>4 DEF InWindow
<1>7. GoesOn(x)
  BY <1>1, <1>4, <1>5 DEF GoesOn
<1>8. QED
  BY <1>6, <1>7 DEF x

\* Fewer tokens, and a wider window.
LEMMA Widened ==
  ASSUME NEW d \in Decoder, NEW e \in Decoder, NEW n \in Nat, NEW m \in Nat, m <= n,
         n <= Len(d.tokens), InWindow(d, n), \A k \in 1 .. m : e.tokens[k] = d.tokens[k],
         e.seek_delta = d.seek_delta \/ e.seek_delta = Chunk, m <= Len(e.tokens),
         e.has_ts = d.has_ts \/ e.has_ts, Finished(d) => Finished(e)
  PROVE  InWindow(e, m)
<1>1. /\ \A k \in 1 .. Len(d.tokens) :
           d.tokens[k] \in Int /\ 2 * d.tokens[k] \in Int /\ 2 * d.tokens[k] <= Chunk
      /\ Len(d.tokens) \in Nat
  BY TokensAre
<1>2. \A k \in 1 .. m : k \in 1 .. n /\ k \in 1 .. Len(d.tokens)
  BY <1>1
<1>3. \A k \in 1 .. m : e.tokens[k] > 0 => 2 * e.tokens[k] <= e.seek_delta
  BY <1>1, <1>2 DEF InWindow
<1>4. \A k, l \in 1 .. m : k < l /\ e.tokens[k] > 0 /\ e.tokens[l] > 0 => e.tokens[k] <= e.tokens[l]
  BY <1>2 DEF InWindow
<1>5. ~e.has_ts /\ ~Finished(e) => \A k \in 1 .. m : e.tokens[k] <= 0
  BY <1>2 DEF InWindow
<1>6. QED
  BY <1>3, <1>4, <1>5 DEF InWindow

\* A timestamp moves the window to where it points, which is not before the others.
LEMMA MoveInWindow ==
  ASSUME i \in Nat, NEW d \in Decoder, Len(d.tokens) = i + 1, ~Finished(d),
         InWindow(d, i), GoesOn(d)
  PROVE  InWindow(MovesWindow(d), i + 1) /\ MovesWindow(d).tokens = d.tokens
<1> DEFINE x == Newest(d)
           m == MovesWindow(d)
<1>1. /\ \A k \in 1 .. i + 1 :
           d.tokens[k] \in Int /\ 2 * d.tokens[k] \in Int /\ 2 * d.tokens[k] <= Chunk
      /\ d.seek_delta \in Nat /\ Chunk \in Nat
  BY TokensAre
<1>2. x = d.tokens[i + 1] /\ x \in Int
  BY <1>1 DEF Newest
<1>3. \A k \in 1 .. i : d.tokens[k] > 0 => 2 * d.tokens[k] <= d.seek_delta /\ d.has_ts
  BY <1>1 DEF InWindow
<1>4. \A k \in 1 .. i + 1 : k = i + 1 \/ k \in 1 .. i
  OBVIOUS
<1> HIDE DEF x
<1>5. CASE x <= 0
  <2>1. m = d
    BY <1>5 DEF MovesWindow, x
  <2>2. InWindow(d, i + 1)
    <3>1. ~(d.tokens[i + 1] > 0) /\ d.tokens[i + 1] <= 0
      BY <1>2, <1>5
    <3>2. \A k \in 1 .. i + 1 : d.tokens[k] > 0 => k \in 1 .. i
      BY <3>1, <1>4
    <3>3. \A k \in 1 .. i + 1 : d.tokens[k] > 0 => 2 * d.tokens[k] <= d.seek_delta
      BY <3>2, <1>3
    <3>4. \A k, l \in 1 .. i + 1 :
            k < l /\ d.tokens[k] > 0 /\ d.tokens[l] > 0 => d.tokens[k] <= d.tokens[l]
      BY <3>2 DEF InWindow
    <3>5. ~d.has_ts /\ ~Finished(d) => \A k \in 1 .. i + 1 : d.tokens[k] <= 0
      BY <3>1, <1>4 DEF InWindow
    <3>6. QED
      BY <3>3, <3>4, <3>5 DEF InWindow
  <2>3. QED
    BY <2>1, <2>2
<1>6. CASE x > 0
  <2>1. \A k \in 1 .. i : d.tokens[k] > 0 => d.tokens[k] <= x
    <3> SUFFICES ASSUME NEW k \in 1 .. i, d.tokens[k] > 0 PROVE d.tokens[k] <= x
      OBVIOUS
    <3>1. 2 * d.tokens[k] <= d.seek_delta /\ d.has_ts /\ d.tokens[k] \in Int
      BY <1>1, <1>3
    <3>2. x >= d.seek_delta \div 2
      BY <3>1, <1>6, <1>2 DEF GoesOn, x
    <3>3. QED
      BY <3>1, <3>2, <1>1, <1>2, HalfBelow
  <2>2. \A k, l \in 1 .. i + 1 :
          k < l /\ d.tokens[k] > 0 /\ d.tokens[l] > 0 => d.tokens[k] <= d.tokens[l]
    <3> SUFFICES ASSUME NEW k \in 1 .. i + 1, NEW l \in 1 .. i + 1,
                        k < l, d.tokens[k] > 0, d.tokens[l] > 0
                 PROVE  d.tokens[k] <= d.tokens[l]
      OBVIOUS
    <3>1. k \in 1 .. i
      OBVIOUS
    <3>2. CASE l = i + 1
      BY <2>1, <1>2, <3>1, <3>2
    <3>3. CASE l \in 1 .. i
      BY <3>1, <3>3 DEF InWindow
    <3>4. QED
      BY <3>2, <3>3, <1>4
  <2>3. CASE m = [d EXCEPT !.failed = TRUE] /\ d.seek_delta > 2 * x
    <3>1. /\ m.tokens = d.tokens /\ m.seek_delta = d.seek_delta /\ Finished(m)
      BY <2>3 DEF Decoder, Finished
    <3>2. \A k \in 1 .. i + 1 : d.tokens[k] > 0 => 2 * d.tokens[k] <= d.seek_delta
      BY <2>3, <1>1, <1>2, <1>3, <1>4
    <3>3. QED
      BY <2>2, <3>1, <3>2 DEF InWindow
  <2>4. CASE m = [d EXCEPT !.seek_delta = 2 * x, !.result_len = i + 1, !.has_ts = TRUE]
    <3>1. /\ m.tokens = d.tokens /\ m.seek_delta = 2 * x /\ m.has_ts
      BY <2>4 DEF Decoder
    <3>2. \A k \in 1 .. i + 1 : d.tokens[k] > 0 => 2 * d.tokens[k] <= 2 * x
      <4> SUFFICES ASSUME NEW k \in 1 .. i + 1, d.tokens[k] > 0 PROVE 2 * d.tokens[k] <= 2 * x
        OBVIOUS
      <4>1. d.tokens[k] \in Int /\ (k = i + 1 \/ k \in 1 .. i)
        BY <1>1, <1>4
      <4>2. d.tokens[k] <= x
        BY <2>1, <1>2, <4>1
      <4>3. QED
        BY <1>2, <4>1, <4>2, DoubleIsMonotonic, 0 \in Int
    <3>3. QED
      BY <2>2, <3>1, <3>2 DEF InWindow
  <2>5. QED
    <3>1. ~(x <= 0)
      BY <1>2, <1>6
    <3>2. \/ m = [d EXCEPT !.failed = TRUE] /\ d.seek_delta > 2 * x
          \/ m = [d EXCEPT !.seek_delta = 2 * x, !.result_len = i + 1, !.has_ts = TRUE]
      BY <3>1, Zenon DEF MovesWindow, x
    <3>3. QED
      BY <3>2, <2>3, <2>4
<1>7. QED
  BY <1>2, <1>5, <1>6

\* So does the rest of what a token does to its decoder.
LEMMA UpdateInWindow ==
  ASSUME params \in ParamSets, i \in Nat,
         NEW d \in Decoder, Len(d.tokens) = i + 1, d.result_len <= Len(d.tokens), ~Finished(d),
         InWindow(d, i), GoesOn(d)
  PROVE  InWindow(Updated(d), i + 1)
<1> DEFINE m == MovesWindow(d)
<1>1. InWindow(m, i + 1) /\ m.tokens = d.tokens
  BY MoveInWindow
<1>2. m \in Decoder /\ Updated(d) \in Decoder /\ Updated(d).tokens = d.tokens
  BY MoveDecoder, UpdateDecoder
<1>3. \/ Updated(d) = m
      \/ Updated(d) = Completes(m)
      \/ ~m.failed /\ Updated(d) = [m EXCEPT !.failed = Repeats(m)]
  BY DEF Updated
<1> HIDE DEF m
<1>4. /\ Updated(d).seek_delta = m.seek_delta \/ Updated(d).seek_delta = Chunk
      /\ Updated(d).has_ts = m.has_ts
      /\ Finished(m) => Finished(Updated(d))
  BY <1>2, <1>3 DEF Completes, Decoder, Finished
<1>5. QED
  BY <1>1, <1>2, <1>4, Widened

\* The segments of a chunk end in order, within the window that the decoder has found.
LEMMA SegmentEndsAre ==
  ASSUME seek \in Nat, NEW d \in Decoder, InWindow(d, Len(d.tokens))
  PROVE  /\ SegmentEnds(d) \in Seq(Int)
         /\ \A k \in 1 .. Len(SegmentEnds(d)) : SegmentEnds(d)[k] \in seek .. seek + d.seek_delta
         /\ \A k, l \in 1 .. Len(SegmentEnds(d)) :
              k < l => SegmentEnds(d)[k] <= SegmentEnds(d)[l]
<1> DEFINE at == ClosedBy(d.tokens)
           closed == InOrder(at)
           n == Cardinality(at)
           tokens == d.tokens
           delta == d.seek_delta
           ends == [k \in 1 .. Len(closed) |-> seek + 2 * tokens[closed[k]]]
           open == IF HasOpenText(tokens) THEN <<seek + delta>> ELSE <<>>
<1>1. /\ tokens \in Seq(Tokens) /\ Len(tokens) \in Nat
      /\ \A k \in 1 .. Len(tokens) : tokens[k] \in Int /\ 2 * tokens[k] \in Int
      /\ delta \in 1 .. Chunk /\ delta \in Nat
  BY TokensAre
<1>2. at \subseteq 1 .. Len(tokens) /\ \A k \in at : tokens[k] > 0
  BY DEF ClosedBy
<1>3. IsFiniteSet(at) /\ at \subseteq Int
  <2>1. IsFiniteSet(1 .. Len(tokens)) /\ 1 .. Len(tokens) \subseteq Int
    <3>1. 1 \in Int /\ Len(tokens) \in Int
      BY <1>1
    <3>2. QED
      BY <3>1, FS_Interval
  <2>2. QED
    BY <2>1, <1>2, FS_Subset
<1>4. /\ n \in Nat /\ closed \in [1 .. n -> at]
      /\ \A k, l \in 1 .. n : k < l => closed[k] < closed[l]
  BY <1>3, Listed
<1>5. Len(closed) = n
  BY <1>4
<1>6. /\ \A k \in 1 .. Len(tokens) : tokens[k] > 0 => 2 * tokens[k] <= delta
      /\ \A k, l \in 1 .. Len(tokens) :
           k < l /\ tokens[k] > 0 /\ tokens[l] > 0 => tokens[k] <= tokens[l]
  BY DEF InWindow
<1>7. SegmentEnds(d) = ends \o open
  BY DEF SegmentEnds
<1> HIDE DEF at, closed, n, tokens, delta
<1>8. ASSUME NEW k \in 1 .. n
      PROVE  /\ closed[k] \in 1 .. Len(tokens) /\ tokens[closed[k]] > 0
             /\ tokens[closed[k]] \in Int
             /\ seek + 2 * tokens[closed[k]] \in seek .. seek + delta
  <2>1. closed[k] \in at
    BY <1>4
  <2>2. closed[k] \in 1 .. Len(tokens) /\ tokens[closed[k]] > 0 /\ tokens[closed[k]] \in Int
    BY <2>1, <1>1, <1>2
  <2>3. 2 * tokens[closed[k]] <= delta
    BY <2>2, <1>6
  <2>4. seek + 2 * tokens[closed[k]] \in seek .. seek + delta
    <3> DEFINE a == tokens[closed[k]]
    <3>1. a \in Int /\ a > 0 /\ 2 * a <= delta
      BY <2>2, <2>3
    <3> HIDE DEF a
    <3>2. seek + 2 * a \in seek .. seek + delta
      BY <3>1, <1>1
    <3>3. QED
      BY <3>2 DEF a
  <2>5. QED
    BY <2>2, <2>4
<1>9. \A k, l \in 1 .. n : k < l => seek + 2 * tokens[closed[k]] <= seek + 2 * tokens[closed[l]]
  <2> SUFFICES ASSUME NEW k \in 1 .. n, NEW l \in 1 .. n, k < l
               PROVE  seek + 2 * tokens[closed[k]] <= seek + 2 * tokens[closed[l]]
    OBVIOUS
  <2>1. closed[k] < closed[l]
    BY <1>4
  <2>2. tokens[closed[k]] <= tokens[closed[l]]
    BY <2>1, <1>6, <1>8
  <2>3. tokens[closed[k]] \in Int /\ tokens[closed[l]] \in Int /\ seek \in Int
    BY <1>8
  <2>4. QED
    BY <2>2, <2>3, DoubleIsMonotonic
<1>10. /\ Len(ends) = n /\ \A k \in 1 .. n : ends[k] = seek + 2 * tokens[closed[k]]
       /\ ends \in Seq(Int)
  <2>1. \A k \in 1 .. n : seek + 2 * tokens[closed[k]] \in Int
    BY <1>8
  <2>2. QED
    BY <2>1, <1>4, <1>5
<1> HIDE DEF ends
<1>11. open \in Seq(Int) /\ (open = <<>> \/ open = <<seek + delta>>)
  BY <1>1
<1> HIDE DEF open
<1> DEFINE all == ends \o open
<1>12. CASE open = <<>>
  <2>1. all = ends
    BY <1>10, <1>12
  <2>2. QED
    BY <2>1, <1>7, <1>8, <1>9, <1>10 DEF delta
<1>13. CASE open = <<seek + delta>>
  <2>1. /\ all \in Seq(Int) /\ Len(all) = n + 1 /\ all[n + 1] = seek + delta
        /\ \A k \in 1 .. n : all[k] = ends[k]
    BY <1>1, <1>4, <1>10, <1>13
  <2>2. \A k \in 1 .. n + 1 : k = n + 1 \/ k \in 1 .. n
    BY <1>4
  <2> HIDE DEF all
  <2>3. \A k \in 1 .. n + 1 : all[k] \in seek .. seek + delta
    <3>1. \A k \in 1 .. n : all[k] \in seek .. seek + delta
      BY <2>1, <1>8, <1>10
    <3>2. all[n + 1] \in seek .. seek + delta
      BY <2>1, <1>1
    <3>3. QED
      BY <3>1, <3>2, <2>2
  <2>4. ASSUME NEW k \in 1 .. n + 1, NEW l \in 1 .. n + 1, k < l PROVE all[k] <= all[l]
    <3>1. k \in 1 .. n
      BY <2>4, <1>4
    <3>2. CASE l = n + 1
      BY <3>1, <3>2, <2>1, <2>3
    <3>3. CASE l \in 1 .. n
      <4>1. all[k] = seek + 2 * tokens[closed[k]] /\ all[l] = seek + 2 * tokens[closed[l]]
        BY <3>1, <3>3, <2>1, <1>10
      <4>2. QED
        BY <3>1, <3>3, <2>4, <4>1, <1>9
    <3>4. QED
      BY <3>2, <3>3, <2>2
  <2>5. QED
    BY <2>1, <2>3, <2>4, <1>7 DEF delta, all
<1>14. QED
  BY <1>11, <1>12, <1>13

\* The end of the main loop moves the window.
LEMMA OutputMoves ==
  ASSUME WhisperInv, WindowInv, Output
  PROVE  /\ Window!MoveWindow
         /\ result_all' \in Seq(Int) /\ result_all' # <<>>
         /\ AtEnd' \/ Last(result_all') <= seek'
<1> DEFINE d == decoders[best]
           last == Last(result_all)
           step == SeekDelta(d)
<1>1. PICK no_speech \in BOOLEAN :
        /\ result_all' = <<last>> \o (IF no_speech THEN <<>> ELSE SegmentEnds(d))
        /\ seek' = seek + step
  BY DEF Output
<1>2. /\ params' = params /\ pc = "output"
  BY DEF Output
<1>3. /\ seek \in Nat /\ seek + DeltaMin < params.seek_end /\ params.seek_end \in Nat
      /\ DeltaMin \in Nat /\ DeltaMin > 0 /\ Chunk \in Nat /\ Chunk > 1
  BY <1>2, Lengths DEF WhisperInv
<1>4. d \in Decoder /\ best \in DOMAIN decoders
  BY DEF WhisperInv, DecodersInv
<1>5. InWindow(d, Len(d.tokens)) /\ d.seek_delta \in 1 .. Chunk
  BY <1>2, <1>4 DEF WindowInv, Decoder
<1>6. ~AtEnd
  BY <1>3 DEF AtEnd
<1>7. last \in Int /\ last <= seek
  BY <1>6 DEF WindowInv, Last
<1>8. \/ step = d.seek_delta
      \/ step = Chunk
      \/ step = params.seek_end - seek /\ params.seek_end - seek <= Chunk
  BY <1>3 DEF SeekDelta, Less
<1> DEFINE more == IF no_speech THEN <<>> ELSE SegmentEnds(d)
<1>9. /\ more \in Seq(Int)
      /\ \A k \in 1 .. Len(more) : more[k] \in seek .. seek + d.seek_delta
      /\ \A k, l \in 1 .. Len(more) : k < l => more[k] <= more[l]
  <2>1. CASE no_speech
    BY <2>1
  <2>2. CASE ~no_speech
    BY <2>2, <1>3, <1>4, <1>5, SegmentEndsAre
  <2>3. QED
    BY <2>1, <2>2
<1> DEFINE delta == d.seek_delta
           all == <<last>> \o more
<1>10. delta \in 1 .. Chunk /\ result_all' = all
  BY <1>1, <1>5
<1> HIDE DEF last, step, d, more, delta
<1>11. /\ all \in Seq(Int) /\ Len(all) = Len(more) + 1 /\ Len(more) \in Nat /\ all[1] = last
       /\ \A k \in 1 .. Len(more) : all[k + 1] = more[k]
       /\ all # <<>>
  BY <1>7, <1>9
<1>12. /\ \A k \in 1 .. Len(more) : more[k] \in seek .. seek + delta
       /\ \A k, l \in 1 .. Len(more) : k < l => more[k] <= more[l]
  BY <1>9 DEF delta
<1> HIDE DEF all
<1>13. \A k \in 2 .. Len(all) : k - 1 \in 1 .. Len(more) /\ all[k] = more[k - 1] /\ all[k] \in seek .. seek + delta
  <2> SUFFICES ASSUME NEW k \in 2 .. Len(all)
               PROVE  k - 1 \in 1 .. Len(more) /\ all[k] = more[k - 1] /\ all[k] \in seek .. seek + delta
    OBVIOUS
  <2>1. k - 1 \in 1 .. Len(more) /\ (k - 1) + 1 = k
    BY <1>11
  <2>2. QED
    BY <2>1, <1>11, <1>12
<1>14. \A k \in 2 .. Len(all) : all[k] \in seek .. seek + Chunk
  BY <1>3, <1>10, <1>13
<1>15. \A k \in 2 .. Len(all) : all[k - 1] <= all[k]
  <2> SUFFICES ASSUME NEW k \in 2 .. Len(all) PROVE all[k - 1] <= all[k]
    OBVIOUS
  <2>1. all[k] = more[k - 1] /\ all[k] \in seek .. seek + delta
    BY <1>13
  <2>2. CASE k = 2
    BY <2>1, <2>2, <1>3, <1>7, <1>10, <1>11
  <2>3. CASE k > 2
    <3>1. k - 1 \in 2 .. Len(all) /\ k \in Int
      BY <2>3, <1>11
    <3>2. all[k - 1] = more[(k - 1) - 1] /\ (k - 1) - 1 \in 1 .. Len(more)
      BY <3>1, <1>13
    <3>3. k - 1 \in 1 .. Len(more) /\ (k - 1) - 1 < k - 1
      BY <3>1, <1>13
    <3>4. QED
      BY <2>1, <3>2, <3>3, <1>12
  <2>4. QED
    BY <2>2, <2>3
<1>16. step \in 1 .. Chunk
  BY <1>3, <1>8, <1>10 DEF delta
<1>17. seek' + DeltaMin >= params.seek_end \/ all[Len(all)] <= seek'
  <2>1. all[Len(all)] = last \/ all[Len(all)] \in seek .. seek + delta
    <3>1. Len(all) = 1 \/ Len(all) \in 2 .. Len(all)
      BY <1>11
    <3>2. QED
      BY <3>1, <1>11, <1>13
  <2>2. CASE step = delta \/ step = Chunk
    <3>1. step \in Nat /\ delta <= step /\ seek' = seek + step
      BY <2>2, <1>1, <1>3, <1>10
    <3>2. CASE all[Len(all)] = last
      BY <3>1, <3>2, <1>3, <1>7
    <3>3. CASE all[Len(all)] \in seek .. seek + delta
      BY <3>1, <3>3, <1>3, <1>10
    <3>4. QED
      BY <3>2, <3>3, <2>1
  <2>3. CASE step = params.seek_end - seek
    BY <2>3, <1>1, <1>3
  <2>4. QED
    BY <2>2, <2>3, <1>8 DEF delta
<1>18. Window!MoveWindow
  <2>1. ~Window!Over
    BY <1>6 DEF Window!Over, AtEnd
  <2>2. \E x \in 1 .. Chunk : seek' = seek + x
    BY <1>1, <1>16
  <2>3. result_all'[1] = result_all[Len(result_all)]
    BY <1>10, <1>11 DEF last, Last
  <2>4. Window!Over' \/ result_all'[Len(result_all')] <= seek'
    BY <1>2, <1>10, <1>17 DEF Window!Over
  <2>5. \A k \in 2 .. Len(result_all') : /\ result_all'[k - 1] <= result_all'[k]
                                         /\ result_all'[k] \in seek .. seek + Chunk
    BY <1>10, <1>14, <1>15
  <2>6. QED
    BY <2>1, <2>2, <2>3, <2>4, <2>5, <1>2 DEF Window!MoveWindow
<1>19. AtEnd' \/ Last(result_all') <= seek'
  BY <1>2, <1>10, <1>17 DEF AtEnd, Last
<1>20. QED
  BY <1>10, <1>11, <1>18, <1>19

\* Before the first chunk.
LEMMA WindowInitially == Init => WindowInv /\ Window!WindowInit
<1> SUFFICES ASSUME Init PROVE WindowInv /\ Window!WindowInit
  OBVIOUS
<1>1. /\ seek = 0 /\ result_all = <<0>> /\ pc = "called" /\ params \in ParamSets
      /\ decoders = [j \in 0 .. MaxDecoders - 1 |-> FreshDecoder]
  BY DEF Init
<1>2. result_all \in Seq(Int) /\ result_all # <<>> /\ Last(result_all) <= seek
  BY <1>1 DEF Last
<1>3. \A j \in DOMAIN decoders : InWindow(decoders[j], Len(decoders[j].tokens))
  BY <1>1, FreshInWindow
<1>4. Window!WindowInit
  BY <1>1, Lengths DEF Window!WindowInit
<1>5. QED
  BY <1>1, <1>2, <1>3, <1>4 DEF WindowInv

\* Actions that leave the decoders, the window and the segments alone.
LEMMA WindowStays ==
  ASSUME WindowInv, UNCHANGED <<decoders, seek, result_all, params>>,
         pc # "update", pc' # "update"
  PROVE  WindowInv'
BY DEF WindowInv, AtEnd

\* Actions that change the decoders alone.
LEMMA DecodersMove ==
  ASSUME WindowInv, UNCHANGED <<seek, result_all, params>>, DOMAIN decoders' = DOMAIN decoders,
         pc' # "update",
         \A j \in DOMAIN decoders : InWindow(decoders'[j], Len(decoders'[j].tokens))
  PROVE  WindowInv'
BY DEF WindowInv, AtEnd

\* New decoders.
LEMMA StartInWindow ==
  ASSUME WindowInv, StartAttempt
  PROVE  WindowInv'
<1>1. /\ pc = "attempt" /\ pc' = "sample" /\ UNCHANGED <<seek, result_all, params>>
      /\ decoders' = [j \in DOMAIN decoders |-> IF j \in Running THEN FreshDecoder ELSE decoders[j]]
  BY DEF StartAttempt
<1>2. \A j \in DOMAIN decoders : InWindow(decoders[j], Len(decoders[j].tokens))
  BY <1>1 DEF WindowInv
<1>3. \A j \in DOMAIN decoders : InWindow(decoders'[j], Len(decoders'[j].tokens))
  BY <1>1, <1>2, FreshInWindow
<1>4. QED
  BY <1>1, <1>3, DecodersMove

\* A token for every decoder that goes on.
LEMMA SampleInWindow ==
  ASSUME WhisperInv, WindowInv, Sample \/ SampleBeam
  PROVE  WindowInv'
<1>1. /\ params \in ParamSets /\ decoders \in [0 .. MaxDecoders - 1 -> Decoder]
      /\ pc = "sample" /\ pc' = "update" /\ UNCHANGED <<params, it, i, seek, result_all>>
      /\ \A j \in Live : Len(decoders[j].tokens) = i
  BY DEF WhisperInv, DecodersInv, Sample, SampleBeam
<1>2. Live \subseteq DOMAIN decoders /\ Running \subseteq DOMAIN decoders
  BY <1>1, SomeDecoders DEF Live
<1>3. \E src \in [Live -> Live], token \in [Live -> Tokens] :
        /\ \A j \in Live : token[j] \in Permitted(decoders[src[j]])
        /\ decoders' = [j \in DOMAIN decoders |->
                          IF j \in Live THEN Extend(decoders[src[j]], token[j]) ELSE decoders[j]]
  <2>1. CASE Sample
    <3>1. PICK token \in [Live -> Tokens] :
            /\ \A j \in Live : token[j] \in Permitted(decoders[j])
            /\ decoders' = [j \in DOMAIN decoders |->
                              IF j \in Live THEN Extend(decoders[j], token[j]) ELSE decoders[j]]
      BY <2>1 DEF Sample
    <3> DEFINE src == [j \in Live |-> j]
    <3>2. src \in [Live -> Live] /\ \A j \in Live : src[j] = j
      OBVIOUS
    <3> HIDE DEF src
    <3>3. decoders' = [j \in DOMAIN decoders |->
                         IF j \in Live THEN Extend(decoders[src[j]], token[j]) ELSE decoders[j]]
      BY <3>1, <3>2
    <3>4. \A j \in Live : token[j] \in Permitted(decoders[src[j]])
      BY <3>1, <3>2
    <3>5. QED
      BY <3>2, <3>3, <3>4
  <2>2. CASE SampleBeam
    BY <2>2 DEF SampleBeam
  <2>3. QED
    BY <2>1, <2>2
<1>4. PICK src \in [Live -> Live], token \in [Live -> Tokens] :
        /\ \A j \in Live : token[j] \in Permitted(decoders[src[j]])
        /\ decoders' = [j \in DOMAIN decoders |->
                          IF j \in Live THEN Extend(decoders[src[j]], token[j]) ELSE decoders[j]]
  BY <1>3
<1>5. ASSUME NEW j \in Live
      PROVE  /\ ~Finished(decoders'[j])
             /\ InWindow(decoders'[j], i) /\ GoesOn(decoders'[j])
  <2> DEFINE d == decoders[src[j]]
             t == token[j]
  <2>1. src[j] \in Live /\ decoders'[j] = Extend(d, t) /\ t \in Permitted(d)
    BY <1>2, <1>4
  <2>2. d \in Decoder /\ Len(d.tokens) = i /\ ~Finished(d) /\ src[j] \in DOMAIN decoders
    BY <2>1, <1>1, <1>2 DEF Live
  <2>3. InWindow(d, Len(d.tokens))
    BY <2>2, <1>1 DEF WindowInv
  <2> HIDE DEF d, t
  <2>4. InWindow(Extend(d, t), Len(d.tokens)) /\ GoesOn(Extend(d, t))
    BY <2>1, <2>2, <2>3, ExtendInWindow
  <2>5. ~Finished(Extend(d, t))
    BY <2>2 DEF Extend, Decoder, Finished
  <2>6. QED
    BY <2>1, <2>2, <2>4, <2>5
<1>6. Running' = Running
  BY <1>1 DEF Running, NDecoders, Temperature
<1>7. Live' = Live
  <2>1. \A j \in Running : j \notin Live => decoders'[j] = decoders[j]
    BY <1>2, <1>4
  <2>2. \A j \in Running : Finished(decoders'[j]) <=> Finished(decoders[j])
    BY <2>1, <1>5 DEF Live
  <2>3. QED
    BY <2>2, <1>6 DEF Live
<1>8. ASSUME NEW j \in DOMAIN decoders, j \notin Live
      PROVE  InWindow(decoders'[j], Len(decoders'[j].tokens))
  BY <1>1, <1>4, <1>8 DEF WindowInv
<1>9. DOMAIN decoders' = DOMAIN decoders
  BY <1>4
<1>10. QED
  BY <1>1, <1>5, <1>7, <1>8, <1>9 DEF WindowInv, AtEnd

\* What the tokens do.
LEMMA UpdateStepInWindow ==
  ASSUME WhisperInv, WindowInv, Update
  PROVE  WindowInv'
<1>1. /\ params \in ParamSets /\ decoders \in [0 .. MaxDecoders - 1 -> Decoder] /\ i \in Nat
      /\ \A j \in DOMAIN decoders : decoders[j].result_len <= Len(decoders[j].tokens)
      /\ pc = "update" /\ pc' # "update" /\ UNCHANGED <<params, seek, result_all>>
      /\ decoders' = [j \in DOMAIN decoders |-> IF j \in Live THEN Updated(decoders[j]) ELSE decoders[j]]
      /\ \A j \in Live : Len(decoders[j].tokens) = i + 1
  BY DEF WhisperInv, DecodersInv, Update
<1>2. ASSUME NEW j \in DOMAIN decoders
      PROVE  InWindow(decoders'[j], Len(decoders'[j].tokens))
  <2>1. CASE j \in Live
    <3>1. /\ decoders[j] \in Decoder /\ ~Finished(decoders[j]) /\ decoders'[j] = Updated(decoders[j])
          /\ Len(decoders[j].tokens) = i + 1 /\ decoders[j].result_len <= Len(decoders[j].tokens)
      BY <2>1, <1>1 DEF Live
    <3>2. InWindow(decoders[j], i) /\ GoesOn(decoders[j])
      BY <2>1, <1>1 DEF WindowInv
    <3>3. Updated(decoders[j]).tokens = decoders[j].tokens
      BY <3>1, <1>1, UpdateDecoder
    <3>4. InWindow(Updated(decoders[j]), i + 1)
      BY <3>1, <3>2, <1>1, UpdateInWindow
    <3>5. QED
      BY <3>1, <3>3, <3>4
  <2>2. CASE j \notin Live
    BY <2>2, <1>1 DEF WindowInv
  <2>3. QED
    BY <2>1, <2>2
<1>3. QED
  BY <1>1, <1>2, DecodersMove

\* Sequences are cut after their last timestamp.
LEMMA RankInWindow ==
  ASSUME WhisperInv, WindowInv, Rank
  PROVE  WindowInv'
<1>1. /\ decoders \in [0 .. MaxDecoders - 1 -> Decoder]
      /\ \A j \in DOMAIN decoders : decoders[j].result_len <= Len(decoders[j].tokens)
      /\ pc = "rank" /\ pc' = "judge" /\ UNCHANGED <<params, seek, result_all>>
  BY DEF WhisperInv, DecodersInv, Rank
<1>2. PICK dull : decoders' = [j \in DOMAIN decoders |->
                                 IF j \in Running /\ ~decoders[j].failed
                                   THEN [Truncated(decoders[j]) EXCEPT !.failed = j \in dull]
                                   ELSE decoders[j]]
  BY DEF Rank
<1>3. ASSUME NEW j \in DOMAIN decoders
      PROVE  InWindow(decoders'[j], Len(decoders'[j].tokens))
  <2> DEFINE d == decoders[j]
             e == decoders'[j]
  <2>1. d \in Decoder /\ InWindow(d, Len(d.tokens)) /\ d.result_len <= Len(d.tokens)
    BY <1>1 DEF WindowInv
  <2>2. CASE ~(j \in Running /\ ~decoders[j].failed)
    BY <2>1, <2>2, <1>2
  <2>3. CASE ~d.failed /\ e = [Truncated(d) EXCEPT !.failed = j \in dull]
    <3> DEFINE cut == SubSeq(d.tokens, 1, d.result_len)
    <3>1. d.tokens \in Seq(Tokens) /\ d.result_len \in Nat /\ Len(d.tokens) \in Nat
      BY <2>1 DEF Decoder
    <3>2. Len(cut) = d.result_len /\ \A k \in 1 .. d.result_len : cut[k] = d.tokens[k]
      BY <2>1, <3>1
    <3> HIDE DEF cut, d, e
    <3>3. /\ e.tokens = cut /\ e.seek_delta = d.seek_delta /\ e.has_ts = d.has_ts
          /\ e.completed = d.completed
      BY <2>1, <2>3 DEF Truncated, cut, Decoder
    <3>4. (j \in dull) \in BOOLEAN
      OBVIOUS
    <3>5. e \in Decoder
      BY <2>1, <2>3, <3>4, TruncateDecoder
    <3>6. Finished(d) => Finished(e)
      BY <2>3, <3>3 DEF Finished
    <3>7. InWindow(e, d.result_len)
      BY <2>1, <3>1, <3>2, <3>3, <3>5, <3>6, Widened
    <3>8. QED
      BY <3>2, <3>3, <3>7 DEF d, e
  <2>4. QED
    BY <2>2, <2>3, <1>2
<1>4. DOMAIN decoders' = DOMAIN decoders
  BY <1>2
<1>5. QED
  BY <1>1, <1>3, <1>4, DecodersMove

\* One step of whisper_full_with_state, as far as the window goes: it moves or stays.
LEMMA WindowStep ==
  WhisperInv /\ WindowInv /\ [Next]_vars
    => WindowInv' /\ [Window!MoveWindow]_(Window!windowVars)
<1> SUFFICES ASSUME WhisperInv, WindowInv, [Next]_vars
             PROVE  WindowInv' /\ [Window!MoveWindow]_(Window!windowVars)
  OBVIOUS
<1>1. CASE \/ TooShort \/ PreparePrompt \/ Finish \/ EncodeChunk \/ EncodeFails
           \/ AttemptFails \/ DecodeTokens \/ DecodeFails \/ Accept \/ Retry
  <2>1. UNCHANGED <<decoders, seek, result_all, params>> /\ pc # "update" /\ pc' # "update"
    BY <1>1 DEF TooShort, PreparePrompt, Finish, EncodeChunk, EncodeFails, AttemptFails,
                DecodeTokens, DecodeFails, Accept, Retry, Return
  <2>2. QED
    BY <2>1, WindowStays DEF Window!windowVars
<1>2. CASE StartAttempt \/ Sample \/ SampleBeam \/ Update \/ Rank
  <2>1. WindowInv'
    BY <1>2, StartInWindow, SampleInWindow, UpdateStepInWindow, RankInWindow
  <2>2. UNCHANGED Window!windowVars
    BY <1>2 DEF StartAttempt, Sample, SampleBeam, Update, Rank, Window!windowVars
  <2>3. QED
    BY <2>1, <2>2
<1>3. CASE Output
  <2>1. /\ Window!MoveWindow /\ result_all' \in Seq(Int) /\ result_all' # <<>>
        /\ AtEnd' \/ Last(result_all') <= seek'
    BY <1>3, OutputMoves
  <2>2. pc = "output" /\ pc' = "chunk" /\ decoders' = decoders
    BY <1>3 DEF Output
  <2>3. QED
    BY <2>1, <2>2 DEF WindowInv
<1>4. CASE UNCHANGED vars
  <2>1. UNCHANGED <<pc, params, seek, it, i, decoders, result_all>>
    BY <1>4 DEF vars
  <2>2. Live' = Live
    BY <2>1 DEF Live, Running, NDecoders, Temperature
  <2>3. WindowInv'
    BY <2>1, <2>2 DEF WindowInv, AtEnd
  <2>4. QED
    BY <2>1, <2>3 DEF Window!windowVars
<1>5. QED
  BY <1>1, <1>2, <1>3, <1>4 DEF Next, Returned

\* Whatever the network computes and however the decoding of a chunk ends, the window moves
\* forward only, and the segments of the transcript are in order (the end of the main loop).
THEOREM WindowIsImplemented == Spec => ImplementsWindow
<1>1. Init => WindowInv /\ Window!WindowInit
  BY WindowInitially
<1>2. WhisperInv /\ WindowInv /\ [Next]_vars
        => WindowInv' /\ [Window!MoveWindow]_(Window!windowVars)
  BY WindowStep
<1>3. QED
  BY <1>1, <1>2, WhisperInvariant, PTL DEF Spec, ImplementsWindow, Window!WindowSpec
=============================================================================
