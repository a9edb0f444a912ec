---------------------------- MODULE Speculative ----------------------------
(***************************************************************************)
(* One request of speculative decoding (sapient-generate, speculative.rs): *)
(* a draft model proposes up to K tokens, the target model verifies them   *)
(* in one pass, and both KV caches are rolled back to the tokens that were *)
(* committed before the next round begins.                                 *)
(*                                                                         *)
(* What a model predicts depends only on the tokens in its KV cache, so    *)
(* the model keeps, in place of a vector of logits, the context it was     *)
(* computed from: targetNext = <<a, b>> are the target's logits after      *)
(* tokens a and b.  Which token is sampled and which draft is accepted     *)
(* is left open.                                                           *)
(*                                                                         *)
(* A token other than Eos decodes to one piece of text, itself; Eos to     *)
(* nothing.                                                                *)
(***************************************************************************)
EXTENDS Integers, SequencesExt

CONSTANTS
    Tokens,        \* the vocabulary, Eos included
    Eos,           \* an end-of-sequence token
    Stops,         \* the stop sequences
    MaxPrompt,     \* longest prompt
    MaxNew,        \* max_new_tokens
    K              \* the speculation depth

ASSUME SizeAssumption == MaxPrompt \in Nat \ {0} /\ MaxNew \in Nat \ {0} /\ K \in Nat \ {0}
ASSUME TokenAssumption == Eos \in Tokens /\ Stops \subseteq Seq(Tokens \ {Eos}) \ {<<>>}

VARIABLES
    targetKV, draftKV,       \* the tokens in each engine's KV cache
    all,                     \* SpecState.all_tokens
    targetNext, draftNext,   \* the contexts of SpecState's logits
    streaming,               \* generate_stream_with_config, or speculative_generate
    pc,
    drafts,                  \* drafts of this round
    draftCtx,                \* the context each draft was sampled in
    dcur,                    \* the context of the draft's current logits
    verified,                \* t_all: the contexts of the target's logits
    accepted,                \* tokens accepted in this round
    judgedIn,                \* the target context each of them was judged in
    rejected, hitEos,
    next,                    \* accepted tokens already replayed into the draft
    committed,               \* tokens of the round still to be emitted
    generated,               \* tokens generated so far
    emitted,                 \* how much of their text was sent
    sent,                    \* what the client received
    outcome                  \* "error": an engine failed; "left": the client did

caches == <<targetKV, draftKV>>
state == <<all, targetNext, draftNext>>
round == <<drafts, draftCtx, dcur, verified, accepted, judgedIn, rejected, hitEos, next>>
output == <<committed, generated, emitted, sent, outcome>>
vars == <<caches, state, streaming, pc, round, output>>

Init ==
    /\ targetKV = <<>> /\ draftKV = <<>>       \* reset_cache on both
    /\ all \in UNION {[1 .. n -> Tokens \ {Eos}] : n \in 1 .. MaxPrompt}
    /\ streaming \in BOOLEAN
    /\ targetNext = <<>> /\ draftNext = <<>>
    /\ pc = "prefill"
    /\ drafts = <<>> /\ draftCtx = <<>> /\ dcur = <<>> /\ verified = <<>>
    /\ accepted = <<>> /\ judgedIn = <<>> /\ rejected = FALSE /\ hitEos = FALSE /\ next = 0
    /\ committed = <<>> /\ generated = <<>> /\ emitted = 0 /\ sent = <<>> /\ outcome = "none"

-----------------------------------------------------------------------------
Lower(a, b) == IF a <= b THEN a ELSE b
Higher(a, b) == IF a <= b THEN b ELSE a

Truncate(kv, n) == SubSeq(kv, 1, Lower(n, Len(kv)))

\* SpecState.committed_len
CommittedLen == Len(all)

\* decode(tokens, skip_special = true)
Decode(toks) == FlattenSeq([i \in DOMAIN toks |-> IF toks[i] = Eos THEN <<>> ELSE <<toks[i]>>])

\* Where each occurrence of one of stops begins in text, as a length.
Occurrences(stops, text) ==
    {i \in 0 .. Len(text) :
        \E s \in stops : i + Len(s) <= Len(text) /\ SubSeq(text, i + 1, i + Len(s)) = s}

StopsAt(text) == Occurrences(Stops, text)

\* earliest_stop
EarliestStop(text) == CHOOSE i \in StopsAt(text) : \A j \in StopsAt(text) : i <= j

\* Mutant: a partial stop sequence at the end of the text is not held back.
SafeEmitEnd_NoHold(text) == Len(text)

\* safe_emit_end: hold back the longest end of text that begins a stop sequence,
\* but never all of text: k stops short of both lengths.
SafeEmitEnd(text) ==
    LET held == {n \in 1 .. Len(text) - 1 :
                    \E s \in Stops : n < Len(s) /\ SubSeq(text, Len(text) - n + 1, Len(text)) = SubSeq(s, 1, n)}
    IN  IF held = {} THEN Len(text) ELSE Len(text) - CHOOSE n \in held : \A m \in held : m <= n

\* What is left to send of text.
Rest(text, to) == SubSeq(text, emitted + 1, to)

-----------------------------------------------------------------------------
(* spec_prefill and spec_round                                             *)

\* An engine fails: the stream sends an error and flushes, generate returns it.
EngineFails ==
    /\ pc \in {"prefill", "draft", "verify", "commit", "replay"}
    /\ outcome' = "error"
    /\ pc' = IF streaming /\ pc # "prefill" THEN "flush" ELSE "done"
    /\ UNCHANGED <<caches, state, streaming, round, committed, generated, emitted, sent>>

Prefill ==
    /\ pc = "prefill"
    /\ targetKV' = all /\ draftKV' = all
    /\ targetNext' = all /\ draftNext' = all
    /\ pc' = "round"
    /\ UNCHANGED <<all, streaming, round, output>>

\* A round begins, unless max_new_tokens were generated.
BeginRound ==
    /\ pc = "round"
    /\ pc' = IF Len(generated) >= MaxNew THEN "flush" ELSE "draft"
    /\ drafts' = <<>> /\ draftCtx' = <<>> /\ dcur' = draftNext /\ verified' = <<>>
    /\ accepted' = <<>> /\ judgedIn' = <<>> /\ rejected' = FALSE /\ hitEos' = FALSE
    /\ next' = 0
    /\ UNCHANGED <<caches, state, streaming, output>>

\* Sample a draft; the draft model runs over it, unless it ends the sequence.
Draft ==
    /\ pc = "draft"
    /\ \E d \in Tokens :
        /\ drafts' = Append(drafts, d)
        /\ draftCtx' = Append(draftCtx, dcur)
        /\ IF d = Eos
           THEN pc' = "verify" /\ UNCHANGED <<draftKV, dcur>>
           ELSE /\ draftKV' = Append(draftKV, d)
                /\ dcur' = Append(draftKV, d)
                /\ pc' = IF Len(drafts) + 1 = K THEN "verify" ELSE "draft"
    /\ UNCHANGED <<targetKV, state, streaming, verified, accepted, judgedIn, rejected, hitEos, next,
                   output>>

\* forward_all_logits_cached: one target pass over all drafts.
Verify ==
    /\ pc = "verify"
    /\ targetKV' = targetKV \o drafts
    /\ verified' = [i \in 1 .. Len(drafts) |-> targetKV \o SubSeq(drafts, 1, i)]
    /\ pc' = "judge"
    /\ UNCHANGED <<draftKV, state, streaming, drafts, draftCtx, dcur, accepted, judgedIn, rejected,
                   hitEos, next, output>>

\* Mutant: draft i is judged by the target's prediction after draft i.
JudgeCtx_OffByOne(i) == verified[i]

\* The target's logits for draft i.
JudgeCtx(i) == IF i = 1 THEN targetNext ELSE verified[i - 1]

\* The next draft is accepted; an Eos ends the round.
Accept ==
    /\ pc = "judge" /\ Len(accepted) < Len(drafts)
    /\ LET i == Len(accepted) + 1 IN
        /\ accepted' = Append(accepted, drafts[i])
        /\ judgedIn' = Append(judgedIn, JudgeCtx(i))
        /\ hitEos' = (drafts[i] = Eos)
        /\ rejected' = (drafts[i] = Eos)
        /\ pc' = IF drafts[i] = Eos THEN "extend" ELSE "judge"
    /\ UNCHANGED <<caches, state, streaming, drafts, draftCtx, dcur, verified, next, output>>

\* The next draft is rejected and replaced by one sampled from the adjusted
\* distribution.
Reject ==
    /\ pc = "judge" /\ Len(accepted) < Len(drafts)
    /\ LET i == Len(accepted) + 1 IN
        \E t \in Tokens :
            /\ accepted' = Append(accepted, t)
            /\ judgedIn' = Append(judgedIn, JudgeCtx(i))
            /\ hitEos' = (t = Eos)
            /\ rejected' = TRUE
            /\ pc' = IF t = Eos THEN "extend" ELSE "commit"
    /\ UNCHANGED <<caches, state, streaming, drafts, draftCtx, dcur, verified, next, output>>

\* All drafts were accepted: one more token from the last logits.
Bonus ==
    /\ pc = "judge" /\ Len(accepted) = Len(drafts)
    /\ \E t \in Tokens :
        /\ accepted' = Append(accepted, t)
        /\ judgedIn' = Append(judgedIn, verified[Len(drafts)])
        /\ hitEos' = (t = Eos)
        /\ pc' = IF t = Eos THEN "extend" ELSE "commit"
    /\ UNCHANGED <<caches, state, streaming, drafts, draftCtx, dcur, verified, rejected, next, output>>

\* Mutant: the drafts past the rejected one stay in the target's cache.
CommitTarget_NoRollback ==
    /\ pc = "commit"
    /\ targetKV' = Append(targetKV, accepted[Len(accepted)])
    /\ targetNext' = targetKV'
    /\ draftKV' = Truncate(draftKV, CommittedLen)
    /\ dcur' = draftNext
    /\ pc' = "replay"
    /\ UNCHANGED <<all, draftNext, streaming, drafts, draftCtx, verified, accepted, judgedIn, rejected,
                   hitEos, next, output>>

\* Drop what the target holds past the accepted drafts, append the last token;
\* roll the draft back to the beginning of the round.
CommitTarget ==
    /\ pc = "commit"
    /\ LET n == Len(accepted)
           kept == IF rejected THEN Truncate(targetKV, CommittedLen + (n - 1)) ELSE targetKV
       IN  targetKV' = Append(kept, accepted[n]) /\ targetNext' = Append(kept, accepted[n])
    /\ draftKV' = Truncate(draftKV, CommittedLen)
    /\ dcur' = draftNext
    /\ pc' = "replay"
    /\ UNCHANGED <<all, draftNext, streaming, drafts, draftCtx, verified, accepted, judgedIn, rejected,
                   hitEos, next, output>>

\* The draft model runs over the accepted tokens, one by one.
Replay ==
    /\ pc = "replay"
    /\ draftKV' = Append(draftKV, accepted[next + 1])
    /\ dcur' = Append(draftKV, accepted[next + 1])
    /\ next' = next + 1
    /\ IF next + 1 = Len(accepted)
       THEN draftNext' = Append(draftKV, accepted[next + 1]) /\ pc' = "extend"
       ELSE UNCHANGED <<draftNext, pc>>
    /\ UNCHANGED <<targetKV, all, targetNext, streaming, drafts, draftCtx, verified, accepted, judgedIn,
                   rejected, hitEos, output>>

\* The round returns its tokens.
Extend ==
    /\ pc = "extend"
    /\ all' = all \o accepted
    /\ committed' = accepted
    /\ pc' = "emit"
    /\ UNCHANGED <<caches, targetNext, draftNext, streaming, round, generated, emitted, sent, outcome>>

-----------------------------------------------------------------------------
(* What the caller makes of a round                                        *)

Full(toks) == Len(toks) >= MaxNew

\* The next token of the round is counted.
NextToken ==
    /\ pc = "emit" /\ committed # <<>>
    /\ generated' = Append(generated, Head(committed))
    /\ committed' = Tail(committed)
    /\ UNCHANGED <<caches, state, streaming, round>>

\* speculative_generate: collect, until Eos or max_new_tokens.
Collect ==
    /\ ~streaming /\ NextToken
    /\ pc' = IF Head(committed) = Eos \/ Full(generated') THEN "done" ELSE "emit"
    /\ UNCHANGED <<emitted, sent, outcome>>

\* Stream: Eos flushes the text held back.  `emitted` is not advanced.
StreamEos ==
    /\ streaming /\ NextToken /\ Head(committed) = Eos
    /\ sent' = sent \o Rest(Decode(generated'), Len(Decode(generated')))
    /\ pc' = "flush"
    /\ UNCHANGED <<emitted, outcome>>

\* Stream: a stop sequence ends the text before it.  `emitted` is not advanced.
StreamStop ==
    /\ streaming /\ NextToken /\ Head(committed) # Eos
    /\ LET text == Decode(generated') IN
        StopsAt(text) # {} /\ sent' = sent \o Rest(text, EarliestStop(text))
    /\ pc' = "flush"
    /\ UNCHANGED <<emitted, outcome>>

\* Stream: send the text up to what may be the beginning of a stop sequence.
StreamText ==
    /\ streaming /\ NextToken /\ Head(committed) # Eos
    /\ LET text == Decode(generated') IN
        StopsAt(text) = {} /\ sent' = sent \o Rest(text, SafeEmitEnd(text))
                           /\ emitted' = Higher(emitted, SafeEmitEnd(text))
    /\ pc' = IF Full(generated') THEN "flush" ELSE "emit"
    /\ UNCHANGED outcome

\* Stream: the client is gone, sending fails; so does the last flush.
StreamLeft ==
    /\ streaming /\ NextToken /\ Head(committed) # Eos
    /\ StopsAt(Decode(generated')) = {} /\ SafeEmitEnd(Decode(generated')) > emitted
    /\ pc' = "done" /\ outcome' = "left"
    /\ UNCHANGED <<emitted, sent>>

\* All tokens of the round are out.
RoundDone ==
    /\ pc = "emit" /\ committed = <<>>
    /\ pc' = IF hitEos THEN "flush" ELSE "round"
    /\ UNCHANGED <<caches, state, streaming, round, output>>

\* After the loop a stream sends the text it has not emitted.
Flush ==
    /\ pc = "flush"
    /\ sent' = IF streaming THEN sent \o Rest(Decode(generated), Len(Decode(generated))) ELSE sent
    /\ pc' = "done"
    /\ UNCHANGED <<caches, state, streaming, round, committed, generated, emitted, outcome>>

Done == pc = "done" /\ UNCHANGED vars

Next ==
    \/ Prefill \/ BeginRound \/ Draft \/ Verify \/ Accept \/ Reject \/ Bonus \/ CommitTarget
    \/ Replay \/ Extend \/ Collect \/ StreamEos \/ StreamStop \/ StreamText \/ StreamLeft
    \/ RoundDone \/ Flush \/ EngineFails \/ Done

Spec == Init /\ [][Next]_vars

-----------------------------------------------------------------------------
(* Plain decoding: GenerationPipeline's stream and call, for the tokens    *)
(* that are sampled until max_new_tokens (or an engine error, whose        *)
(* message is left out) ends them.  Here text is bytes, and one character  *)
(* is spelled by two tokens: "head" and "tail" decode to its w bytes, one  *)
(* without the other to U+FFFD.                                            *)

Character(w) == SubSeq(<<"c1", "c2", "c3", "c4">>, 1, w)
Replacement == <<"r1", "r2", "r3">>

Joined(toks, i) == i \in DOMAIN toks /\ i + 1 \in DOMAIN toks /\ toks[i] = "head" /\ toks[i + 1] = "tail"

\* What token i adds to the text; decode gives the text of them all.
Piece(toks, i, w) ==
    CASE Joined(toks, i) -> Character(w)
      [] Joined(toks, i - 1) \/ toks[i] = Eos -> <<>>
      [] ~Joined(toks, i) /\ toks[i] = "head" -> Replacement
      [] ~Joined(toks, i - 1) /\ toks[i] = "tail" -> Replacement
      [] OTHER -> <<toks[i]>>
DecodeBytes(toks, w) == FlattenSeq([i \in DOMAIN toks |-> Piece(toks, i, w)])

\* text[i..] slices at the beginning of a character, or panics.
IsCharBoundary(text, i) == i = Len(text) \/ text[i + 1] \notin {"c2", "c3", "c4", "r2", "r3"}

\* Send text[emitted..end] with blocking_send, to a client that takes so many
\* more pieces and then leaves.
SendText(s, text, end) ==
    CASE end <= s.emitted -> s
      [] end > s.emitted /\ ~IsCharBoundary(text, s.emitted) -> [s EXCEPT !.how = "panic"]
      [] end > s.emitted /\ IsCharBoundary(text, s.emitted) /\ s.takes = 0 -> [s EXCEPT !.how = "left"]
      [] OTHER -> [s EXCEPT !.sent = @ \o SubSeq(text, s.emitted + 1, end), !.takes = @ - 1]

\* One turn of the loop.  Eos ends it without sending what is held back.
StreamToken(s, t) ==
    LET gen  == Append(s.generated, t)
        text == DecodeBytes(gen, s.w)
        stop == StopsAt(text) # {}
        end  == IF stop THEN EarliestStop(text) ELSE SafeEmitEnd(text)
        out  == SendText([s EXCEPT !.generated = gen], text, end)
    IN  CASE s.how # "running" -> s
          [] s.how = "running" /\ t = Eos -> [s EXCEPT !.generated = gen, !.how = "stop"]
          [] s.how = "running" /\ t # Eos /\ stop -> [out EXCEPT !.how = IF @ = "panic" THEN @ ELSE "stop"]
          [] OTHER -> [out EXCEPT !.emitted = Higher(@, end)]

\* generate_stream_with_config, to a client that takes so many pieces: what the
\* loop leaves unsent is flushed, unless the reply came to a clean stop.
StreamReply(toks, w, takes) ==
    LET s    == FoldLeft(StreamToken,
                         [generated |-> <<>>, emitted |-> 0, sent |-> <<>>, takes |-> takes,
                          how |-> "running", w |-> w], toks)
        text == DecodeBytes(s.generated, w)
    IN  IF s.how = "running" THEN SendText(s, text, Len(text)) ELSE s

\* generate_from_tokens_with_config: up to Eos, or to the first token but one
\* with which a stop sequence of the request is complete.
GenerateFromTokens(toks, w, stops) ==
    LET ends == {n \in DOMAIN toks :
                    \/ toks[n] = Eos
                    \/ n > 1 /\ Occurrences(stops, DecodeBytes(SubSeq(toks, 1, n), w)) # {}}
    IN  IF ends = {} THEN toks ELSE SubSeq(toks, 1, CHOOSE n \in ends : \A m \in ends : n <= m)

\* generate_with_config: the text, cut at the first of the pipeline's own stop
\* sequences, here all of them.
CallReply(toks, w, stops) ==
    LET text == DecodeBytes(GenerateFromTokens(toks, w, stops), w)
    IN  IF StopsAt(text) = {} THEN text ELSE SubSeq(text, 1, EarliestStop(text))

-----------------------------------------------------------------------------
(* Properties                                                              *)

\* "The invariant after each round: both the target and draft KV caches hold
\* exactly the committed tokens, and *_next are each model's logits predicting
\* the next position": so whatever was drafted, accepted and rolled back.
CachesMatch == pc = "round" => {targetKV, draftKV, targetNext, draftNext} = {all}

\* Every token that is accepted, corrected or added was judged by the target
\* with exactly the tokens before it as context, as in plain decoding.
JudgedInContext ==
    pc \in {"judge", "commit", "replay", "extend"} =>
        \A i \in DOMAIN accepted : judgedIn[i] = all \o SubSeq(accepted, 1, i - 1)

\* And every draft was sampled by the draft model in that context: the two
\* distributions that accept / reject compares are for the same position.
InOwnContext ==
    /\ JudgedInContext
    /\ pc \in {"draft", "verify", "judge"} =>
        \A i \in DOMAIN drafts : draftCtx[i] = all \o SubSeq(drafts, 1, i - 1)

\* A round commits a burst, the reply still ends at max_new_tokens and at Eos.
EndsInTime ==
    /\ Len(generated) <= MaxNew
    /\ \A i \in DOMAIN generated : generated[i] = Eos => i = Len(generated)

\* What was streamed never reaches into a stop sequence: whenever one is found,
\* all of it is still unsent.  Except at the very beginning of a reply, where
\* safe_emit_end holds nothing back and all but its last piece has been sent.
StopUnsent ==
    LET text == Decode(generated) IN
    StopsAt(text) # {} /\ EarliestStop(text) > 0 => emitted <= EarliestStop(text)

\* A stream cut by max_new_tokens or an error has sent all its text, once.
CutIsComplete ==
    LET text == Decode(generated) IN
    pc = "done" /\ streaming /\ outcome # "left" /\ text = generated /\ StopsAt(text) = {}
        => sent = text

\* A call returns the same text whichever of the pipeline's stop sequences the
\* request names, and a stream sends that text, with two exceptions: it drops
\* what is held back when Eos comes, and it has sent the beginning of a stop
\* sequence that opens the reply.  A client that leaves has the beginning of it,
\* and after an engine error it has all there is.
PlainIsOneReply ==
    \A toks \in [1 .. MaxNew -> Tokens] :
        LET s     == StreamReply(toks, 4, MaxNew)
            text  == DecodeBytes(s.generated, 4)
            reply == CallReply(toks, 4, Stops)
        IN  /\ \A stops \in SUBSET Stops : CallReply(toks, 4, stops) = reply
            /\ CASE 0 \in StopsAt(text) -> reply = <<>> /\ IsStrictPrefix(s.sent, text)
                 [] 0 \notin StopsAt(text) /\ Last(s.generated) = Eos ->
                        reply = text /\ s.sent = SubSeq(text, 1, SafeEmitEnd(text))
                 [] OTHER -> s.sent = reply
            /\ \A n \in 0 .. MaxNew : IsPrefix(StreamReply(toks, 4, n).sent, s.sent)
            /\ \A n \in 1 .. MaxNew :
                   LET cut == StreamReply(SubSeq(toks, 1, n), 4, MaxNew)
                   IN  cut.how = "running" => cut.sent = SubSeq(toks, 1, n)

\* The text is decoded again after every token, but it does not only grow: the
\* character that replaces U+FFFD is never sent if it has three bytes as well,
\* and the stream panics (and poisons the engine) if it has four.
SplitCharactersBreakStreams ==
    \A toks \in [1 .. 4 -> Tokens \cup {"head", "tail"}], w \in 3 .. 4 :
        LET s     == StreamReply(toks, w, 4)
            split == \E i \in DOMAIN s.generated : Joined(s.generated, i)
        IN  /\ s.how = "panic" <=> split /\ w = 4
            /\ {s.sent[i] : i \in DOMAIN s.sent} \cap {"c1", "c2", "c3", "c4"} = {}

\* All of it, over every way a burst, a stop sequence, Eos and the limit can meet.
ReplyWellCut == EndsInTime /\ StopUnsent /\ CutIsComplete /\ PlainIsOneReply /\ SplitCharactersBreakStreams

\* "Emit decoded text up to a safe (stop-marker-free) boundary": what the
\* client receives is the text of the reply up to its first stop sequence.
SentIsReply ==
    LET text == Decode(generated)
        end  == IF StopsAt(text) = {} THEN Len(text) ELSE EarliestStop(text)
    IN  pc = "done" /\ streaming /\ outcome = "none" => sent = SubSeq(text, 1, end)
=============================================================================
