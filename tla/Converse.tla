------------------------------ MODULE Converse ------------------------------
(***************************************************************************)
(* One turn of ConversePipeline::respond_streaming (sapient-generate,      *)
(* converse.rs): the model streams its reply, the SentenceChunker cuts it, *)
(* a blocking worker synthesizes one sentence after the other, and the     *)
(* caller hears the audio as it comes.  Text and audio are sequences of    *)
(* words 1, 2, ...; where the chunker cuts is left open, and the chunker   *)
(* itself is modelled apart, over characters.                              *)
(***************************************************************************)
EXTENDS Naturals, Sequences, SequencesExt

CONSTANT WORDS      \* bound on the length of a reply

VARIABLES
    cvPc,           \* generate, drain, join, or the result: ok, err
    streamed,       \* words the model has streamed
    pending,        \* words in the chunker's buffer
    sentences,      \* the channel to the worker
    sentOpen,       \* respond_streaming still holds its sender
    worker,         \* waiting, speaking, done; or failed, panicked
    speaking,       \* words of the sentence being synthesized not yet emitted
    audio,          \* the channel back: emitted audio, "error" at most last
    heard,          \* words passed to on_audio
    messages        \* the messages of this turn

cvVars == <<cvPc, streamed, pending, sentences, sentOpen, worker, speaking, audio, heard, messages>>

ErrorMark == <<0>>

CvInit ==
    /\ cvPc = "generate"
    /\ streamed = <<>> /\ pending = <<>> /\ heard = <<>>
    /\ sentences = <<>> /\ sentOpen = TRUE
    /\ worker = "waiting" /\ speaking = <<>> /\ audio = <<>>
    /\ messages = <<"user">>

WorkerGone == worker \in {"done", "failed", "panicked"}

-----------------------------------------------------------------------------
(* The worker.                                                             *)

TakeSentence ==
    /\ worker = "waiting" /\ sentences # <<>>
    /\ speaking' = Head(sentences) /\ sentences' = Tail(sentences)
    /\ worker' = "speaking"
    /\ UNCHANGED <<cvPc, streamed, pending, sentOpen, audio, heard, messages>>

\* blocking_recv returns None: the sender is gone and the queue is empty.
NoMoreSentences ==
    /\ worker = "waiting" /\ sentences = <<>> /\ ~sentOpen
    /\ worker' = "done"
    /\ UNCHANGED <<cvPc, streamed, pending, sentences, sentOpen, speaking, audio, heard, messages>>

\* synthesize_streaming emits a piece; the receiver may be gone.
Emit ==
    /\ worker = "speaking" /\ speaking # <<>>
    /\ \E n \in 1 .. Len(speaking) :
          /\ audio' = IF cvPc \in {"ok", "err"} THEN audio ELSE Append(audio, SubSeq(speaking, 1, n))
          /\ speaking' = SubSeq(speaking, n + 1, Len(speaking))
    /\ UNCHANGED <<cvPc, streamed, pending, sentences, sentOpen, worker, heard, messages>>

SentenceSpoken ==
    /\ worker = "speaking" /\ speaking = <<>>
    /\ worker' = "waiting"
    /\ UNCHANGED <<cvPc, streamed, pending, sentences, sentOpen, speaking, audio, heard, messages>>

\* It returns an error, which ends the worker.
SynthesisFails ==
    /\ worker = "speaking"
    /\ worker' = "failed" /\ audio' = Append(audio, ErrorMark)
    /\ UNCHANGED <<cvPc, streamed, pending, sentences, sentOpen, speaking, heard, messages>>

SynthesisPanics ==
    /\ worker = "speaking"
    /\ worker' = "panicked"
    /\ UNCHANGED <<cvPc, streamed, pending, sentences, sentOpen, speaking, audio, heard, messages>>

WorkerStep == TakeSentence \/ NoMoreSentences \/ Emit \/ SentenceSpoken

-----------------------------------------------------------------------------
(* respond_streaming.                                                      *)

\* audio_rx.recv() returns audio, in the select! loop or while draining.
Play ==
    /\ cvPc \in {"generate", "drain"}
    /\ audio # <<>> /\ Head(audio) # ErrorMark
    /\ heard' = heard \o Head(audio) /\ audio' = Tail(audio)
    /\ UNCHANGED <<cvPc, streamed, pending, sentences, sentOpen, worker, speaking, messages>>

\* ... or the worker's error: return Err, dropping both channels.
Fail ==
    /\ cvPc \in {"generate", "drain"}
    /\ audio # <<>> /\ Head(audio) = ErrorMark
    /\ cvPc' = "err" /\ sentOpen' = FALSE
    /\ UNCHANGED <<streamed, pending, sentences, worker, speaking, audio, heard, messages>>

\* A word arrives: SentenceChunker::push may hand over what it has, up to any cut.
Token ==
    /\ cvPc = "generate" /\ Len(streamed) < WORDS
    /\ streamed' = Append(streamed, Len(streamed) + 1)
    /\ LET buf == Append(pending, Len(streamed) + 1)
       IN  \E cut \in 0 .. Len(buf) :
              /\ pending' = SubSeq(buf, cut + 1, Len(buf))
              /\ sentences' = IF cut = 0 THEN sentences ELSE Append(sentences, SubSeq(buf, 1, cut))
    /\ UNCHANGED <<cvPc, sentOpen, worker, speaking, audio, heard, messages>>

Flushed == IF pending = <<>> THEN sentences ELSE Append(sentences, pending)

\* Mutant: the sender is kept while the audio is drained.
StreamEnds_KeepsSender ==
    /\ cvPc = "generate"
    /\ sentences' = Flushed /\ pending' = <<>>
    /\ cvPc' = "drain"
    /\ UNCHANGED <<streamed, sentOpen, worker, speaking, audio, heard, messages>>

\* Mutant: the chunker is not flushed.
StreamEnds_NoFlush ==
    /\ cvPc = "generate"
    /\ sentOpen' = FALSE
    /\ cvPc' = "drain"
    /\ UNCHANGED <<streamed, pending, sentences, worker, speaking, audio, heard, messages>>

\* The stream ends: flush the chunker, close the channel, drain the audio.
StreamEnds ==
    /\ cvPc = "generate"
    /\ sentences' = Flushed /\ pending' = <<>>
    /\ sentOpen' = FALSE
    /\ cvPc' = "drain"
    /\ UNCHANGED <<streamed, worker, speaking, audio, heard, messages>>

\* audio_rx.recv() returns None: the worker has ended, in whatever way.
AudioDrained ==
    /\ cvPc = "drain" /\ audio = <<>> /\ WorkerGone
    /\ cvPc' = "join"
    /\ UNCHANGED <<streamed, pending, sentences, sentOpen, worker, speaking, audio, heard, messages>>

Join ==
    /\ cvPc = "join"
    /\ messages' = Append(messages, "assistant")
    /\ cvPc' = "ok"
    /\ UNCHANGED <<streamed, pending, sentences, sentOpen, worker, speaking, audio, heard>>

CvStep == Play \/ Fail \/ StreamEnds \/ AudioDrained \/ Join

CvNext == WorkerStep \/ SynthesisFails \/ SynthesisPanics \/ CvStep \/ Token

\* The worker runs on a thread of its own; select! picks a ready branch at random, so that
\* neither the stream nor the audio is put off for ever.
CvFairness == WF_cvVars(WorkerStep) /\ WF_cvVars(CvStep)

CvSpec == CvInit /\ [][CvNext]_cvVars /\ CvFairness

-----------------------------------------------------------------------------
(* SentenceChunker (sentence.rs).  A character is one of a word, "." or    *)
(* "," (with all that ends a sentence or a clause), " " or newline "n", or *)
(* "_", whitespace of two bytes like the no-break space.                   *)

Chars == {"w", ".", ",", " ", "n", "_"}
Whitespace == {" ", "n", "_"}
MINCHARS == 2
MAXCHARS == 3

Trimmed(text) ==
    LET ink == {i \in DOMAIN text : text[i] \notin Whitespace}
    IN  IF ink = {} THEN <<>> ELSE SubSeq(text, Min(ink), Max(ink))

ByteLen(text) == Len(text) + Cardinality({i \in DOMAIN text : text[i] = "_"})

\* Punctuation counts before ASCII whitespace and at the end, after n characters of content.
Ends(buf, i, n) ==
    /\ i = Len(buf) \/ buf[i + 1] \in {" ", "n"}
    /\ Len(Trimmed(SubSeq(buf, 1, i))) >= n

SentenceEnds(buf) ==
    {i \in DOMAIN buf : \/ buf[i] = "." /\ Ends(buf, i, MINCHARS)
                        \/ buf[i] = "n" /\ Len(Trimmed(SubSeq(buf, 1, i))) >= MINCHARS}

\* Until the first chunk is out, a clause will do.
ClauseEnds(c) == {i \in DOMAIN c.buf : c.early > 0 /\ c.out = <<>> /\ c.buf[i] = "," /\ Ends(c.buf, i, c.early)}

\* How many bytes may wait for a boundary.
Cap(c) == IF c.out = <<>> /\ c.early > 0 THEN Min({2 * c.early, MAXCHARS}) ELSE MAXCHARS

\* Where a chunk that is overdue is cut: after its last whitespace, or all of it.
ForcedCut(buf) ==
    LET spaces == {i \in DOMAIN buf : buf[i] \in Whitespace}
    IN  IF spaces = {} THEN Len(buf) ELSE Max(spaces)

\* try_take, as long as it finds a chunk.  The forced cut is one byte after the beginning
\* of the whitespace: inside it, if it has more, and slicing there panics.
TryTake(c, turn) ==
    LET ends == SentenceEnds(c.buf) \cup ClauseEnds(c)
        cut  == IF ends # {} THEN Min(ends) ELSE ForcedCut(c.buf)
        said == Trimmed(SubSeq(c.buf, 1, cut))
        rest == [c EXCEPT !.buf = SubSeq(c.buf, cut + 1, Len(c.buf))]
    IN  CASE c.took # "chunk" -> c
          [] c.took = "chunk" /\ ends = {} /\ ByteLen(c.buf) < Cap(c) -> [c EXCEPT !.took = "none"]
          [] c.took = "chunk" /\ ends = {} /\ ByteLen(c.buf) >= Cap(c) /\ c.buf[cut] = "_" -> [c EXCEPT !.took = "panic"]
          [] OTHER -> IF said = <<>> THEN [rest EXCEPT !.took = "blank"]
                      ELSE [rest EXCEPT !.out = Append(@, said)]

\* push: a piece of the reply arrives.
Push(c, piece) ==
    IF c.took = "panic" THEN c
    ELSE LET buf == c.buf \o piece
         IN  FoldLeft(TryTake, [c EXCEPT !.buf = buf, !.took = "chunk"], [i \in 1 .. Len(buf) + 1 |-> i])

\* The reply arrives in pieces that end at the positions in marks; then flush.
Chunker(text, marks, early) ==
    LET all    == SetToSortSeq(marks \cup {Len(text)}, <)
        pieces == [k \in DOMAIN all |-> SubSeq(text, (IF k = 1 THEN 0 ELSE all[k - 1]) + 1, all[k])]
    IN  FoldLeft(Push, [buf |-> <<>>, out |-> <<>>, early |-> early, took |-> "none"], pieces)

AllChunks(c) == IF Trimmed(c.buf) = <<>> THEN c.out ELSE Append(c.out, Trimmed(c.buf))

Ink(text) == SelectSeq(text, LAMBDA ch : ch \notin Whitespace)

\* However a reply is broken into pieces, its chunks are together its text and none is empty;
\* no more than the cap waits to be spoken (unless what was cut off last was blank); and the
\* chunker panics only on a reply with whitespace of several bytes.
ChunksAreTheText ==
    \A early \in {0, 1}, n \in 0 .. 4 : \A text \in [1 .. n -> Chars], marks \in SUBSET (1 .. n - 1) :
        LET c == Chunker(text, marks, early)
        IN  IF c.took = "panic" THEN \E i \in DOMAIN text : text[i] = "_"
            ELSE /\ Ink(FlattenSeq(AllChunks(c))) = Ink(text)
                 /\ \A i \in DOMAIN AllChunks(c) : AllChunks(c)[i] # <<>>
                 /\ c.took = "none" => ByteLen(c.buf) < Cap(c)

-----------------------------------------------------------------------------

\* What is heard is the reply, each word once and in order: while the worker lives, the words
\* heard, on their way back, being spoken, queued and buffered are together the reply so far;
\* and a turn that ends well with a worker that did leaves none unspoken.
WordsInOrder ==
    /\ worker \notin {"failed", "panicked"} =>
          heard \o FlattenSeq(audio) \o speaking \o FlattenSeq(sentences) \o pending = streamed
    /\ cvPc = "ok" /\ worker = "done" => heard = streamed

\* ... and what the chunker hands over is the text, whatever pieces it comes in.
SpeaksTheReply == ChunksAreTheText /\ WordsInOrder

\* The turn ends, whether the synthesizer works, fails or panics.
TurnEnds == (cvPc = "generate") ~> (cvPc \in {"ok", "err"})
=============================================================================
