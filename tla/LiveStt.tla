------------------------------ MODULE LiveStt ------------------------------
(***************************************************************************)
(* Incremental speech-to-text while the speaker is talking: the microphone *)
(* loop of `sapient converse` (sapient-cli, main.rs), the voice activity   *)
(* detector it segments utterances with (sapient-audio, vad.rs) and the    *)
(* background transcriber it feeds (LiveStt in sapient-generate,           *)
(* converse.rs).                                                           *)
(*                                                                         *)
(* Audio is counted in frames.  Whether a frame is speech, whether an      *)
(* utterance is loud enough to keep and whether a pass hears any words is  *)
(* left open.  A snapshot is the beginning of an utterance: its number and *)
(* its length; a transcript is known by the snapshot it was made from.     *)
(***************************************************************************)
EXTENDS Integers, Sequences

CONSTANTS
    Utterances,      \* a bound: utterances that are spoken
    EnterFrames,     \* enter_frames
    HangFrames,      \* silence_hang_frames
    MinFrames,       \* min_utterance_frames
    MaxFrames,       \* max_utterance_frames
    FeedEvery,       \* frames of speech between two snapshots
    Tolerance,       \* frames a transcript may lack and still be used
    MayBeQuiet,      \* may an utterance be discarded for its mean energy?
    MayTimeOut       \* may a pass take longer than settle waits?

ASSUME FrameAssumption ==
    /\ {Utterances, EnterFrames, HangFrames, MinFrames, MaxFrames, FeedEvery} \subseteq Nat \ {0}
    /\ Tolerance \in Nat
ASSUME FlagAssumption == {MayBeQuiet, MayTimeOut} \subseteq BOOLEAN

VARIABLES
    \* the detector
    inSpeech, runSpeech, runSilence,
    frames,          \* frames of the utterance
    \* the microphone loop
    pc,
    utt,             \* the number of the utterance
    sinceFeed,       \* frames_since_feed
    lastFed,         \* history: the longest snapshot of this utterance, 0 if none
    used,            \* history: the transcript each utterance was answered by
    punctual,        \* history: no settle timed out and nothing was discarded
    \* LiveStt
    channel,         \* snapshots on their way to the worker
    transcript,      \* transcript, by the snapshot it is of
    covered,         \* covered_samples
    fed, done,       \* fed_seq, done_seq
    \* the worker
    worker, snapshot, skipped

vad == <<inSpeech, runSpeech, runSilence, frames>>
mic == <<pc, utt, sinceFeed, lastFed, used, punctual>>
result == <<transcript, covered>>
work == <<worker, snapshot, skipped>>
vars == <<vad, mic, channel, result, fed, done, work>>

\* No words: before the first pass, or because a pass heard none.
Empty == [utt |-> 0, len |-> 0]

Init ==
    /\ inSpeech = FALSE /\ runSpeech = 0 /\ runSilence = 0 /\ frames = 0
    /\ pc = "listen" /\ utt = 1 /\ sinceFeed = 0 /\ lastFed = 0 /\ used = <<>> /\ punctual = TRUE
    /\ channel = <<>> /\ transcript = Empty /\ covered = 0 /\ fed = 0 /\ done = 0
    /\ worker = "recv" /\ snapshot = Empty /\ skipped = 0

-----------------------------------------------------------------------------
(* The detector and the loop                                               *)

\* A frame of an utterance of n frames was heard: every FeedEvery frames, the
\* loop feeds the utterance so far.  feed counts it and then sends it.
Listened(n) ==
    IF sinceFeed + 1 >= FeedEvery
    THEN sinceFeed' = 0 /\ lastFed' = n /\ fed' = fed + 1 /\ pc' = "send"
    ELSE sinceFeed' = sinceFeed + 1 /\ UNCHANGED <<lastFed, fed, pc>>

\* EnergyVad::push outside an utterance.  A frame enters one after the
\* debounce, with the frames held back as its beginning.
Outside ==
    /\ pc = "listen" /\ ~inSpeech /\ utt <= Utterances
    /\ \/ /\ runSpeech' = 0                                     \* not speech
          /\ UNCHANGED <<inSpeech, runSilence, frames, sinceFeed, lastFed, fed, pc>>
       \/ /\ runSpeech' = runSpeech + 1
          /\ IF runSpeech + 1 >= EnterFrames
             THEN /\ inSpeech' = TRUE /\ frames' = runSpeech + 1 /\ runSilence' = 0
                  /\ Listened(runSpeech + 1)
             ELSE UNCHANGED <<inSpeech, runSilence, frames, sinceFeed, lastFed, fed, pc>>
    /\ UNCHANGED <<utt, used, punctual, channel, result, done, work>>

\* The frame ends the utterance: too much silence, or it is too long.
Ends(silence) == silence >= HangFrames \/ frames + 1 >= MaxFrames

\* EnergyVad::push inside an utterance that goes on.
Inside ==
    /\ pc = "listen" /\ inSpeech
    /\ runSilence' \in {0, runSilence + 1} /\ ~Ends(runSilence')
    /\ frames' = frames + 1
    /\ Listened(frames + 1)
    /\ UNCHANGED <<inSpeech, runSpeech, utt, used, punctual, channel, result, done, work>>

LeaveSpeech ==
    /\ pc = "listen" /\ inSpeech
    /\ \E silence \in {0, runSilence + 1} : Ends(silence)
    /\ inSpeech' = FALSE /\ runSpeech' = 0 /\ runSilence' = 0

\* finalize drops an utterance that is short or quiet, and the loop does not
\* learn of it: what was fed of it stays.
Discard ==
    /\ LeaveSpeech
    /\ frames + 1 < MinFrames \/ MayBeQuiet
    /\ utt' = utt + 1 /\ frames' = 0 /\ lastFed' = 0
    /\ punctual' = (punctual /\ lastFed = 0)
    /\ UNCHANGED <<pc, sinceFeed, used, channel, result, fed, done, work>>

\* finalize returns the utterance.
Finalize ==
    /\ LeaveSpeech
    /\ frames + 1 >= MinFrames
    /\ frames' = frames + 1
    /\ sinceFeed' = 0
    /\ pc' = "settle"
    /\ UNCHANGED <<utt, lastFed, used, punctual, channel, result, fed, done, work>>

\* Mutant: the snapshot is dropped when the worker is busy.
Send_WhenIdle ==
    /\ pc = "send"
    /\ channel' = IF worker = "recv" THEN Append(channel, [utt |-> utt, len |-> lastFed]) ELSE channel
    /\ pc' = "listen"
    /\ UNCHANGED <<vad, utt, sinceFeed, lastFed, used, punctual, result, fed, done, work>>

\* feed hands the snapshot to the channel, or to nobody.
Send ==
    /\ pc = "send"
    /\ channel' = IF worker = "dead" THEN channel ELSE Append(channel, [utt |-> utt, len |-> lastFed])
    /\ pc' = "listen"
    /\ UNCHANGED <<vad, utt, sinceFeed, lastFed, used, punctual, result, fed, done, work>>

\* The transcript that settle returned is used if it has words and covers the
\* utterance but for its end; else the whole utterance is transcribed.
Use ==
    /\ \/ /\ transcript # Empty /\ frames - covered <= Tolerance
          /\ used' = [utt |-> utt, by |-> transcript]
       \/ /\ ~(transcript # Empty /\ frames - covered <= Tolerance)
          /\ \E by \in {Empty, [utt |-> utt, len |-> frames]} : used' = [utt |-> utt, by |-> by]
    /\ pc' = "reset"
    /\ UNCHANGED <<vad, utt, sinceFeed, lastFed, channel, result, fed, done, work>>

\* settle returns once everything that was fed is transcribed ...
Settle ==
    /\ pc = "settle" /\ done >= fed
    /\ Use /\ UNCHANGED punctual

\* ... or when it has waited long enough.
SettleTimesOut ==
    /\ MayTimeOut /\ pc = "settle" /\ done < fed
    /\ Use /\ punctual' = FALSE

\* LiveStt::reset, and on to the next utterance.
Reset ==
    /\ pc = "reset"
    /\ transcript' = Empty /\ covered' = 0
    /\ utt' = utt + 1 /\ frames' = 0 /\ lastFed' = 0 /\ pc' = "listen"
    /\ UNCHANGED <<inSpeech, runSpeech, runSilence, sinceFeed, used, punctual, channel, fed, done, work>>

-----------------------------------------------------------------------------
(* The worker                                                              *)

Receive ==
    /\ worker = "recv" /\ channel # <<>>
    /\ snapshot' = Head(channel) /\ channel' = Tail(channel) /\ skipped' = 0
    /\ worker' = "drain"
    /\ UNCHANGED <<vad, mic, result, fed, done>>

\* Mutant: the worker drains the channel but keeps the snapshot it had.
Drain_KeepsOldest ==
    /\ worker = "drain" /\ channel # <<>>
    /\ channel' = Tail(channel) /\ skipped' = skipped + 1
    /\ UNCHANGED <<vad, mic, result, fed, done, worker, snapshot>>

\* try_recv: a newer snapshot replaces the one in hand.
Drain ==
    /\ worker = "drain" /\ channel # <<>>
    /\ snapshot' = Head(channel) /\ channel' = Tail(channel) /\ skipped' = skipped + 1
    /\ UNCHANGED <<vad, mic, result, fed, done, worker>>

Drained ==
    /\ worker = "drain" /\ channel = <<>>
    /\ worker' = "pass"
    /\ UNCHANGED <<vad, mic, channel, result, fed, done, snapshot, skipped>>

\* Mutant: the snapshots that were skipped are not counted as done.
Publish_CountsOne ==
    /\ worker = "pass"
    /\ IF snapshot.len >= covered
       THEN covered' = snapshot.len /\ transcript' \in {snapshot, Empty}
       ELSE UNCHANGED result
    /\ done' = done + 1
    /\ worker' = "recv" /\ snapshot' = Empty /\ skipped' = 0
    /\ UNCHANGED <<vad, mic, channel, fed>>

\* The pass is over: its transcript lands unless a longer one has.
Publish ==
    /\ worker = "pass"
    /\ IF snapshot.len >= covered
       THEN covered' = snapshot.len /\ transcript' \in {snapshot, Empty}
       ELSE UNCHANGED result
    /\ done' = done + 1 + skipped
    /\ worker' = "recv" /\ snapshot' = Empty /\ skipped' = 0
    /\ UNCHANGED <<vad, mic, channel, fed>>

\* The transcriber panics: nobody receives any more.
Panic ==
    /\ MayTimeOut /\ worker = "pass"
    /\ worker' = "dead" /\ channel' = <<>> /\ snapshot' = Empty /\ skipped' = 0
    /\ UNCHANGED <<vad, mic, result, fed, done>>

\* The microphone was closed.
Closed == utt > Utterances /\ UNCHANGED vars

Mic == Outside \/ Inside \/ Discard \/ Finalize \/ Send \/ Settle \/ SettleTimesOut \/ Reset
Worker == Receive \/ Drain \/ Drained \/ Publish \/ Panic
Next == Mic \/ Worker \/ Closed

Spec == Init /\ [][Next]_vars

\* The worker is a thread of its own; settle notices that it is done.
FairSpec == Spec /\ WF_vars(Receive) /\ WF_vars(Drain) /\ WF_vars(Drained) /\ WF_vars(Publish)
                 /\ WF_vars(Send) /\ WF_vars(Settle)

-----------------------------------------------------------------------------
(* Properties                                                              *)

\* "Snapshots submitted vs completed": each is counted once, wherever it is,
\* so settle waits for what is outstanding and for nothing else.
SnapshotsAccounted ==
    worker # "dead" =>
        fed = done + Len(channel) + (IF pc = "send" THEN 1 ELSE 0)
                   + (IF worker \in {"drain", "pass"} THEN 1 + skipped ELSE 0)

\* While every settle was answered in time and nothing fed was discarded, an
\* utterance is answered by its own transcript, and once settled that is the
\* one of the newest snapshot, which lacks no more than the tolerated end.
PunctualIsOwn ==
    punctual =>
        /\ used # <<>> => used.by \in {Empty} \cup [utt : {used.utt}, len : 1 .. MaxFrames]
        /\ pc = "settle" /\ done >= fed => covered = lastFed
        /\ pc = "settle" /\ lastFed > 0 => frames - lastFed <= Tolerance

\* A transcript is never replaced by one of less audio, only reset; and what
\* settle is told is covered is what the transcript is of.
CoverageGrows == [][covered' >= covered \/ pc = "reset"]_vars
CoverageTrue == transcript # Empty => covered = transcript.len

\* settle is answered, unless the worker died: it need not time out.
SettleAnswered == pc = "settle" ~> (pc # "settle" \/ worker = "dead")

\* "Reset between utterances so a stale transcript can never leak forward."
NothingStale == used # <<>> => used.by.utt \in {0, used.utt}
=============================================================================
