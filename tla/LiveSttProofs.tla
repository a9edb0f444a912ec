--------------------------- MODULE LiveSttProofs ---------------------------
(***************************************************************************)
(* The live transcriber counts its snapshots and answers an utterance with *)
(* its own words, for detectors, feeding intervals and tolerances of any   *)
(* size and any number of utterances.                                      *)
(***************************************************************************)
EXTENDS LiveStt, TLAPS

Snapshots == [utt : Nat, len : Nat]

Busy == worker \in {"drain", "pass"}

TypeInv ==
    /\ inSpeech \in BOOLEAN /\ punctual \in BOOLEAN
    /\ runSpeech \in Nat /\ runSilence \in Nat /\ frames \in Nat
    /\ utt \in Nat /\ sinceFeed \in Nat /\ lastFed \in Nat
    /\ covered \in Nat /\ fed \in Nat /\ done \in Nat /\ skipped \in Nat
    /\ pc \in {"listen", "send", "settle", "reset"} /\ worker \in {"recv", "drain", "pass", "dead"}
    /\ channel \in Seq(Snapshots) /\ snapshot \in Snapshots /\ transcript \in Snapshots

\* A dead worker has left a snapshot that nobody will count.
Counted == SnapshotsAccounted /\ (worker = "dead" => done < fed /\ channel = <<>>)

\* The detector and the loop: an utterance is shorter than its limit while it goes on, and less
\* than FeedEvery frames of it have not been fed once any have.
Cadence ==
    /\ pc = "send" => inSpeech /\ lastFed > 0
    /\ pc \in {"settle", "reset"} => ~inSpeech /\ frames \in 1 .. MaxFrames
    /\ ~inSpeech => runSpeech < EnterFrames
    /\ inSpeech => frames \in 1 .. MaxFrames - 1
    /\ ~inSpeech /\ pc = "listen" => lastFed = 0
    /\ sinceFeed < FeedEvery
    /\ inSpeech /\ lastFed > 0 => frames = lastFed + sinceFeed
    /\ pc \in {"settle", "reset"} /\ lastFed > 0 => frames <= lastFed + FeedEvery
    /\ lastFed <= MaxFrames

\* What is on its way is of this utterance, not shorter than what has landed, and in order.
Own(s) == s.utt = utt /\ s.len > 0 /\ covered <= s.len /\ s.len <= lastFed

\* The newest snapshot is the last one on its way; with none on its way, it has landed.
NewestIsLast ==
    /\ channel # <<>> => channel[Len(channel)].len = lastFed
    /\ channel = <<>> /\ Busy => snapshot.len = lastFed
    /\ channel = <<>> /\ worker = "recv" => covered = lastFed

Orderly ==
    /\ \A i \in 1 .. Len(channel) : Own(channel[i])
    /\ \A i, j \in 1 .. Len(channel) : i <= j => channel[i].len <= channel[j].len
    /\ Busy => Own(snapshot) /\ \A i \in 1 .. Len(channel) : snapshot.len <= channel[i].len
    /\ pc # "send" => NewestIsLast
    /\ pc = "reset" => done >= fed
    /\ worker = "dead" => lastFed > 0
    /\ covered <= lastFed
    /\ transcript # Empty => transcript.utt = utt /\ transcript.len > 0
    /\ used # <<>> => used.by \in {Empty} \cup [utt : {used.utt}, len : 1 .. MaxFrames]



\* The constants, one by one.
LEMMA Frames ==
    /\ Utterances \in Nat \ {0} /\ EnterFrames \in Nat \ {0} /\ HangFrames \in Nat \ {0}
    /\ MinFrames \in Nat \ {0} /\ MaxFrames \in Nat \ {0} /\ FeedEvery \in Nat \ {0}
    /\ Tolerance \in Nat
<1>1. \A x \in {Utterances, EnterFrames, HangFrames, MinFrames, MaxFrames, FeedEvery} : x \in Nat \ {0}
  BY FrameAssumption
<1> QED
  BY <1>1, FrameAssumption

\* The worker takes the snapshot that has waited longest.
LEMMA FirstOut ==
    ASSUME NEW S, NEW s \in Seq(S), s # <<>>
    PROVE  /\ Head(s) \in S /\ Head(s) = s[1] /\ 1 \in 1 .. Len(s)
           /\ Tail(s) \in Seq(S) /\ Len(Tail(s)) = Len(s) - 1
           /\ \A i \in 1 .. Len(Tail(s)) : i + 1 \in 1 .. Len(s) /\ Tail(s)[i] = s[i + 1]
  OBVIOUS

LEMMA SnapshotType ==
    /\ Empty \in Snapshots
    /\ \A u, n \in Nat : [utt |-> u, len |-> n] \in Snapshots
<1>1. \A u, n \in Nat : [utt |-> u, len |-> n] \in Snapshots
  BY DEF Snapshots
<1> QED
  BY <1>1 DEF Empty

\* Types.
LEMMA TypeStep ==
    ASSUME TypeInv, [Next]_vars
    PROVE  TypeInv'
<1>1. CASE Outside
  <2>1. inSpeech' \in BOOLEAN /\ punctual' \in BOOLEAN
    BY <1>1 DEF Outside, Listened, TypeInv
  <2>2. /\ runSpeech' \in Nat /\ runSilence' \in Nat /\ frames' \in Nat
        /\ utt' \in Nat /\ sinceFeed' \in Nat /\ lastFed' \in Nat /\ fed' \in Nat
        /\ pc' \in {"listen", "send", "settle", "reset"}
    BY <1>1 DEF Outside, Listened, TypeInv
  <2>3. UNCHANGED <<covered, done, skipped, worker, channel, snapshot, transcript>>
    BY <1>1 DEF Outside, result, work
  <2> QED
    BY <2>1, <2>2, <2>3 DEF TypeInv
<1>2. CASE Inside
  BY <1>2, Frames, FirstOut, SnapshotType DEF Inside, Listened, Ends, TypeInv, vad, mic, result, work
<1>3. CASE Discard
  <2>1. inSpeech' \in BOOLEAN /\ punctual' \in BOOLEAN
    BY <1>3 DEF Discard, LeaveSpeech, TypeInv
  <2>2. /\ runSpeech' \in Nat /\ runSilence' \in Nat /\ frames' \in Nat
        /\ utt' \in Nat /\ sinceFeed' \in Nat /\ lastFed' \in Nat /\ fed' \in Nat
        /\ pc' \in {"listen", "send", "settle", "reset"}
    BY <1>3 DEF Discard, LeaveSpeech, TypeInv
  <2>3. UNCHANGED <<covered, done, skipped, worker, channel, snapshot, transcript>>
    BY <1>3 DEF Discard, result, work
  <2> QED
    BY <2>1, <2>2, <2>3 DEF TypeInv
<1>4. CASE Finalize
  <2>1. inSpeech' \in BOOLEAN /\ punctual' \in BOOLEAN
    BY <1>4 DEF Finalize, LeaveSpeech, TypeInv
  <2>2. /\ runSpeech' \in Nat /\ runSilence' \in Nat /\ frames' \in Nat
        /\ utt' \in Nat /\ sinceFeed' \in Nat /\ lastFed' \in Nat /\ fed' \in Nat
        /\ pc' \in {"listen", "send", "settle", "reset"}
    BY <1>4 DEF Finalize, LeaveSpeech, TypeInv
  <2>3. UNCHANGED <<covered, done, skipped, worker, channel, snapshot, transcript>>
    BY <1>4 DEF Finalize, result, work
  <2> QED
    BY <2>1, <2>2, <2>3 DEF TypeInv
<1>5. CASE Send
  BY <1>5, Frames, FirstOut, SnapshotType DEF Send, TypeInv, vad, mic, result, work
<1>6. CASE Settle
  BY <1>6, Frames, FirstOut, SnapshotType DEF Settle, Use, TypeInv, vad, mic, result, work
<1>7. CASE SettleTimesOut
  BY <1>7, Frames, FirstOut, SnapshotType DEF SettleTimesOut, Use, TypeInv, vad, mic, result, work
<1>8. CASE Reset
  BY <1>8, Frames, FirstOut, SnapshotType DEF Reset, TypeInv, vad, mic, result, work
<1>9. CASE Receive
  BY <1>9, Frames, FirstOut, SnapshotType DEF Receive, TypeInv, vad, mic, result, work
<1>10. CASE Drain
  BY <1>10, Frames, FirstOut, SnapshotType DEF Drain, TypeInv, vad, mic, result, work
<1>11. CASE Drained
  BY <1>11, Frames, FirstOut, SnapshotType DEF Drained, TypeInv, vad, mic, result, work
<1>12. CASE Publish
  BY <1>12, SnapshotType DEF Publish, TypeInv, Snapshots, mic, vad, result
<1>13. CASE Panic
  BY <1>13, Frames, FirstOut, SnapshotType DEF Panic, TypeInv, vad, mic, result, work
<1>14. CASE UNCHANGED vars
  BY <1>14 DEF TypeInv, vars, vad, mic, result, work
<1> QED
  BY <1>1, <1>2, <1>3, <1>4, <1>5, <1>6, <1>7, <1>8, <1>9, <1>10, <1>11, <1>12, <1>13, <1>14 DEF Next, Mic, Worker, Closed

\* Every snapshot is counted when it is fed, and again when its pass, or a later one's, is over.
LEMMA CountStep ==
    ASSUME TypeInv, Counted, [Next]_vars
    PROVE  Counted'
<1>1. CASE Outside
  BY <1>1, FirstOut DEF Outside, Listened, Counted, SnapshotsAccounted, TypeInv, vad, mic, result, work
<1>2. CASE Inside
  BY <1>2, FirstOut DEF Inside, Listened, Ends, Counted, SnapshotsAccounted, TypeInv, vad, mic, result, work
<1>3. CASE Discard
  BY <1>3, FirstOut DEF Discard, LeaveSpeech, Counted, SnapshotsAccounted, TypeInv, vad, mic, result, work
<1>4. CASE Finalize
  BY <1>4, FirstOut DEF Finalize, LeaveSpeech, Counted, SnapshotsAccounted, TypeInv, vad, mic, result, work
<1>5. CASE Send
  <2>1. /\ pc = "send" /\ pc' = "listen" /\ UNCHANGED <<fed, done, worker, skipped>>
        /\ channel' = IF worker = "dead" THEN channel ELSE Append(channel, [utt |-> utt, len |-> lastFed])
    BY <1>5 DEF Send, work
  <2>2. [utt |-> utt, len |-> lastFed] \in Snapshots
    BY SnapshotType DEF TypeInv
  <2>3. worker # "dead" => Len(channel') = Len(channel) + 1 /\ Len(channel) \in Nat
    BY <2>1, <2>2 DEF TypeInv
  <2>4. CASE worker = "dead"
    BY <2>1, <2>4 DEF Counted, SnapshotsAccounted
  <2>5. CASE worker # "dead"
    <3>1. fed = done + Len(channel) + 1 + (IF worker \in {"drain", "pass"} THEN 1 + skipped ELSE 0)
      BY <2>1, <2>5 DEF Counted, SnapshotsAccounted
    <3>2. fed' = done' + Len(channel') + (IF worker' \in {"drain", "pass"} THEN 1 + skipped' ELSE 0)
      BY <3>1, <2>1, <2>3, <2>5 DEF TypeInv
    <3> QED
      BY <3>2, <2>1, <2>5 DEF Counted, SnapshotsAccounted, TypeInv
  <2> QED
    BY <2>4, <2>5
<1>6. CASE Settle
  BY <1>6, FirstOut DEF Settle, Use, Counted, SnapshotsAccounted, TypeInv, vad, mic, result, work
<1>7. CASE SettleTimesOut
  BY <1>7, FirstOut DEF SettleTimesOut, Use, Counted, SnapshotsAccounted, TypeInv, vad, mic, result, work
<1>8. CASE Reset
  BY <1>8, FirstOut DEF Reset, Counted, SnapshotsAccounted, TypeInv, vad, mic, result, work
<1>9. CASE Receive
  BY <1>9, FirstOut DEF Receive, Counted, SnapshotsAccounted, TypeInv, vad, mic, result, work
<1>10. CASE Drain
  BY <1>10, FirstOut DEF Drain, Counted, SnapshotsAccounted, TypeInv, vad, mic, result, work
<1>11. CASE Drained
  BY <1>11, FirstOut DEF Drained, Counted, SnapshotsAccounted, TypeInv, vad, mic, result, work
<1>12. CASE Publish
  BY <1>12, FirstOut DEF Publish, Counted, SnapshotsAccounted, TypeInv, vad, mic, result, work
<1>13. CASE Panic
  BY <1>13, FirstOut DEF Panic, Counted, SnapshotsAccounted, TypeInv, vad, mic, result, work
<1>14. CASE UNCHANGED vars
  BY <1>14 DEF Counted, SnapshotsAccounted, TypeInv, vars, vad, mic, result, work
<1> QED
  BY <1>1, <1>2, <1>3, <1>4, <1>5, <1>6, <1>7, <1>8, <1>9, <1>10, <1>11, <1>12, <1>13, <1>14 DEF Next, Mic, Worker, Closed

\* What is covered is what the transcript is of.
LEMMA CoverageStep ==
    ASSUME TypeInv, CoverageTrue, [Next]_vars
    PROVE  CoverageTrue'
<1>1. CASE Outside
  BY <1>1, Frames DEF Outside, Listened, CoverageTrue, TypeInv, Snapshots, Empty, vad, mic, result, work
<1>2. CASE Inside
  BY <1>2, Frames DEF Inside, Listened, Ends, CoverageTrue, TypeInv, Snapshots, Empty, vad, mic, result, work
<1>3. CASE Discard
  BY <1>3, Frames DEF Discard, LeaveSpeech, CoverageTrue, TypeInv, Snapshots, Empty, vad, mic, result, work
<1>4. CASE Finalize
  BY <1>4, Frames DEF Finalize, LeaveSpeech, CoverageTrue, TypeInv, Snapshots, Empty, vad, mic, result, work
<1>5. CASE Send
  BY <1>5, Frames DEF Send, CoverageTrue, TypeInv, Snapshots, Empty, vad, mic, result, work
<1>6. CASE Settle
  BY <1>6, Frames DEF Settle, Use, CoverageTrue, TypeInv, Snapshots, Empty, vad, mic, result, work
<1>7. CASE SettleTimesOut
  BY <1>7, Frames DEF SettleTimesOut, Use, CoverageTrue, TypeInv, Snapshots, Empty, vad, mic, result, work
<1>8. CASE Reset
  BY <1>8, Frames DEF Reset, CoverageTrue, TypeInv, Snapshots, Empty, vad, mic, result, work
<1>9. CASE Receive
  BY <1>9, Frames DEF Receive, CoverageTrue, TypeInv, Snapshots, Empty, vad, mic, result, work
<1>10. CASE Drain
  BY <1>10, Frames DEF Drain, CoverageTrue, TypeInv, Snapshots, Empty, vad, mic, result, work
<1>11. CASE Drained
  BY <1>11, Frames DEF Drained, CoverageTrue, TypeInv, Snapshots, Empty, vad, mic, result, work
<1>12. CASE Publish
  BY <1>12, Frames DEF Publish, CoverageTrue, TypeInv, Snapshots, Empty, vad, mic, result, work
<1>13. CASE Panic
  BY <1>13, Frames DEF Panic, CoverageTrue, TypeInv, Snapshots, Empty, vad, mic, result, work
<1>14. CASE UNCHANGED vars
  BY <1>14 DEF CoverageTrue, TypeInv, Snapshots, Empty, vars, vad, mic, result, work
<1> QED
  BY <1>1, <1>2, <1>3, <1>4, <1>5, <1>6, <1>7, <1>8, <1>9, <1>10, <1>11, <1>12, <1>13, <1>14 DEF Next, Mic, Worker, Closed

\* The detector and the loop keep their cadence.
LEMMA CadenceStep ==
    ASSUME TypeInv, Cadence, EnterFrames < MaxFrames, [Next]_vars
    PROVE  Cadence'
<1>1. CASE Outside
  BY <1>1, Frames DEF Outside, Listened, Cadence, TypeInv, vad, mic, result, work
<1>2. CASE Inside
  BY <1>2, Frames DEF Inside, Listened, Ends, Cadence, TypeInv, vad, mic, result, work
<1>3. CASE Discard
  BY <1>3, Frames DEF Discard, LeaveSpeech, Cadence, TypeInv, vad, mic, result, work
<1>4. CASE Finalize
  BY <1>4, Frames DEF Finalize, LeaveSpeech, Cadence, TypeInv, vad, mic, result, work
<1>5. CASE Send
  BY <1>5, Frames DEF Send, Cadence, TypeInv, vad, mic, result, work
<1>6. CASE Settle
  BY <1>6, Frames DEF Settle, Use, Cadence, TypeInv, vad, mic, result, work
<1>7. CASE SettleTimesOut
  BY <1>7, Frames DEF SettleTimesOut, Use, Cadence, TypeInv, vad, mic, result, work
<1>8. CASE Reset
  BY <1>8, Frames DEF Reset, Cadence, TypeInv, vad, mic, result, work
<1>9. CASE Receive
  BY <1>9, Frames DEF Receive, Cadence, TypeInv, vad, mic, result, work
<1>10. CASE Drain
  BY <1>10, Frames DEF Drain, Cadence, TypeInv, vad, mic, result, work
<1>11. CASE Drained
  BY <1>11, Frames DEF Drained, Cadence, TypeInv, vad, mic, result, work
<1>12. CASE Publish
  BY <1>12, Frames DEF Publish, Cadence, TypeInv, vad, mic, result, work
<1>13. CASE Panic
  BY <1>13, Frames DEF Panic, Cadence, TypeInv, vad, mic, result, work
<1>14. CASE UNCHANGED vars
  BY <1>14 DEF Cadence, TypeInv, vars, vad, mic, result, work
<1> QED
  BY <1>1, <1>2, <1>3, <1>4, <1>5, <1>6, <1>7, <1>8, <1>9, <1>10, <1>11, <1>12, <1>13, <1>14 DEF Next, Mic, Worker, Closed

\* What is left when everything has been counted: nothing.
LEMMA Settled ==
    ASSUME TypeInv, Counted, done >= fed
    PROVE  channel = <<>> /\ worker = "recv" /\ pc # "send"
<1>1. worker # "dead"
  BY DEF Counted, TypeInv
<1>2. fed = done + Len(channel) + (IF pc = "send" THEN 1 ELSE 0)
                 + (IF worker \in {"drain", "pass"} THEN 1 + skipped ELSE 0)
  BY <1>1 DEF Counted, SnapshotsAccounted
<1>3. Len(channel) \in Nat /\ fed \in Nat /\ done \in Nat /\ skipped \in Nat
  BY DEF TypeInv
<1>4. Len(channel) = 0 /\ pc # "send" /\ worker \notin {"drain", "pass"}
  BY <1>2, <1>3
<1> QED
  BY <1>1, <1>4 DEF TypeInv

\* With nothing fed of an utterance, nothing is on its way and nothing has landed.
LEMMA NothingFed ==
    ASSUME TypeInv, CoverageTrue, Orderly, lastFed = 0
    PROVE  channel = <<>> /\ worker = "recv" /\ transcript = Empty /\ covered = 0
<1>1. channel = <<>>
  <2>1. Len(channel) \in Nat /\ channel = <<>> <=> Len(channel) = 0
    BY DEF TypeInv
  <2>2. ASSUME Len(channel) > 0 PROVE FALSE
    <3>1. 1 \in 1 .. Len(channel) /\ channel[1] \in Snapshots
      BY <2>1, <2>2 DEF TypeInv
    <3>2. channel[1].len > 0 /\ channel[1].len <= 0
      BY <3>1 DEF Orderly, Own
    <3> QED
      BY <3>1, <3>2 DEF Snapshots
  <2> QED
    BY <2>1, <2>2
<1>2. worker = "recv"
  BY DEF Orderly, Own, Busy, TypeInv, Snapshots
<1>3. covered = 0
  BY DEF Orderly, TypeInv
<1>4. transcript = Empty
  BY <1>3 DEF Orderly, CoverageTrue, TypeInv, Snapshots
<1> QED
  BY <1>1, <1>2, <1>3, <1>4

\* A step that leaves what is on its way and what has landed alone keeps it in order, if lastFed
\* only changes to be sent.
LEMMA Undisturbed ==
    ASSUME TypeInv, Orderly, punctual' => punctual,
           UNCHANGED <<channel, transcript, covered, worker, snapshot, utt, used>>,
           lastFed' \in Nat, lastFed' >= lastFed,
           pc' # "send" => lastFed' = lastFed /\ pc # "send",
           pc' = "reset" => done' >= fed'
    PROVE  Orderly'
<1>1. \A t \in Snapshots : Own(t) => t.utt = utt' /\ t.len > 0 /\ covered' <= t.len /\ t.len <= lastFed'
  BY DEF Own, Snapshots, TypeInv
<1>2. \A i \in 1 .. Len(channel') : Own(channel[i])'
  BY <1>1 DEF Orderly, Own, TypeInv
<1>3. Busy' => Own(snapshot)' /\ \A i \in 1 .. Len(channel') : snapshot'.len <= channel'[i].len
  BY <1>1 DEF Orderly, Own, Busy, TypeInv
<1>4. pc' # "send" => NewestIsLast'
  BY DEF Orderly, NewestIsLast, Busy
<1>5. /\ \A i, j \in 1 .. Len(channel') : i <= j => channel'[i].len <= channel'[j].len
      /\ worker' = "dead" => lastFed' > 0
      /\ covered' <= lastFed'
      /\ transcript' # Empty => transcript'.utt = utt' /\ transcript'.len > 0
      /\ used' # <<>> => used'.by \in {Empty} \cup [utt : {used'.utt}, len : 1 .. MaxFrames]
  BY DEF Orderly, TypeInv
<1> QED
  BY <1>2, <1>3, <1>4, <1>5 DEF Orderly

\* Snapshots of one utterance stay in order, and nothing of it is left for the next.
LEMMA OrderStep ==
    ASSUME TypeInv, Counted, CoverageTrue, Cadence, punctual => Orderly, [Next]_vars
    PROVE  punctual' => Orderly'
<1> SUFFICES ASSUME punctual' PROVE Orderly'
  OBVIOUS
<1>0. punctual /\ Orderly
  BY DEF Next, Mic, Worker, Closed, Outside, Inside, Discard, Finalize, Send, Settle, SettleTimesOut,
         Reset, Use, Receive, Drain, Drained, Publish, Panic, LeaveSpeech, vars, vad, mic, work
<1>1. CASE Outside \/ Inside
  <2>1. UNCHANGED <<channel, transcript, covered, worker, snapshot, utt, used>>
    BY <1>1 DEF Outside, Inside, result, work
  <2>2. pc = "listen" /\ pc' \in {"listen", "send"} /\ (pc' # "send" => lastFed' = lastFed)
    BY <1>1 DEF Outside, Inside, Listened
  <2>3. lastFed' \in Nat /\ lastFed' >= lastFed
    <3>1. CASE Outside
      <4>1. lastFed = 0 /\ (lastFed' = lastFed \/ lastFed' = runSpeech + 1)
        BY <3>1 DEF Outside, Listened, Cadence
      <4> QED
        BY <4>1 DEF TypeInv
    <3>2. CASE Inside
      <4>1. inSpeech /\ (lastFed' = lastFed \/ lastFed' = frames + 1)
        BY <3>2 DEF Inside, Listened
      <4>2. lastFed <= frames
        BY <4>1 DEF Cadence, TypeInv
      <4> QED
        BY <4>1, <4>2 DEF TypeInv
    <3> QED
      BY <1>1, <3>1, <3>2
  <2> QED
    BY <1>0, <2>1, <2>2, <2>3, Undisturbed
<1>2. CASE Discard
  <2>1. /\ punctual' = (punctual /\ lastFed = 0) /\ lastFed' = 0 /\ pc' = pc /\ pc = "listen"
        /\ UNCHANGED <<channel, transcript, covered, worker, used>>
    BY <1>2 DEF Discard, LeaveSpeech, result, work
  <2>2. lastFed = 0
    BY <2>1
  <2>3. channel = <<>> /\ worker = "recv" /\ transcript = Empty /\ covered = 0
    BY <1>0, <2>2, NothingFed
  <2> QED
    BY <1>0, <2>1, <2>3 DEF Orderly, NewestIsLast, Busy
<1>3. CASE Finalize
  BY <1>0, <1>3, Undisturbed DEF Finalize, LeaveSpeech, result, work, TypeInv
<1>4. CASE Send
  <2> DEFINE new == [utt |-> utt, len |-> lastFed]
  <2>1. /\ pc = "send" /\ pc' = "listen" /\ UNCHANGED <<transcript, covered, worker, snapshot, utt, used, lastFed>>
        /\ channel' = IF worker = "dead" THEN channel ELSE Append(channel, new)
    BY <1>4 DEF Send, result, work
  <2>2. new \in Snapshots /\ new.utt = utt /\ new.len = lastFed /\ Own(new) /\ lastFed > 0
    BY <1>0, <2>1, SnapshotType DEF TypeInv, Own, Orderly, Cadence
  <2> HIDE DEF new
  <2>3. CASE worker = "dead"
    <3>1. channel = <<>>
      BY <2>3 DEF Counted
    <3> QED
      BY <1>0, <2>1, <2>3, <3>1 DEF Orderly, NewestIsLast, Busy, Own
  <2>4. CASE worker # "dead"
    <3>1. /\ channel' = Append(channel, new) /\ channel' \in Seq(Snapshots) /\ Len(channel) \in Nat
          /\ Len(channel') = Len(channel) + 1 /\ channel'[Len(channel')] = new
          /\ \A i \in 1 .. Len(channel) : channel'[i] = channel[i] /\ channel[i] \in Snapshots
      BY <2>1, <2>2, <2>4 DEF TypeInv
    <3>2. \A i \in 1 .. Len(channel') : i = Len(channel') \/ i \in 1 .. Len(channel)
      BY <3>1
    <3>3. \A t : Own(t)' <=> Own(t)
      BY <2>1 DEF Own
    <3>4. \A i \in 1 .. Len(channel') : Own(channel'[i])
      BY <1>0, <2>2, <3>1, <3>2 DEF Orderly
    <3>5. \A i, j \in 1 .. Len(channel') : i <= j => channel'[i].len <= channel'[j].len
      <4> TAKE i, j \in 1 .. Len(channel')
      <4> HAVE i <= j
      <4>1. CASE j \in 1 .. Len(channel)
        BY <1>0, <3>1, <4>1 DEF Orderly
      <4>2. CASE j = Len(channel')
        <5>1. channel'[i].len <= lastFed /\ channel'[j].len = lastFed
          BY <3>1, <3>4, <4>2, <2>2 DEF Own
        <5> QED
          BY <5>1
      <4> QED
        BY <3>2, <4>1, <4>2
    <3>6. Busy' => Own(snapshot)' /\ \A i \in 1 .. Len(channel') : snapshot'.len <= channel'[i].len
      <4> SUFFICES ASSUME Busy
                   PROVE  Own(snapshot) /\ \A i \in 1 .. Len(channel') : snapshot.len <= channel'[i].len
        BY <2>1 DEF Busy, Own
      <4>1. Own(snapshot) /\ snapshot.len <= lastFed
        BY <1>0 DEF Orderly, Own
      <4>2. \A i \in 1 .. Len(channel) : snapshot.len <= channel'[i].len
        BY <1>0, <3>1 DEF Orderly
      <4> QED
        BY <4>1, <4>2, <3>1, <3>2, <2>2
    <3>7. NewestIsLast'
      BY <2>1, <2>2, <3>1 DEF NewestIsLast
    <3>8. \A i \in 1 .. Len(channel') : Own(channel[i])'
      BY <2>1, <3>4 DEF Own
    <3> QED
      BY <1>0, <2>1, <3>5, <3>6, <3>7, <3>8 DEF Orderly
  <2> QED
    BY <2>3, <2>4
<1>5. CASE Settle
  <2>1. /\ pc = "settle" /\ done >= fed /\ pc' = "reset"
        /\ UNCHANGED <<channel, transcript, covered, worker, snapshot, utt, lastFed, fed, done>>
        /\ used'.utt = utt /\ used'.by \in {transcript, Empty, [utt |-> utt, len |-> frames]}
    BY <1>5 DEF Settle, Use, result, work
  <2>2. transcript # Empty => transcript \in [utt : {utt}, len : 1 .. MaxFrames]
    <3>1. transcript # Empty => transcript.utt = utt /\ transcript.len > 0 /\ transcript.len <= lastFed
      BY <1>0 DEF Orderly, CoverageTrue
    <3>2. lastFed <= MaxFrames /\ MaxFrames \in Nat /\ lastFed \in Nat /\ transcript \in Snapshots
      BY Frames DEF Cadence, TypeInv
    <3>3. transcript # Empty => transcript.len \in 1 .. MaxFrames
      BY <3>1, <3>2 DEF Snapshots
    <3> QED
      BY <3>1, <3>2, <3>3 DEF Snapshots
  <2>3. [utt |-> utt, len |-> frames] \in [utt : {utt}, len : 1 .. MaxFrames]
    BY <2>1 DEF Cadence
  <2>4. used'.by \in {Empty} \cup [utt : {used'.utt}, len : 1 .. MaxFrames]
    BY <2>1, <2>2, <2>3
  <2> QED
    BY <1>0, <2>1, <2>4 DEF Orderly, NewestIsLast, Own, Busy
<1>6. CASE SettleTimesOut
  BY <1>6 DEF SettleTimesOut
<1>7. CASE Reset
  <2>1. pc = "reset" /\ done >= fed
    BY <1>0, <1>7 DEF Reset, Orderly
  <2>2. channel = <<>> /\ worker = "recv"
    BY <2>1, Settled
  <2>3. /\ transcript' = Empty /\ covered' = 0 /\ lastFed' = 0 /\ pc' = "listen"
        /\ UNCHANGED <<channel, worker, used>>
    BY <1>7 DEF Reset, work
  <2> QED
    BY <1>0, <2>2, <2>3 DEF Orderly, NewestIsLast, Busy
<1>8. CASE Receive \/ Drain
  <2>1. /\ channel # <<>> /\ snapshot' = Head(channel) /\ channel' = Tail(channel) /\ worker' = "drain"
        /\ UNCHANGED <<transcript, covered, utt, used, lastFed, pc, fed, done>>
    BY <1>8 DEF Receive, Drain, mic, result
  <2>2. /\ snapshot' = channel[1] /\ 1 \in 1 .. Len(channel)
        /\ Len(channel') = Len(channel) - 1
        /\ \A i \in 1 .. Len(channel') : i + 1 \in 1 .. Len(channel) /\ channel'[i] = channel[i + 1]
        /\ channel \in Seq(Snapshots) /\ Len(channel) \in Nat /\ channel' \in Seq(Snapshots)
    BY <2>1, FirstOut DEF TypeInv
  <2>3. \A t : Own(t)' <=> Own(t)
    BY <2>1 DEF Own
  <2>4. Own(snapshot') /\ \A i \in 1 .. Len(channel') : Own(channel'[i])
    BY <1>0, <2>2 DEF Orderly
  <2>5. \A i \in 1 .. Len(channel') : snapshot'.len <= channel'[i].len
    BY <1>0, <2>2 DEF Orderly
  <2>6. \A i, j \in 1 .. Len(channel') : i <= j => channel'[i].len <= channel'[j].len
    BY <1>0, <2>2 DEF Orderly
  <2>7. pc' # "send" => NewestIsLast'
    <3> SUFFICES ASSUME pc # "send" PROVE NewestIsLast'
      BY <2>1
    <3>1. channel[Len(channel)].len = lastFed
      BY <1>0, <2>1 DEF Orderly, NewestIsLast
    <3>2. channel' # <<>> => channel'[Len(channel')].len = lastFed
      BY <2>2, <3>1
    <3>3. channel' = <<>> => snapshot'.len = lastFed
      <4>1. channel' = <<>> => Len(channel) = 1
        <5>1. channel' = <<>> => Len(channel') = 0
          OBVIOUS
        <5> QED
          BY <5>1, <2>2
      <4> QED
        BY <4>1, <2>2, <3>1
    <3> QED
      BY <2>1, <3>2, <3>3 DEF NewestIsLast
  <2>8. Own(snapshot)' /\ \A i \in 1 .. Len(channel') : Own(channel[i])'
    BY <2>1, <2>4 DEF Own
  <2> QED
    BY <1>0, <2>1, <2>5, <2>6, <2>7, <2>8 DEF Orderly
<1>9. CASE Drained
  <2>1. /\ channel = <<>> /\ worker = "drain" /\ worker' = "pass"
        /\ UNCHANGED <<transcript, covered, utt, used, lastFed, pc, fed, done, channel, snapshot>>
    BY <1>9 DEF Drained, mic, result
  <2> QED
    BY <1>0, <2>1 DEF Orderly, NewestIsLast, Busy, Own
<1>10. CASE Publish
  <2>1. /\ worker = "pass" /\ worker' = "recv"
        /\ IF snapshot.len >= covered
           THEN covered' = snapshot.len /\ transcript' \in {snapshot, Empty}
           ELSE UNCHANGED <<transcript, covered>>
        /\ UNCHANGED <<channel, utt, used, lastFed, pc>>
        /\ fed' = fed /\ done' = done + 1 + skipped
    BY <1>10 DEF Publish, mic, result
  <2>2. Own(snapshot) /\ snapshot \in Snapshots /\ \A i \in 1 .. Len(channel) : snapshot.len <= channel[i].len
    BY <1>0, <2>1 DEF Orderly, Busy, TypeInv
  <2>3. covered' = snapshot.len /\ transcript' \in {snapshot, Empty}
    BY <2>1, <2>2 DEF Own, Snapshots, TypeInv
  <2>4. \A i \in 1 .. Len(channel') : Own(channel[i])'
    BY <1>0, <2>1, <2>2, <2>3 DEF Orderly, Own
  <2>5. pc' # "send" => NewestIsLast'
    BY <1>0, <2>1, <2>3 DEF Orderly, NewestIsLast, Busy
  <2>6. pc' = "reset" => done' >= fed'
    BY <1>0, <2>1 DEF Orderly, TypeInv
  <2>7. covered' <= lastFed' /\ (transcript' # Empty => transcript'.utt = utt' /\ transcript'.len > 0)
    BY <2>1, <2>2, <2>3 DEF Own
  <2> QED
    BY <1>0, <2>1, <2>4, <2>5, <2>6, <2>7 DEF Orderly, Busy
<1>11. CASE Panic
  <2>1. /\ worker = "pass" /\ worker' = "dead" /\ channel' = <<>>
        /\ UNCHANGED <<transcript, covered, utt, used, lastFed, pc, fed, done>>
    BY <1>11 DEF Panic, mic, result
  <2>2. lastFed > 0
    BY <1>0, <2>1 DEF Orderly, Busy, Own, TypeInv, Snapshots
  <2> QED
    BY <1>0, <2>1, <2>2 DEF Orderly, NewestIsLast, Busy
<1>12. CASE UNCHANGED vars
  BY <1>0, <1>12 DEF vars, vad, mic, result, work, Orderly, NewestIsLast, Busy, Own
<1> QED
  BY <1>1, <1>2, <1>3, <1>4, <1>5, <1>6, <1>7, <1>8, <1>9, <1>10, <1>11, <1>12
  DEF Next, Mic, Worker, Closed

LEMMA InitInv == Init => TypeInv /\ Counted /\ CoverageTrue /\ Orderly
<1> SUFFICES ASSUME Init PROVE TypeInv /\ Counted /\ CoverageTrue /\ Orderly
  OBVIOUS
<1>1. /\ channel = <<>> /\ Len(channel) = 0 /\ worker = "recv" /\ pc = "listen" /\ used = <<>>
      /\ transcript = Empty /\ snapshot = Empty /\ covered = 0 /\ fed = 0 /\ done = 0 /\ lastFed = 0
  BY DEF Init
<1>2. TypeInv
  <2>1. Empty \in Snapshots
    BY SnapshotType
  <2>2. inSpeech \in BOOLEAN /\ punctual \in BOOLEAN
    BY DEF Init
  <2>3. /\ runSpeech \in Nat /\ runSilence \in Nat /\ frames \in Nat /\ utt \in Nat
        /\ sinceFeed \in Nat /\ skipped \in Nat
    BY DEF Init
  <2> QED
    BY <1>1, <2>1, <2>2, <2>3 DEF TypeInv
<1>3. Counted /\ CoverageTrue
  BY <1>1 DEF Counted, SnapshotsAccounted, CoverageTrue
<1>4. Orderly
  BY <1>1 DEF Orderly, NewestIsLast, Busy
<1> QED
  BY <1>2, <1>3, <1>4

LEMMA InitCadence == Init /\ EnterFrames < MaxFrames => Cadence
  BY Frames DEF Init, Cadence

\* settle waits for exactly what is outstanding: every snapshot fed is waiting, in the worker's
\* hands or done.
THEOREM SnapshotsCounted == Spec => []SnapshotsAccounted
<1>1. Init => TypeInv /\ Counted
  BY InitInv
<1>2. TypeInv /\ Counted /\ [Next]_vars => TypeInv' /\ Counted'
  BY TypeStep, CountStep
<1>3. Counted => SnapshotsAccounted
  BY DEF Counted
<1> QED
  BY <1>1, <1>2, <1>3, PTL DEF Spec

\* What settle is told is covered is what the transcript is of.
THEOREM CoverageIsTrue == Spec => []CoverageTrue
<1>1. Init => TypeInv /\ CoverageTrue
  BY InitInv
<1>2. TypeInv /\ CoverageTrue /\ [Next]_vars => TypeInv' /\ CoverageTrue'
  BY TypeStep, CoverageStep
<1> QED
  BY <1>1, <1>2, PTL DEF Spec

\* A transcript is never replaced by one of less audio, except by a reset.
THEOREM CoverageNeverShrinks == Spec => CoverageGrows
<1>1. Init => TypeInv
  BY InitInv
<1>2. TypeInv /\ [Next]_vars => TypeInv'
  BY TypeStep
<1>3. TypeInv /\ [Next]_vars => [covered' >= covered \/ pc = "reset"]_vars
  BY DEF TypeInv, Snapshots, Next, Mic, Worker, Closed, Outside, Inside, Discard, Finalize, Send, Settle,
     SettleTimesOut, Reset, Use, Receive, Drain, Drained, Publish, Panic, LeaveSpeech, result, vars
<1> QED
  BY <1>1, <1>2, <1>3, PTL DEF Spec, CoverageGrows

\* While the transcriber keeps up, an utterance is answered by its own words, all but the
\* tolerated end of them, if the tolerance covers the interval at which the loop feeds.
THEOREM OwnTranscript ==
    ASSUME EnterFrames < MaxFrames, FeedEvery <= Tolerance
    PROVE  Spec => []PunctualIsOwn
<1> DEFINE Inv == TypeInv /\ Counted /\ CoverageTrue /\ Cadence /\ (punctual => Orderly)
<1>1. Init => Inv
  BY InitInv, InitCadence
<1>2. Inv /\ [Next]_vars => Inv'
  BY TypeStep, CountStep, CoverageStep, CadenceStep, OrderStep
<1>3. Inv => PunctualIsOwn
  <2> SUFFICES ASSUME Inv, punctual
               PROVE  /\ used # <<>> => used.by \in {Empty} \cup [utt : {used.utt}, len : 1 .. MaxFrames]
                      /\ pc = "settle" /\ done >= fed => covered = lastFed
                      /\ pc = "settle" /\ lastFed > 0 => frames - lastFed <= Tolerance
    BY DEF PunctualIsOwn
  <2>1. pc = "settle" /\ done >= fed => covered = lastFed
    BY Settled DEF Orderly, NewestIsLast
  <2>2. pc = "settle" /\ lastFed > 0 => frames - lastFed <= Tolerance
    BY Frames DEF Cadence, TypeInv
  <2> QED
    BY <2>1, <2>2 DEF Orderly
<1> HIDE DEF Inv
<1> QED
  BY <1>1, <1>2, <1>3, PTL DEF Spec
=============================================================================
