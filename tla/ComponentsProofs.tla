-------------------------- MODULE ComponentsProofs --------------------------
(***************************************************************************)
(* Theorems about the smaller components, each on its own: the batches     *)
(* requests are executed in, the words of a spoken turn, the history of a  *)
(* chat, the one server of a host, the update of the binary, the download  *)
(* and loading of a model, the choice of an engine, and below it the       *)
(* thermal governor, the plans of the parallel kernels, the workgroups of  *)
(* the GPU's reductions and the buffer pool.                               *)
(***************************************************************************)
EXTENDS Components, DataLemmas, FiniteSetTheorems, SequenceTheorems, TLAPS

-----------------------------------------------------------------------------
(* Executor. Batched execution neither loses nor repeats nor reorders a    *)
(* request, and the dynamic scheduler never holds one without a running    *)
(* window, for any batch size and any number of clients.                   *)

\* A batch exists only while it is executed, and run_async leaves nothing queued.
ExInv ==
    /\ chan \in Seq(Jobs) /\ queue \in Seq(Jobs) /\ batch \in Seq(Jobs) /\ ran \in Seq(Jobs)
    /\ epc \in {"drain", "form", "run", "check", "flush", "exit", "done"}
    /\ epc \notin {"run", "flush"} => batch = <<>>
    /\ epc \in {"flush", "exit", "done"} => queue = <<>>

\* ConcatAssociative for sequences of requests.
LEMMA Assoc == \A s, t, u \in Seq(Jobs) : (s \o t) \o u = s \o (t \o u)
<1>1. ASSUME NEW S
      PROVE  \A s, t, u \in Seq(S) : (s \o t) \o u = s \o (t \o u)
  BY ConcatAssociative
<1> QED
  BY <1>1

\* A first part of a sequence and the rest are sequences, and together the whole.
LEMMA CutInTwo ==
    ASSUME NEW S, NEW q \in Seq(S), NEW n \in 1 .. Len(q)
    PROVE  /\ SubSeq(q, 1, n) \in Seq(S) /\ SubSeq(q, n + 1, Len(q)) \in Seq(S)
           /\ SubSeq(q, 1, n) \o SubSeq(q, n + 1, Len(q)) = q
<1>1. Len(q) \in Nat /\ \A i \in 1 .. Len(q) : q[i] \in S
  OBVIOUS
<1>2. SubSeq(q, 1, n) \in Seq(S)
  BY <1>1, SubSeqProperties
<1>3. SubSeq(q, n + 1, Len(q)) \in Seq(S)
  BY <1>1, SubSeqProperties
<1>4. SubSeq(q, 1, n) \o SubSeq(q, n + 1, Len(q)) = SubSeq(q, 1, Len(q))
  BY <1>1, ConcatAdjacentSubSeq
<1>5. SubSeq(q, 1, Len(q)) = q
  BY SubSeqFull
<1> QED
  BY <1>2, <1>3, <1>4, <1>5

\* Moving the head of one sequence to the end of the one before it.
LEMMA MoveHead ==
    ASSUME NEW p \in Seq(Jobs), NEW q \in Seq(Jobs), NEW c \in Seq(Jobs), c # <<>>
    PROVE  (p \o Append(q, Head(c))) \o Tail(c) = (p \o q) \o c
<1>1. Head(c) \in Jobs /\ Tail(c) \in Seq(Jobs)
  BY HeadTailProperties
<1>2. /\ <<Head(c)>> \in Seq(Jobs) /\ Append(q, Head(c)) = q \o <<Head(c)>>
      /\ c = <<Head(c)>> \o Tail(c)
  BY <1>1, AppendIsConcat
<1> DEFINE h == <<Head(c)>>
           t == Tail(c)
<1>3. h \in Seq(Jobs) /\ t \in Seq(Jobs) /\ c = h \o t /\ Append(q, Head(c)) = q \o h
  BY <1>1, <1>2
<1> HIDE DEF h, t
<1>4. (p \o (q \o h)) \o t = ((p \o q) \o h) \o t
  BY <1>3, Assoc, ZenonT(40)
<1>5. ((p \o q) \o h) \o t = (p \o q) \o (h \o t)
  <2>1. p \o q \in Seq(Jobs)
    BY ConcatProperties
  <2> QED
    BY <1>3, <2>1, Assoc, Zenon
<1> QED
  BY <1>3, <1>4, <1>5 DEF t

LEMMA Prefixes1 ==
    ASSUME NEW S, NEW s \in Seq(S)
    PROVE  /\ IsPrefix(s, s)
           /\ \A e \in S : IsPrefix(s, Append(s, e))
<1>1. IsPrefix(s, s)
  BY DEF IsPrefix
<1>2. ASSUME NEW e \in S
      PROVE  IsPrefix(s, Append(s, e))
  <2>1. Len(s) \in Nat /\ Len(s) <= Len(Append(s, e))
    BY AppendProperties
  <2>2. CASE s = <<>>
    BY <2>1, <2>2, SubSeqEmpty DEF IsPrefix
  <2>3. CASE s # <<>>
    <3>1. <<e>> \in Seq(S) /\ Append(s, e) = s \o <<e>>
      BY AppendIsConcat
    <3>2. 1 \in 1 .. Len(s) /\ Len(s) \in 1 .. Len(s)
      BY <2>1, <2>3
    <3>3. SubSeq(s \o <<e>>, 1, Len(s)) = SubSeq(s, 1, Len(s))
      BY <3>1, <3>2, SubSeqOfConcat1
    <3> QED
      BY <2>1, <3>1, <3>3 DEF IsPrefix
  <2> QED
    BY <2>2, <2>3
<1> QED
  BY <1>1, <1>2

LEMMA FormedParts ==
    ASSUME ExInv, TryFormBatch
    PROVE  /\ batch' \in Seq(Jobs) /\ queue' \in Seq(Jobs) /\ batch' \o queue' = queue
           /\ epc = "form" /\ epc' = "run" /\ UNCHANGED <<chan, ran>>
<1> DEFINE n == Least(Len(queue), BATCH)
<1>1. /\ batch' = SubSeq(queue, 1, n) /\ queue' = SubSeq(queue, n + 1, Len(queue)) /\ queue # <<>>
      /\ epc = "form" /\ epc' = "run" /\ UNCHANGED <<chan, ran>>
  BY DEF TryFormBatch, Emits
<1>2. n \in 1 .. Len(queue)
  BY <1>1, ExecutorAssumption DEF Least, ExInv
<1> HIDE DEF n
<1> QED
  BY <1>1, <1>2, CutInTwo DEF ExInv

LEMMA ExInvNext == ExInv /\ [ExNext]_exVars => ExInv'
<1> SUFFICES ASSUME ExInv, [ExNext]_exVars PROVE ExInv'
  OBVIOUS
<1>1. ASSUME NEW r \in Jobs, Send(r) PROVE ExInv'
  BY <1>1 DEF Send, ExInv
<1>2. CASE DropSenders
  BY <1>2 DEF DropSenders, ExInv
<1>3. CASE Elapse
  BY <1>3 DEF Elapse, ExInv
<1>4. CASE Submit
  <2>1. Append(queue, Head(chan)) \in Seq(Jobs) /\ Tail(chan) \in Seq(Jobs)
    BY <1>4, HeadTailProperties DEF Submit, ExInv
  <2> QED
    BY <1>4, <2>1 DEF Submit, ExInv
<1>5. CASE Drained
  BY <1>5 DEF Drained, ExInv
<1>6. CASE TryFormBatch
  BY <1>6, FormedParts DEF ExInv
<1>7. CASE NoBatch
  BY <1>7 DEF NoBatch, ExInv
<1>8. CASE RunBatch \/ BatchPanics \/ Flush \/ FlushPanics
  <2>1. ran \o batch \in Seq(Jobs) /\ <<>> \in Seq(Jobs)
    BY ConcatProperties DEF ExInv
  <2>2. /\ epc \in {"run", "flush"} /\ epc' = (IF epc = "run" THEN "check" ELSE "exit")
        /\ ran' = ran \o batch /\ batch' = <<>> /\ UNCHANGED <<chan, queue>>
        /\ epc = "flush" => queue = <<>>
    BY <1>8 DEF RunBatch, BatchPanics, Flush, FlushPanics, ExInv
  <2> QED
    BY <2>1, <2>2 DEF ExInv
<1>9. CASE CheckClosed
  BY <1>9 DEF CheckClosed, ExInv
<1>10. CASE Return
  BY <1>10 DEF Return, ExInv
<1>11. CASE UNCHANGED exVars
  BY <1>11 DEF exVars, ExInv
<1> QED
  BY <1>1, <1>2, <1>3, <1>4, <1>5, <1>6, <1>7, <1>8, <1>9, <1>10, <1>11 DEF ExNext, RunAsync

\* What has been sent, in order, only changes when a client sends.
LEMMA SentStep ==
    ASSUME ExInv, [ExNext]_exVars
    PROVE  Sent' = Sent \/ \E r \in Jobs : Sent' = Append(Sent, r)
<1> DEFINE rb == ran \o batch
           rbq == rb \o queue
<1>0. /\ rb \in Seq(Jobs) /\ rbq \in Seq(Jobs) /\ Sent = rbq \o chan
      /\ batch = <<>> => rb = ran
  BY ConcatProperties, ConcatEmptySeq DEF ExInv, Sent
<1>1. ASSUME NEW r \in Jobs, Send(r)
      PROVE  Sent' = Append(Sent, r)
  <2>1. Sent' = rbq \o Append(chan, r) /\ chan \in Seq(Jobs) /\ <<r>> \in Seq(Jobs)
    BY <1>1 DEF Send, Sent, ExInv
  <2>2. Append(chan, r) = chan \o <<r>> /\ Append(rbq \o chan, r) = (rbq \o chan) \o <<r>>
    BY <1>0, <2>1, AppendIsConcat, ConcatProperties
  <2>3. rbq \o (chan \o <<r>>) = (rbq \o chan) \o <<r>>
    BY <1>0, <2>1, Assoc
  <2> QED
    BY <1>0, <2>1, <2>2, <2>3
<1>2. CASE Submit
  <2>1. Sent' = (rb \o Append(queue, Head(chan))) \o Tail(chan) /\ chan # <<>>
    BY <1>2 DEF Submit, Sent
  <2> QED
    <3>1. queue \in Seq(Jobs) /\ chan \in Seq(Jobs)
      BY DEF ExInv
    <3>2. (rb \o Append(queue, Head(chan))) \o Tail(chan) = (rb \o queue) \o chan
      BY <1>0, <2>1, <3>1, MoveHead
    <3> QED
      BY <1>0, <2>1, <3>2
<1>3. CASE TryFormBatch
  <2>1. /\ batch' \in Seq(Jobs) /\ queue' \in Seq(Jobs) /\ batch' \o queue' = queue
        /\ epc = "form" /\ UNCHANGED <<chan, ran>>
    BY <1>3, FormedParts
  <2>2. batch = <<>> /\ ran \in Seq(Jobs)
    BY <2>1 DEF ExInv
  <2>3. (ran \o batch') \o queue' = ran \o (batch' \o queue')
    BY <2>1, <2>2, Assoc
  <2>4. (ran \o batch') \o queue' = rbq
    BY <1>0, <2>1, <2>2, <2>3
  <2> QED
    BY <2>1, <2>4 DEF Sent
<1>4. CASE RunBatch \/ BatchPanics \/ Flush \/ FlushPanics
  <2>1. ran' = rb /\ batch' = <<>> /\ UNCHANGED <<queue, chan>>
    BY <1>4 DEF RunBatch, BatchPanics, Flush, FlushPanics
  <2>2. rb \o <<>> = rb
    BY <1>0, ConcatEmptySeq
  <2> QED
    BY <2>1, <2>2 DEF Sent
<1>5. CASE CheckClosed
  <2>1. CASE open
    BY <1>5, <2>1 DEF CheckClosed, Sent
  <2>2. CASE ~open
    <3>1. batch' = queue /\ queue' = <<>> /\ epc = "check" /\ UNCHANGED <<ran, chan>>
      BY <1>5, <2>2 DEF CheckClosed
    <3>2. batch = <<>> /\ rb = ran /\ queue \in Seq(Jobs)
      BY <1>0, <3>1 DEF ExInv
    <3>3. (ran \o queue) \o <<>> = ran \o queue
      BY <1>0, <3>2, ConcatEmptySeq
    <3>4. Sent' = ((ran \o queue) \o <<>>) \o chan
      BY <3>1 DEF Sent
    <3> QED
      BY <1>0, <3>2, <3>3, <3>4
  <2> QED
    BY <2>1, <2>2
<1>6. CASE DropSenders \/ Elapse \/ Drained \/ NoBatch \/ Return \/ UNCHANGED exVars
  BY <1>6 DEF DropSenders, Elapse, Drained, NoBatch, Return, exVars, Sent
<1> QED
  BY <1>1, <1>2, <1>3, <1>4, <1>5, <1>6 DEF ExNext, RunAsync

\* Batches, queue and channel, one after the other, only grow at the end, and all that run_async
\* received has been executed when it returns.
THEOREM NothingLostOrOvertaken == ExSpec => ExecutedInOrder
<1>1. ExInit => ExInv
  BY DEF ExInit, ExInv
<1>2. ExInv /\ [ExNext]_exVars =>
        [IsPrefix(Sent, Sent') /\ (epc' = "done" => queue' = <<>> /\ batch' = <<>>)]_exVars
  <2> SUFFICES ASSUME ExInv, [ExNext]_exVars
               PROVE  IsPrefix(Sent, Sent') /\ (epc' = "done" => queue' = <<>> /\ batch' = <<>>)
    OBVIOUS
  <2>1. Sent \in Seq(Jobs)
    BY ConcatProperties DEF ExInv, Sent
  <2>2. IsPrefix(Sent, Sent')
    BY <2>1, SentStep, Prefixes1
  <2>3. ExInv'
    BY ExInvNext
  <2> QED
    BY <2>2, <2>3 DEF ExInv
<1> QED
  BY <1>1, <1>2, ExInvNext, PTL DEF ExSpec, ExecutedInOrder

\* The dynamic scheduler's window runs as long as a request is queued.
THEOREM WindowRuns == ExSpec => []WindowCoversQueue
<1>1. ExInit => WindowCoversQueue
  BY DEF ExInit, WindowCoversQueue
<1>2. WindowCoversQueue /\ [ExNext]_exVars => WindowCoversQueue'
  <2> SUFFICES ASSUME WindowCoversQueue, [ExNext]_exVars PROVE WindowCoversQueue'
    OBVIOUS
  <2>1. CASE Submit
    BY <2>1 DEF WindowCoversQueue, Submit
  <2>2. CASE TryFormBatch
    BY <2>2 DEF WindowCoversQueue, TryFormBatch, Emits
  <2>3. CASE CheckClosed
    BY <2>3 DEF WindowCoversQueue, CheckClosed
  <2>4. CASE Elapse
    BY <2>4 DEF WindowCoversQueue, Elapse
  <2>5. CASE UNCHANGED <<scheduler, queue, window>>
    BY <2>5 DEF WindowCoversQueue
  <2> QED
    BY <2>1, <2>2, <2>3, <2>4, <2>5 DEF ExNext, RunAsync, Send, DropSenders, Drained, NoBatch, RunBatch,
       BatchPanics, Flush, FlushPanics, Return, exVars
<1> QED
  BY <1>1, <1>2, PTL DEF ExSpec

-----------------------------------------------------------------------------
(* Converse. A reply is cut into sentences, spoken piece by piece, and     *)
(* heard: sequences of sequences, flattened.                               *)

Words == Nat \ {0}
Spoken == Seq(Words)
CvAlive == worker \notin {"failed", "panicked"}

CvTypes ==
    /\ cvPc \in {"generate", "drain", "join", "ok", "err"}
    /\ worker \in {"waiting", "speaking", "done", "failed", "panicked"}
    /\ sentOpen \in BOOLEAN
    /\ streamed \in Spoken /\ pending \in Spoken /\ speaking \in Spoken
    /\ sentences \in Seq(Spoken) /\ audio \in Seq(Seq(Nat)) /\ heard \in Seq(Nat)

\* Every word is in one place.
Whole == heard \o FlattenSeq(audio) \o speaking \o FlattenSeq(sentences) \o pending = streamed

\* What is where: nothing is spoken while the worker waits, nothing is left when it is done, and the
\* turn goes past the draining of the audio only when the worker has ended.
Places ==
    /\ sentOpen <=> cvPc = "generate"
    /\ cvPc \in {"drain", "join", "ok"} => pending = <<>>
    /\ worker \in {"waiting", "done"} => speaking = <<>>
    /\ worker = "done" => sentences = <<>> /\ ~sentOpen
    /\ cvPc \in {"join", "ok"} => audio = <<>> /\ WorkerGone
    /\ CvAlive => audio \in Seq(Spoken) /\ cvPc # "err"

CvInv == CvTypes /\ Places /\ (CvAlive => Whole)

LEMMA Flat0 == FlattenSeq(<<>>) = <<>>
  BY FlatIsFromTable

LEMMA SpokenAssoc == \A a, b, c \in Seq(Nat) : (a \o b) \o c = a \o (b \o c)
  BY ConcatAssociative

LEMMA SpokenConcat == \A a, b \in Seq(Nat) : a \o b \in Seq(Nat)
  BY ConcatProperties

LEMMA SpokenEmpty == \A a \in Seq(Nat) : a \o <<>> = a /\ <<>> \o a = a /\ <<>> \in Seq(Nat)
  BY ConcatEmptySeq

LEMMA SpokenIsSeq == Spoken \subseteq Seq(Nat) /\ Seq(Spoken) \subseteq Seq(Seq(Nat))
<1>1. Spoken \subseteq Seq(Nat)
  BY SeqMonotonic DEF Spoken, Words
<1>2. \A s \in Seq(Spoken) : s \in Seq(Seq(Nat))
  BY <1>1, SeqMonotonic
<1> QED
  BY <1>1, <1>2

\* The pieces in a channel together.
LEMMA ChannelFacts ==
    ASSUME NEW s \in Seq(Seq(Nat))
    PROVE  /\ FlattenSeq(s) \in Seq(Nat)
           /\ \A x \in Seq(Nat) : Append(s, x) \in Seq(Seq(Nat)) /\ FlattenSeq(Append(s, x)) = FlattenSeq(s) \o x
           /\ s # <<>> => /\ Head(s) \in Seq(Nat) /\ Tail(s) \in Seq(Seq(Nat))
                          /\ FlattenSeq(s) = Head(s) \o FlattenSeq(Tail(s))
<1>1. FlattenSeq(s) \in Seq(Nat)
  BY FlatIsSeq
<1>2. ASSUME NEW x \in Seq(Nat)
      PROVE  Append(s, x) \in Seq(Seq(Nat)) /\ FlattenSeq(Append(s, x)) = FlattenSeq(s) \o x
  BY FlatOfAppend, AppendProperties
<1>3. ASSUME s # <<>> PROVE FlattenSeq(s) = Head(s) \o FlattenSeq(Tail(s))
  BY <1>3, FlatOfHead
<1>4. ASSUME s # <<>> PROVE Head(s) \in Seq(Nat) /\ Tail(s) \in Seq(Seq(Nat))
  BY <1>4, HeadTailProperties
<1> QED
  BY <1>1, <1>2, <1>3, <1>4

LEMMA CvInvInit == CvInit => CvInv
<1> SUFFICES ASSUME CvInit PROVE CvInv
  OBVIOUS
<1>1. <<>> \in Spoken /\ <<>> \in Seq(Spoken) /\ <<>> \in Seq(Seq(Nat)) /\ <<>> \in Seq(Nat)
  BY EmptySeq DEF Spoken
<1>2. CvTypes /\ Places
  BY <1>1 DEF CvInit, CvTypes, Places, WorkerGone
<1>3. Whole
  BY <1>1, Flat0, SpokenEmpty, Zenon DEF CvInit, Whole
<1> QED
  BY <1>2, <1>3 DEF CvInv

LEMMA TakeSentenceKeepsInv == ASSUME CvInv, TakeSentence PROVE CvInv'
<1>1. /\ sentences \in Seq(Spoken) /\ sentences # <<>> /\ worker = "waiting" /\ speaking = <<>>
      /\ speaking' = Head(sentences) /\ sentences' = Tail(sentences) /\ worker' = "speaking"
      /\ UNCHANGED <<cvPc, streamed, pending, sentOpen, audio, heard>>
  BY DEF TakeSentence, CvInv, CvTypes, Places
<1>2. speaking' \in Spoken /\ sentences' \in Seq(Spoken)
  BY <1>1, HeadTailProperties
<1>3. CvTypes' /\ Places'
  BY <1>1, <1>2 DEF CvInv, CvTypes, Places, CvAlive, WorkerGone
<1>4. Whole'
  <2>1. sentences \in Seq(Seq(Nat)) /\ audio \in Seq(Seq(Nat)) /\ heard \in Seq(Nat)
    BY <1>1, SpokenIsSeq DEF CvInv, CvTypes
  <2> DEFINE x == heard \o FlattenSeq(audio)
             h == Head(sentences)
             t == FlattenSeq(Tail(sentences))
  <2>2. x \in Seq(Nat) /\ h \in Seq(Nat) /\ t \in Seq(Nat) /\ FlattenSeq(sentences) = h \o t
    <3>1. FlattenSeq(audio) \in Seq(Nat)
      BY <2>1, ChannelFacts
    <3>2. h \in Seq(Nat) /\ Tail(sentences) \in Seq(Seq(Nat)) /\ FlattenSeq(sentences) = h \o t
      BY <1>1, <2>1, ChannelFacts
    <3>3. t \in Seq(Nat)
      BY <3>2, ChannelFacts
    <3> QED
      BY <2>1, <3>1, <3>2, <3>3, SpokenConcat
  <2>3. Whole
    BY <1>1 DEF CvInv, CvAlive
  <2>4. ((x \o <<>>) \o (h \o t)) \o pending = streamed
    BY <1>1, <2>2, <2>3 DEF Whole
  <2>5. ((x \o h) \o t) \o pending' = streamed' => Whole'
    BY <1>1 DEF Whole
  <2> HIDE DEF x, h, t
  <2>6. (x \o <<>>) \o (h \o t) = (x \o h) \o t
    <3>1. x \o <<>> = x
      BY <2>2, SpokenEmpty, Zenon
    <3>2. (x \o h) \o t = x \o (h \o t)
      BY <2>2, SpokenAssoc, Zenon
    <3> QED
      BY <3>1, <3>2
  <2> QED
    BY <1>1, <2>4, <2>5, <2>6
<1> QED
  BY <1>3, <1>4 DEF CvInv

LEMMA EmitKeepsInv == ASSUME CvInv, Emit PROVE CvInv'
<1>1. PICK n \in 1 .. Len(speaking) :
         /\ audio' = IF cvPc \in {"ok", "err"} THEN audio ELSE Append(audio, SubSeq(speaking, 1, n))
         /\ speaking' = SubSeq(speaking, n + 1, Len(speaking))
  BY DEF Emit
<1>2. /\ worker = "speaking" /\ UNCHANGED <<cvPc, streamed, pending, sentences, sentOpen, worker, heard>>
      /\ CvTypes /\ Places /\ Whole /\ CvAlive /\ ~WorkerGone
  BY DEF Emit, CvInv, CvAlive, WorkerGone
<1> DEFINE p == SubSeq(speaking, 1, n)
           q == SubSeq(speaking, n + 1, Len(speaking))
<1>3. p \in Spoken /\ q \in Spoken /\ p \o q = speaking
  <2>1. speaking \in Seq(Words)
    BY <1>2 DEF CvTypes, Spoken
  <2> QED
    BY <1>1, <2>1, CutInTwo DEF Spoken
<1>4. cvPc \notin {"ok", "err"} /\ audio' = Append(audio, p) /\ speaking' = q
  BY <1>1, <1>2 DEF Places
<1> HIDE DEF p, q
<1>5. audio \in Seq(Spoken) /\ audio' \in Seq(Spoken)
  BY <1>2, <1>3, <1>4, AppendProperties DEF Places
<1>6. audio' \in Seq(Seq(Nat))
  BY <1>5, SpokenIsSeq
<1>7. CvTypes'
  BY <1>2, <1>3, <1>4, <1>6 DEF CvTypes
<1>8. Places'
  BY <1>2, <1>4, <1>5 DEF Places, CvAlive, WorkerGone
<1>9. Whole'
  <2> DEFINE a == FlattenSeq(audio)
             f == FlattenSeq(sentences)
  <2>1. /\ heard \in Seq(Nat) /\ audio \in Seq(Seq(Nat)) /\ sentences \in Seq(Seq(Nat))
        /\ p \in Seq(Nat) /\ q \in Seq(Nat)
    BY <1>2, <1>3, SpokenIsSeq DEF CvTypes
  <2>2. a \in Seq(Nat) /\ FlattenSeq(audio') = a \o p
    BY <1>4, <2>1, ChannelFacts
  <2>3. (((heard \o a) \o (p \o q)) \o f) \o pending = streamed
    BY <1>2, <1>3 DEF Whole
  <2>4. (((heard \o (a \o p)) \o q) \o f) \o pending = streamed => Whole'
    BY <1>2, <1>4, <2>2 DEF Whole
  <2> HIDE DEF a, f
  <2>5. heard \o (a \o p) = (heard \o a) \o p
    BY <2>1, <2>2, SpokenAssoc, Zenon
  <2>6. ((heard \o a) \o p) \o q = (heard \o a) \o (p \o q)
    <3>1. heard \o a \in Seq(Nat)
      BY <2>1, <2>2, SpokenConcat
    <3> QED
      BY <2>1, <3>1, SpokenAssoc, Zenon
  <2> QED
    BY <2>3, <2>4, <2>5, <2>6
<1> QED
  BY <1>7, <1>8, <1>9 DEF CvInv

LEMMA PlayKeepsInv == ASSUME CvInv, Play PROVE CvInv'
<1>1. /\ cvPc \in {"generate", "drain"} /\ audio # <<>> /\ audio \in Seq(Seq(Nat)) /\ heard \in Seq(Nat)
      /\ heard' = heard \o Head(audio) /\ audio' = Tail(audio)
      /\ UNCHANGED <<cvPc, streamed, pending, sentences, sentOpen, worker, speaking>>
  BY DEF Play, CvInv, CvTypes
<1>2. Head(audio) \in Seq(Nat) /\ audio' \in Seq(Seq(Nat)) /\ FlattenSeq(audio) = Head(audio) \o FlattenSeq(audio')
  BY <1>1, ChannelFacts
<1>3. heard' \in Seq(Nat)
  BY <1>1, <1>2, SpokenConcat
<1>4. CvAlive => audio' \in Seq(Spoken)
  BY <1>1, HeadTailProperties DEF CvInv, Places
<1>5. CvTypes' /\ Places'
  BY <1>1, <1>2, <1>3, <1>4 DEF CvInv, CvTypes, Places, CvAlive, WorkerGone
<1>6. ASSUME Whole PROVE Whole'
  <2>1. FlattenSeq(audio') \in Seq(Nat)
    BY <1>2, ChannelFacts
  <2>2. heard \o FlattenSeq(audio) = heard' \o FlattenSeq(audio')
    <3> DEFINE h == Head(audio)
               t == FlattenSeq(audio')
    <3>1. heard' = heard \o h /\ FlattenSeq(audio) = h \o t /\ h \in Seq(Nat) /\ t \in Seq(Nat) /\ heard \in Seq(Nat)
      BY <1>1, <1>2, <2>1
    <3> HIDE DEF h, t
    <3>2. (heard \o h) \o t = heard \o (h \o t)
      BY <3>1, SpokenAssoc, Zenon
    <3> QED
      BY <3>1, <3>2 DEF t
  <2> QED
    BY <1>1, <1>6, <2>2 DEF Whole
<1> QED
  BY <1>1, <1>5, <1>6 DEF CvInv, CvAlive

\* An instance of associativity, as a name: the provers need not look for the others.
AssocAt(a, b, c) == (a \o b) \o c = a \o (b \o c)

LEMMA AssocIsAt == \A a, b, c \in Seq(Nat) : AssocAt(a, b, c)
  BY SpokenAssoc DEF AssocAt

LEMMA TokenKeepsInv == ASSUME CvInv, Token PROVE CvInv'
<1> DEFINE w == Len(streamed) + 1
           buf == Append(pending, w)
           f == FlattenSeq(sentences)
<1>1. PICK cut \in 0 .. Len(buf) :
         /\ pending' = SubSeq(buf, cut + 1, Len(buf))
         /\ sentences' = IF cut = 0 THEN sentences ELSE Append(sentences, SubSeq(buf, 1, cut))
  BY DEF Token
<1>2. /\ cvPc = "generate" /\ streamed' = Append(streamed, w)
      /\ UNCHANGED <<cvPc, sentOpen, worker, speaking, audio, heard>>
      /\ CvTypes /\ Places
  BY DEF Token, CvInv
<1>3. w \in Words /\ buf \in Seq(Words) /\ streamed' \in Spoken
  BY <1>2, LenProperties, AppendProperties DEF CvTypes, Spoken, Words
<1>4. /\ pending' \in Spoken /\ sentences' \in Seq(Spoken)
      /\ FlattenSeq(sentences') \o pending' = f \o buf
  <2>1. sentences \in Seq(Spoken) /\ sentences \in Seq(Seq(Nat)) /\ f \in Seq(Nat)
    <3>1. sentences \in Seq(Spoken) /\ sentences \in Seq(Seq(Nat))
      BY <1>2, SpokenIsSeq DEF CvTypes
    <3> QED
      BY <3>1, ChannelFacts
  <2> HIDE DEF buf
  <2>2. CASE cut = 0
    <3>1. pending' = buf
      BY <1>1, <1>3, <2>2, SubSeqFull
    <3> QED
      BY <1>1, <1>3, <2>1, <2>2, <3>1 DEF Spoken
  <2>3. CASE cut # 0
    <3> DEFINE a == SubSeq(buf, 1, cut)
               b == SubSeq(buf, cut + 1, Len(buf))
    <3>1. cut \in 1 .. Len(buf)
      BY <1>1, <2>3
    <3>2. a \in Seq(Words) /\ b \in Seq(Words) /\ a \o b = buf
      BY <1>3, <3>1, CutInTwo
    <3>3. pending' = b /\ sentences' = Append(sentences, a)
      BY <1>1, <2>3
    <3> HIDE DEF a, b
    <3>4. a \in Seq(Nat) /\ b \in Seq(Nat)
      BY <3>2, SpokenIsSeq DEF Spoken
    <3>5. sentences' \in Seq(Spoken)
      BY <2>1, <3>2, <3>3, AppendProperties DEF Spoken
    <3>6. FlattenSeq(sentences') = f \o a
      BY <2>1, <3>3, <3>4, ChannelFacts
    <3>7. (f \o a) \o b = f \o (a \o b)
      <4> HIDE DEF f
      <4> QED
        BY <2>1, <3>4, SpokenAssoc, Zenon
    <3> QED
      BY <3>2, <3>3, <3>5, <3>6, <3>7 DEF Spoken
  <2> QED
    BY <2>2, <2>3
<1>5. CvTypes' /\ Places'
  <2>1. worker # "done"
    BY <1>2 DEF Places
  <2> QED
    BY <1>2, <1>3, <1>4, <2>1 DEF CvTypes, Places, CvAlive, WorkerGone
<1>6. ASSUME Whole PROVE Whole'
  <2> DEFINE x == (heard \o FlattenSeq(audio)) \o speaking
             g == FlattenSeq(sentences')
  <2>1. x \in Seq(Nat) /\ f \in Seq(Nat) /\ g \in Seq(Nat) /\ pending \in Seq(Nat) /\ pending' \in Seq(Nat)
        /\ streamed \in Seq(Nat)
    <3>1. /\ audio \in Seq(Seq(Nat)) /\ sentences \in Seq(Seq(Nat)) /\ sentences' \in Seq(Seq(Nat))
          /\ heard \in Seq(Nat) /\ speaking \in Seq(Nat) /\ pending \in Seq(Nat) /\ pending' \in Seq(Nat)
          /\ streamed \in Seq(Nat)
      BY <1>2, <1>4, SpokenIsSeq DEF CvTypes
    <3>2. FlattenSeq(audio) \in Seq(Nat) /\ f \in Seq(Nat) /\ g \in Seq(Nat)
      BY <3>1, ChannelFacts
    <3> QED
      BY <3>1, <3>2, SpokenConcat
  <2>2. <<w>> \in Seq(Nat) /\ buf = pending \o <<w>> /\ streamed' = streamed \o <<w>>
    <3>1. pending \in Seq(Words) /\ streamed \in Seq(Words)
      BY <1>2 DEF CvTypes, Spoken
    <3> HIDE DEF w
    <3> QED
      BY <1>2, <1>3, <3>1, AppendIsConcat, SMTT(30) DEF Words
  <2>3. (x \o f) \o pending = streamed
    BY <1>6 DEF Whole
  <2>4. (x \o g) \o pending' = streamed' => Whole'
    BY <1>2 DEF Whole
  <2>5. g \o pending' = f \o buf
    BY <1>4
  <2> HIDE DEF x, f, g, w, buf
  <2> DEFINE v == <<w>>
  <2>6. v \in Seq(Nat) /\ buf = pending \o v /\ streamed' = streamed \o v
    BY <2>2
  <2> HIDE DEF v
  <2>7. (x \o g) \o pending' = ((x \o f) \o pending) \o v
    <3>1. AssocAt(x, g, pending') /\ AssocAt(x, f, pending \o v) /\ AssocAt(x \o f, pending, v)
      <4>1. pending \o v \in Seq(Nat) /\ x \o f \in Seq(Nat)
        BY <2>1, <2>6, SpokenConcat
      <4> QED
        BY <2>1, <2>6, <4>1, AssocIsAt
    <3>2. g \o pending' = f \o (pending \o v)
      BY <2>5, <2>6
    <3> QED
      BY <3>1, <3>2 DEF AssocAt
  <2> QED
    BY <2>3, <2>4, <2>6, <2>7
<1> QED
  BY <1>2, <1>5, <1>6 DEF CvInv, CvAlive

LEMMA StreamEndsKeepsInv == ASSUME CvInv, StreamEnds PROVE CvInv'
<1>1. /\ cvPc = "generate" /\ cvPc' = "drain" /\ sentOpen' = FALSE /\ sentences' = Flushed /\ pending' = <<>>
      /\ UNCHANGED <<streamed, worker, speaking, audio, heard>> /\ CvTypes /\ Places
  BY DEF StreamEnds, CvInv
<1>2. worker # "done"
  BY <1>1 DEF Places
<1>3. <<>> \in Spoken /\ <<>> \in Seq(Nat)
  BY EmptySeq DEF Spoken
<1>4. /\ sentences \in Seq(Spoken) /\ sentences \in Seq(Seq(Nat)) /\ pending \in Spoken /\ pending \in Seq(Nat)
      /\ audio \in Seq(Seq(Nat)) /\ heard \in Seq(Nat) /\ speaking \in Seq(Nat)
  BY <1>1, SpokenIsSeq DEF CvTypes
<1>5. FlattenSeq(sentences) \in Seq(Nat) /\ FlattenSeq(audio) \in Seq(Nat)
  BY <1>4, ChannelFacts
<1>6. sentences' \in Seq(Spoken) /\ FlattenSeq(sentences') = FlattenSeq(sentences) \o pending
  <2>1. CASE pending = <<>>
    <3>1. FlattenSeq(sentences) \o <<>> = FlattenSeq(sentences)
      BY <1>5, SpokenEmpty, Zenon
    <3> QED
      BY <1>1, <1>4, <2>1, <3>1 DEF Flushed
  <2>2. CASE pending # <<>>
    <3>1. sentences' = Append(sentences, pending)
      BY <1>1, <2>2 DEF Flushed
    <3> QED
      BY <1>4, <3>1, AppendProperties, ChannelFacts
  <2> QED
    BY <2>1, <2>2
<1>7. CvTypes' /\ Places'
  BY <1>1, <1>2, <1>3, <1>6 DEF CvTypes, Places, CvAlive, WorkerGone
<1>8. ASSUME Whole PROVE Whole'
  <2> DEFINE x == (heard \o FlattenSeq(audio)) \o speaking
             f == FlattenSeq(sentences)
  <2>1. x \in Seq(Nat) /\ f \in Seq(Nat)
    BY <1>4, <1>5, SpokenConcat
  <2>2. (x \o f) \o pending = streamed
    BY <1>8 DEF Whole
  <2>3. (x \o (f \o pending)) \o <<>> = streamed => Whole'
    BY <1>1, <1>6 DEF Whole
  <2> HIDE DEF x, f
  <2>4. f \o pending \in Seq(Nat)
    BY <1>4, <2>1, SpokenConcat
  <2>5. x \o (f \o pending) \in Seq(Nat)
    BY <2>1, <2>4, SpokenConcat
  <2>6. (x \o (f \o pending)) \o <<>> = x \o (f \o pending)
    BY <2>5, SpokenEmpty, Zenon
  <2>7. x \o (f \o pending) = (x \o f) \o pending
    BY <1>4, <2>1, SpokenAssoc, ZenonT(40)
  <2> QED
    BY <2>2, <2>3, <2>6, <2>7
<1> QED
  BY <1>1, <1>7, <1>8 DEF CvInv, CvAlive

\* Steps that move no word.
LEMMA OthersKeepInv ==
    ASSUME CvInv, \/ NoMoreSentences \/ SentenceSpoken \/ SynthesisFails \/ SynthesisPanics \/ Fail
                  \/ AudioDrained \/ Join \/ UNCHANGED cvVars
    PROVE  CvInv'
<1>1. CASE NoMoreSentences
  BY <1>1 DEF CvInv, CvTypes, Places, Whole, CvAlive, WorkerGone, NoMoreSentences
<1>2. CASE SentenceSpoken
  BY <1>2 DEF CvInv, CvTypes, Places, Whole, CvAlive, WorkerGone, SentenceSpoken
<1>3. CASE SynthesisFails
  <2>1. ErrorMark \in Seq(Nat)
    BY DEF ErrorMark
  <2>2. audio' \in Seq(Seq(Nat))
    BY <1>3, <2>1, AppendProperties DEF CvInv, CvTypes, SynthesisFails
  <2> QED
    BY <1>3, <2>2 DEF CvInv, CvTypes, Places, CvAlive, WorkerGone, SynthesisFails
<1>4. CASE SynthesisPanics
  BY <1>4 DEF CvInv, CvTypes, Places, CvAlive, WorkerGone, SynthesisPanics
<1>5. CASE Fail
  <2>1. audio # <<>> /\ Head(audio) = <<0>>
    BY <1>5 DEF Fail, ErrorMark
  <2>2. ~CvAlive
    <3>1. ASSUME CvAlive PROVE FALSE
      <4>1. Head(audio) \in Spoken
        BY <2>1, <3>1, HeadTailProperties DEF CvInv, Places
      <4>2. <<0>> \in Seq(Words)
        BY <2>1, <4>1 DEF Spoken
      <4>3. 0 \in Words
        BY <4>2, ElementOfSeq
      <4> QED
        BY <4>3 DEF Words
    <3> QED
      BY <3>1
  <2> QED
    BY <1>5, <2>2 DEF CvInv, CvTypes, Places, CvAlive, WorkerGone, Fail
<1>6. CASE AudioDrained
  BY <1>6 DEF CvInv, CvTypes, Places, Whole, CvAlive, WorkerGone, AudioDrained
<1>7. CASE Join
  BY <1>7 DEF CvInv, CvTypes, Places, Whole, CvAlive, WorkerGone, Join
<1>8. CASE UNCHANGED cvVars
  BY <1>8 DEF CvInv, CvTypes, Places, Whole, CvAlive, WorkerGone, cvVars
<1> QED
  BY <1>1, <1>2, <1>3, <1>4, <1>5, <1>6, <1>7, <1>8

\* When a turn has ended well, the words that were streamed are the ones that were heard.
LEMMA InvSpeaks == CvInv => WordsInOrder
<1> SUFFICES ASSUME CvInv PROVE WordsInOrder
  OBVIOUS
<1>1. CvAlive => Whole
  BY DEF CvInv
<1>2. ASSUME cvPc = "ok", worker = "done" PROVE heard = streamed
  <2>1. audio = <<>> /\ speaking = <<>> /\ sentences = <<>> /\ pending = <<>> /\ heard \in Seq(Nat)
    BY <1>2 DEF CvInv, Places, CvTypes
  <2>2. (((heard \o <<>>) \o <<>>) \o <<>>) \o <<>> = streamed
    BY <1>1, <1>2, <2>1, Flat0 DEF Whole, CvAlive
  <2> QED
    BY <2>1, <2>2, SpokenEmpty, Zenon
<1> QED
  BY <1>1, <1>2 DEF WordsInOrder, Whole, CvAlive

\* However long the reply, wherever it is cut, and however the model, the synthesizer and the
\* playback take turns: no word is lost, repeated or overtaken on its way to the listener.
THEOREM WordsAreHeardInOrder == CvSpec => []WordsInOrder
<1>1. CvInv /\ [CvNext]_cvVars => CvInv'
  <2> SUFFICES ASSUME CvInv, [CvNext]_cvVars PROVE CvInv'
    OBVIOUS
  <2> QED
    BY TakeSentenceKeepsInv, EmitKeepsInv, PlayKeepsInv, TokenKeepsInv, StreamEndsKeepsInv, OthersKeepInv
       DEF CvNext, WorkerStep, CvStep
<1> QED
  BY <1>1, CvInvInit, InvSpeaks, PTL DEF CvSpec

\* The chunker is a function of bounded texts that TLC evaluates; given that, SpeaksTheReply.
THEOREM RepliesAreSpoken == ASSUME ChunksAreTheText PROVE CvSpec => []SpeaksTheReply
<1>1. WordsInOrder => SpeaksTheReply
  BY DEF SpeaksTheReply
<1> QED
  BY <1>1, WordsAreHeardInOrder, PTL

-----------------------------------------------------------------------------
(* ChatSession. A history is whole turns, for any number of turns,         *)
(* whichever of them fail.                                                 *)

TurnSteps == {"idle", "asked", "generating", "replied", "committed", "failed"}
Messages == {<<"system">>} \cup ({"user", "assistant"} \X Turns)
Committed == {t \in Turns : turnPc[t] = "committed"}

CsTypes ==
    /\ history \in Seq(Messages) /\ history # <<>>
    /\ turnPc \in [Turns -> TurnSteps]
    /\ begun \in [Turns -> Nat] /\ resets \in Nat
    /\ \A t \in Turns : begun[t] <= resets

\* A turn is in the history with its reply behind it.
Answered(t) ==
    \E i \in DOMAIN history :
        history[i] = <<"user", t>> /\ i < Len(history) /\ history[i + 1] = <<"assistant", t>>

CsInv ==
    /\ CsTypes
    /\ history[1] = <<"system">>
    /\ IsFiniteSet(InHistory) /\ Len(history) = 1 + 2 * Cardinality(InHistory)
    /\ \A t \in InHistory : Answered(t)
    /\ InHistory \subseteq Committed
    /\ \A t \in Committed : begun[t] = resets => t \in InHistory

LEMMA SeededHistory ==
  ASSUME history = Seeded
  PROVE  /\ history \in Seq(Messages) /\ history # <<>> /\ Len(history) = 1
         /\ history[1] = <<"system">> /\ InHistory = {}
<1>1. /\ history \in Seq(Messages) /\ history # <<>> /\ Len(history) = 1 /\ history[1] = <<"system">>
  BY DEF Seeded, Messages
<1>2. ASSUME NEW t \in Turns PROVE <<"system">> # <<"user", t>>
  OBVIOUS
<1> QED
  BY <1>1, <1>2 DEF InHistory

LEMMA CsInvInit == CsInit => CsInv
<1> SUFFICES ASSUME CsInit PROVE CsInv
  OBVIOUS
<1>1. /\ history \in Seq(Messages) /\ history # <<>> /\ Len(history) = 1
      /\ history[1] = <<"system">> /\ InHistory = {}
  BY SeededHistory DEF CsInit
<1>2. IsFiniteSet(InHistory) /\ Cardinality(InHistory) = 0
  BY <1>1, FS_EmptySet
<1>3. CsTypes /\ Committed = {}
  BY <1>1 DEF CsInit, CsTypes, TurnSteps, Committed
<1> QED
  BY <1>1, <1>2, <1>3 DEF CsInv

\* Everything but a commit and a reset leaves the history alone and commits nobody.
LEMMA HistoryUntouched ==
  ASSUME CsInv, history' = history, resets' = resets,
         turnPc' \in [Turns -> TurnSteps], begun' \in [Turns -> Nat],
         \A t \in Turns : begun'[t] <= resets,
         \A t \in Turns : turnPc[t] = "committed" <=> turnPc'[t] = "committed",
         \A t \in Turns : turnPc[t] = "committed" => begun'[t] = begun[t]
  PROVE  CsInv'
<1>1. InHistory' = InHistory /\ Committed' = Committed
  BY DEF InHistory, Committed
<1>2. \A t \in InHistory : Answered(t)' <=> Answered(t)
  BY DEF Answered
<1>3. CsTypes'
  BY DEF CsInv, CsTypes
<1>4. \A t \in Committed : begun'[t] = begun[t]
  BY DEF Committed
<1> QED
  BY <1>1, <1>2, <1>3, <1>4 DEF CsInv

LEMMA CommitKeepsInv == ASSUME CsInv, NEW t \in Turns, CommitTurn(t) PROVE CsInv'
<1> DEFINE pair == <<<<"user", t>>, <<"assistant", t>>>>
           n == Len(history)
<1>1. /\ history \in Seq(Messages) /\ pair \in Seq(Messages) /\ n \in Nat /\ n >= 1
  BY DEF CsInv, CsTypes, Messages
<1>2. /\ history' = history \o pair /\ history' \in Seq(Messages) /\ Len(history') = n + 2
      /\ \A i \in 1 .. n : history'[i] = history[i]
      /\ history'[n + 1] = <<"user", t>> /\ history'[n + 2] = <<"assistant", t>>
      /\ DOMAIN history' = 1 .. n + 2 /\ DOMAIN history = 1 .. n
  BY <1>1 DEF CommitTurn
<1>3. turnPc' = [turnPc EXCEPT ![t] = "committed"] /\ turnPc[t] = "replied"
  BY DEF CommitTurn, SetTurn
<1>4. Committed' = Committed \cup {t} /\ t \notin Committed
  BY <1>3 DEF Committed, CsInv, CsTypes
<1>5. ASSUME NEW u \in Turns PROVE <<"user", u>> # <<"assistant", t>>
  OBVIOUS
<1>6. ASSUME NEW u \in Turns PROVE <<"user", u>> = <<"user", t>> => u = t
  OBVIOUS
<1>7. InHistory' = InHistory \cup {t}
  <2>1. ASSUME NEW u \in InHistory' PROVE u \in InHistory \cup {t}
    <3>1. PICK i \in 1 .. n + 2 : history'[i] = <<"user", u>>
      BY <1>2, <2>1 DEF InHistory
    <3>2. u \in Turns
      BY <2>1 DEF InHistory
    <3>3. CASE i \in 1 .. n
      BY <1>2, <3>1, <3>2, <3>3 DEF InHistory
    <3>4. CASE i = n + 1
      BY <1>2, <1>6, <3>1, <3>2, <3>4
    <3>5. CASE i = n + 2
      BY <1>2, <1>5, <3>1, <3>2, <3>5
    <3> QED
      BY <1>1, <3>3, <3>4, <3>5
  <2>2. ASSUME NEW u \in InHistory PROVE u \in InHistory'
    <3>1. PICK i \in 1 .. n : history[i] = <<"user", u>>
      BY <1>2, <2>2 DEF InHistory
    <3>2. i \in DOMAIN history' /\ history'[i] = <<"user", u>>
      BY <1>1, <1>2, <3>1
    <3> QED
      BY <2>2, <3>2 DEF InHistory
  <2>3. t \in InHistory'
    <3>1. n + 1 \in DOMAIN history'
      BY <1>1, <1>2
    <3> QED
      BY <1>2, <3>1 DEF InHistory
  <2> QED
    BY <2>1, <2>2, <2>3
<1>8. t \notin InHistory
  BY <1>4 DEF CsInv
<1>9. IsFiniteSet(InHistory') /\ Cardinality(InHistory') = Cardinality(InHistory) + 1
  BY <1>7, <1>8, FS_AddElement DEF CsInv
<1>10. Cardinality(InHistory) \in Nat
  BY FS_CardinalityType DEF CsInv
<1>11. ASSUME NEW u \in InHistory' PROVE Answered(u)'
  <2>1. CASE u = t
    <3>1. n + 1 \in DOMAIN history' /\ n + 1 < Len(history') /\ (n + 1) + 1 = n + 2
      BY <1>1, <1>2
    <3> QED
      BY <1>2, <2>1, <3>1 DEF Answered
  <2>2. CASE u \in InHistory
    <3>1. PICK i \in 1 .. n : /\ history[i] = <<"user", u>> /\ i < n
                             /\ history[i + 1] = <<"assistant", u>>
      BY <1>2, <2>2 DEF CsInv, Answered
    <3>2. i + 1 \in 1 .. n /\ i \in DOMAIN history' /\ i < Len(history')
      BY <1>1, <1>2, <3>1
    <3> QED
      BY <1>2, <3>1, <3>2 DEF Answered
  <2> QED
    BY <1>7, <2>1, <2>2
<1>12. CsTypes'
  BY <1>2, <1>1, <1>3 DEF CsInv, CsTypes, CommitTurn, TurnSteps
<1>13. history'[1] = <<"system">>
  BY <1>1, <1>2 DEF CsInv
<1>14. \A u \in Committed' : begun'[u] = resets' => u \in InHistory'
  BY <1>4, <1>7 DEF CsInv, CommitTurn
<1>15. Len(history') = 1 + 2 * Cardinality(InHistory')
  BY <1>2, <1>9, <1>10 DEF CsInv
<1> QED
  BY <1>4, <1>7, <1>9, <1>11, <1>12, <1>13, <1>14, <1>15 DEF CsInv

LEMMA ResetKeepsInv == ASSUME CsInv, ResetHistory PROVE CsInv'
<1>1. /\ history' \in Seq(Messages) /\ history' # <<>> /\ Len(history') = 1
      /\ history'[1] = <<"system">> /\ InHistory' = {}
  <2>1. (history = Seeded)'
    BY DEF ResetHistory, Seeded
  <2>2. <<"system">> \in Messages
    BY DEF Messages
  <2>3. ASSUME NEW t \in Turns PROVE <<"system">> # <<"user", t>>
    OBVIOUS
  <2>4. /\ history' = <<<<"system">>>> /\ DOMAIN history' = {1} /\ history'[1] = <<"system">>
    BY <2>1 DEF Seeded
  <2> QED
    BY <2>2, <2>3, <2>4 DEF InHistory
<1>2. IsFiniteSet(InHistory') /\ Cardinality(InHistory') = 0
  BY <1>1, FS_EmptySet
<1>3. CsTypes'
  BY <1>1 DEF ResetHistory, CsInv, CsTypes
<1>4. \A t \in Turns : begun'[t] # resets'
  BY DEF ResetHistory, CsInv, CsTypes
<1>5. Committed' \subseteq Turns
  BY DEF Committed
<1> QED
  BY <1>1, <1>2, <1>3, <1>4, <1>5 DEF CsInv

LEMMA CsInvNext == CsInv /\ [CsNext]_csVars => CsInv'
<1> SUFFICES ASSUME CsInv, [CsNext]_csVars PROVE CsInv'
  OBVIOUS
<1>0. CsTypes
  BY DEF CsInv
<1>1. ASSUME NEW t \in Turns,
             AskTurn(t) \/ LockEngine(t) \/ Replied(t) \/ CancelTurn(t) \/ EngineStops(t) \/ ChatFails(t)
      PROVE  CsInv'
  <2>1. /\ history' = history /\ resets' = resets
        /\ turnPc' \in [Turns -> TurnSteps]
        /\ \A u \in Turns : turnPc[u] = "committed" <=> turnPc'[u] = "committed"
    BY <1>0, <1>1 DEF AskTurn, LockEngine, Replied, CancelTurn, EngineStops, ChatFails, SetTurn, CsTypes,
       TurnSteps
  <2>2. /\ begun' \in [Turns -> Nat]
        /\ \A u \in Turns : begun'[u] <= resets
        /\ \A u \in Turns : turnPc[u] = "committed" => begun'[u] = begun[u]
    BY <1>0, <1>1 DEF AskTurn, LockEngine, Replied, CancelTurn, EngineStops, ChatFails, CsTypes
  <2> QED
    BY <2>1, <2>2, HistoryUntouched
<1>2. CASE ResetEngine \/ UNCHANGED csVars
  BY <1>0, <1>2, HistoryUntouched DEF ResetEngine, csVars, CsTypes
<1> QED
  BY <1>1, <1>2, CommitKeepsInv, ResetKeepsInv DEF CsNext

LEMMA CsInvIsEnough == CsInv => HistoryOfWholeTurns
<1> SUFFICES ASSUME CsInv PROVE HistoryOfWholeTurns
  OBVIOUS
<1>1. Head(history) = <<"system">>
  BY DEF CsInv, CsTypes
<1>2. {t \in Turns : turnPc[t] = "committed" /\ begun[t] = resets} \subseteq InHistory
  BY DEF CsInv, Committed
<1> QED
  BY <1>1, <1>2 DEF CsInv, HistoryOfWholeTurns, Committed, Answered

\* Whatever number of turns and resets, and in whatever order they overlap, the history is the
\* system prompt and whole turns.
\* The history the next prompt is built from is the seed and whole turns, each in it once and with
\* its reply, whichever turns fail and whenever the session is reset (LlmSession::commit_turn).
THEOREM HistoriesAreWholeTurns == CsSpec => []HistoryOfWholeTurns
  BY CsInvInit, CsInvNext, CsInvIsEnough, PTL DEF CsSpec

-----------------------------------------------------------------------------
(* ServeLock. The pidfile admits one server at a time, for any number of   *)
(* processes that start, end and crash, as long as none checks it while    *)
(* another is between its check and its write.                             *)

ServerStates == {"new", "checked", "serving", "refused", "exited"}

PastTheCheck == {s \in Servers : server[s] \in {"checked", "serving"}}

\* At most one process has passed the check and not ended; once it serves, the file is its own.
LockInv ==
    /\ pidfile \in Servers \cup {NoServer}
    /\ server \in [Servers -> ServerStates]
    /\ overlap \in BOOLEAN
    /\ ~overlap => /\ \A s, t \in PastTheCheck : s = t
                   /\ \A s \in Serving : pidfile = s

LEMMA LockInvNext == LockInv /\ [LockNext]_lockVars => LockInv'
<1> SUFFICES ASSUME LockInv, [LockNext]_lockVars PROVE LockInv'
  OBVIOUS
<1> USE LockAssumption
<1>1. CASE UNCHANGED lockVars
  BY <1>1 DEF lockVars, LockInv, PastTheCheck, Serving
<1>2. ASSUME NEW s \in Servers, CheckLock(s)
      PROVE  LockInv'
  <2>1. /\ server[s] = "new" /\ ~PidAlive(pidfile)
        /\ server' = [server EXCEPT ![s] = "checked"]
        /\ overlap' = (overlap \/ \E o \in Servers : server[o] = "checked")
        /\ pidfile' = pidfile
    BY <1>2 DEF CheckLock, SetServer
  <2>2. ASSUME ~overlap'
        PROVE  PastTheCheck = {}
    <3>1. ~overlap /\ \A o \in Servers : server[o] # "checked"
      BY <2>1, <2>2
    <3>2. \A t \in Serving : pidfile = t
      BY <3>1 DEF LockInv
    <3>3. Serving = {}
      BY <3>2, <2>1 DEF Serving, PidAlive
    <3> QED
      BY <3>1, <3>3 DEF PastTheCheck, Serving
  <2>3. /\ server' \in [Servers -> ServerStates] /\ overlap' \in BOOLEAN
        /\ pidfile' \in Servers \cup {NoServer}
    BY <2>1 DEF LockInv, ServerStates
  <2>4. ASSUME ~overlap'
        PROVE  PastTheCheck' \subseteq {s} /\ Serving' = {}
    BY <2>1, <2>2, <2>4 DEF LockInv, PastTheCheck, Serving
  <2> QED
    BY <2>3, <2>4 DEF LockInv
<1>3. ASSUME NEW s \in Servers, Refused(s)
      PROVE  LockInv'
  BY <1>3 DEF Refused, SetServer, LockInv, PastTheCheck, Serving, ServerStates
<1>4. ASSUME NEW s \in Servers, WriteLock(s)
      PROVE  LockInv'
  BY <1>4 DEF WriteLock, SetServer, LockInv, PastTheCheck, Serving, ServerStates
<1>5. ASSUME NEW s \in Servers, ExitServer(s)
      PROVE  LockInv'
  BY <1>5 DEF ExitServer, SetServer, LockInv, PastTheCheck, Serving, ServerStates
<1>6. ASSUME NEW s \in Servers, Crash(s)
      PROVE  LockInv'
  BY <1>6 DEF Crash, PidAlive, SetServer, LockInv, PastTheCheck, Serving, ServerStates
<1> QED
  BY <1>1, <1>2, <1>3, <1>4, <1>5, <1>6 DEF LockNext

\* One server at a time, whatever sequence of starts, refusals, exits and crashes.
THEOREM OneServerAtATime == LockSpec => []OneServer
<1>1. LockInit => LockInv
  BY LockAssumption DEF LockInit, LockInv, PastTheCheck, Serving, ServerStates
<1>2. LockInv => OneServer
  BY DEF LockInv, PastTheCheck, Serving, OneServer
<1> QED
  BY <1>1, <1>2, LockInvNext, PTL DEF LockSpec

-----------------------------------------------------------------------------
(* SelfUpdate. What an update leaves behind is whole, wherever it is cut   *)
(* short.                                                                  *)

Variants == {"Cpu", "Metal", "Gpu"}
Builds == [ver : 0 .. Latest, variant : Variants, whole : BOOLEAN]
UpdateSteps == Ended \cup Installing \cup {"download", "clear", "stage"}

UpType == [pc : UpdateSteps, target : Variants, got : Builds, sound : BOOLEAN]

UpTypes ==
    /\ machine \in Machines
    /\ exe \in Builds /\ backup \in Builds /\ staged \in Builds
    /\ lib \in 0 .. Latest
    /\ up \in UpType
    /\ halted \in BOOLEAN

\* What the archive holds: the binary asked for, whole if the archive arrived sound.
Downloaded == [ver |-> Latest, variant |-> up.target, whole |-> up.sound]

\* Up to the step that overwrites it the installed binary runs; while the new one is copied over
\* it on Windows, the backup does; and afterwards the new one does, if the archive was sound.
Runs ==
    /\ up.pc \in {"idle", "download", "clear", "stage", "install", "rename", "backup"} => exe.whole
    /\ up.pc = "copy" => backup.whole
    /\ up.sound => (exe.whole \/ (machine.os = "windows" /\ backup.whole))

\* The new binary is handed from the archive to the staging directory and on to its place.
HandedOn ==
    /\ up.pc \in {"clear", "stage"} => up.got = Downloaded
    /\ up.pc \in {"install", "backup", "copy"} => staged = Downloaded
    /\ up.pc = "rename" => up.got = Downloaded /\ machine.os # "windows"
    /\ up.pc \in {"backup", "copy"} => machine.os = "windows"
    /\ up.pc \in {"library", "updated"} => exe = Downloaded

\* The library is of the installed binary's version, except between replacing the two.
LibraryFollows ==
    /\ up.pc \notin {"copy", "library"} /\ exe.variant = "Metal" /\ ~halted => lib = exe.ver
    /\ up.pc = "updated" /\ up.target = "Metal" => lib = Latest
    /\ up.pc = "current" => exe.ver = Latest
    /\ up.pc = "copy" => exe = Nothing

UpInv == UpTypes /\ Runs /\ HandedOn /\ LibraryFollows

LEMMA NothingIsABuild == Nothing \in Builds /\ NoUpdate \in UpType
  BY DEF Nothing, Builds, Variants, Latest, NoUpdate, UpType, UpdateSteps, Ended

\* A step of an update that changes its place only.
LEMMA MovesOn ==
  ASSUME up \in UpType, NEW to \in UpdateSteps
  PROVE  LET next == [up EXCEPT !.pc = to]
         IN  /\ next \in UpType /\ next.pc = to
             /\ next.target = up.target /\ next.got = up.got /\ next.sound = up.sound
  BY DEF UpType

\* A step that also takes or hands on a binary.
LEMMA MovesOnWith ==
  ASSUME up \in UpType, NEW to \in UpdateSteps, NEW binary \in Builds
  PROVE  LET next == [up EXCEPT !.pc = to, !.got = binary]
         IN  /\ next \in UpType /\ next.pc = to
             /\ next.target = up.target /\ next.got = binary /\ next.sound = up.sound
  BY DEF UpType

LEMMA UpInvInit == UpInit => UpInv
<1> SUFFICES ASSUME UpInit PROVE UpInv
  OBVIOUS
<1>1. Installable \subseteq Variants
  BY DEF Installable, AvailableAccel, Variants
<1>2. PICK v \in 1 .. Latest, k \in Installable : exe = Binary(v, k)
  BY DEF UpInit
<1>3. /\ exe \in Builds /\ exe.whole /\ exe.variant = k /\ exe.ver = v
  BY <1>1, <1>2 DEF Binary, Builds, Latest
<1>4. lib \in 0 .. Latest /\ (exe.variant = "Metal" => lib = exe.ver)
  BY <1>3 DEF UpInit, Latest
<1>5. UpTypes
  <2>1. machine \in Machines /\ backup \in Builds /\ staged \in Builds /\ up \in UpType
    BY NothingIsABuild DEF UpInit
  <2>2. halted \in BOOLEAN
    BY DEF UpInit
  <2> QED
    BY <1>3, <1>4, <2>1, <2>2 DEF UpTypes
<1>6. up.pc = "idle"
  BY DEF UpInit, NoUpdate
<1>7. Runs /\ HandedOn /\ LibraryFollows
  BY <1>3, <1>4, <1>6 DEF Runs, HandedOn, LibraryFollows
<1> QED
  BY <1>5, <1>7 DEF UpInv

LEMMA RunUpdateKeepsInv ==
  ASSUME UpInv, NEW explicit \in {"none", "Cpu", "Metal", "Gpu"}, NEW force \in BOOLEAN,
         RunUpdate(explicit, force)
  PROVE  UpInv'
<1> USE DEF UpInv
<1>1. ASSUME NEW step \in {"download", "current", "error"}, up' \in UpType, up'.pc = step,
             step = "current" => exe.ver = Latest
      PROVE  UpInv'
  <2>1. UpTypes'
    BY <1>1 DEF RunUpdate, UpTypes
  <2>2. exe.whole /\ up.pc \notin {"copy", "library"}
    BY DEF RunUpdate, Ended
  <2> QED
    BY <2>1, <2>2, <1>1 DEF RunUpdate, Runs, HandedOn, LibraryFollows
<1>2. CASE up' = [NoUpdate EXCEPT !.pc = "error"]
  <2>1. up' \in UpType /\ up'.pc = "error"
    BY <1>2, NothingIsABuild DEF UpType, UpdateSteps, Ended
  <2> QED
    BY <1>1, <2>1
<1>3. ASSUME NEW to \in ResolveVariant(explicit),
             up' = [NoUpdate EXCEPT !.pc = IF force \/ to # exe.variant \/ exe.ver < Latest
                                           THEN "download" ELSE "current", !.target = to]
      PROVE  UpInv'
  <2>1. to \in Variants
    BY <1>3 DEF ResolveVariant, Installable, AvailableAccel, Variants, UpTypes, Builds
  <2>2. ~(exe.ver < Latest) => exe.ver = Latest
    BY DEF UpTypes, Builds, Latest
  <2>3. PICK step \in {"download", "current"} :
            /\ up' = [NoUpdate EXCEPT !.pc = step, !.target = to]
            /\ step = "current" => ~(exe.ver < Latest)
    BY <1>3
  <2>4. up' \in UpType /\ up'.pc = step
    BY <2>1, <2>3, NothingIsABuild DEF UpType, UpdateSteps, Ended
  <2> QED
    BY <1>1, <2>2, <2>3, <2>4
<1> QED
  BY <1>2, <1>3 DEF RunUpdate

LEMMA FetchKeepsInv == ASSUME UpInv, Fetch PROVE UpInv'
<1> USE DEF UpInv
<1>1. CASE up' = [up EXCEPT !.pc = "error"]
  <2>1. up \in UpType /\ "error" \in UpdateSteps
    BY DEF UpTypes, UpType, UpdateSteps, Ended
  <2>2. /\ up' \in UpType /\ up'.pc = "error"
        /\ up'.target = up.target /\ up'.got = up.got /\ up'.sound = up.sound
    BY <1>1, <2>1, MovesOn
  <2> QED
    BY <2>2 DEF Fetch, UpTypes, UpType, Runs, HandedOn, LibraryFollows
<1>2. ASSUME NEW intact \in BOOLEAN,
             up' = [up EXCEPT !.pc = "clear", !.sound = intact,
                              !.got = [Binary(Latest, up.target) EXCEPT !.whole = intact]]
      PROVE  UpInv'
  <2>1. [Binary(Latest, up.target) EXCEPT !.whole = intact]
            = [ver |-> Latest, variant |-> up.target, whole |-> intact]
    BY DEF Binary
  <2>2. [ver |-> Latest, variant |-> up.target, whole |-> intact] \in Builds
    BY DEF Builds, UpTypes, UpType, Latest
  <2>3. "clear" \in UpdateSteps
    BY DEF UpdateSteps
  <2>4. /\ up' \in UpType /\ up'.pc = "clear" /\ up'.target = up.target /\ up'.sound = intact
        /\ up'.got = [ver |-> Latest, variant |-> up.target, whole |-> intact]
    BY <1>2, <2>1, <2>2, <2>3 DEF UpTypes, UpType
  <2>5. up'.got = Downloaded'
    BY <2>4 DEF Downloaded, Latest
  <2> QED
    BY <2>4, <2>5 DEF Fetch, UpTypes, UpType, Runs, HandedOn, LibraryFollows
<1> QED
  BY <1>1, <1>2 DEF Fetch

LEMMA StageKeepsInv == ASSUME UpInv, Stage PROVE UpInv'
<1> USE DEF UpInv
<1>0. up \in UpType /\ "stage" \in UpdateSteps /\ "install" \in UpdateSteps
  BY DEF UpTypes, UpType, UpdateSteps, Installing
<1>1. CASE up.pc = "clear" /\ staged' = Nothing /\ up' = [up EXCEPT !.pc = "stage"]
  <2>1. /\ up' \in UpType /\ up'.pc = "stage"
        /\ up'.target = up.target /\ up'.got = up.got /\ up'.sound = up.sound
    BY <1>0, <1>1, MovesOn
  <2>2. Downloaded' = Downloaded
    BY <2>1 DEF Downloaded, Latest
  <2> QED
    BY <1>1, <2>1, <2>2, NothingIsABuild DEF Stage, UpTypes, UpType, Runs, HandedOn, LibraryFollows
<1>2. CASE up.pc = "stage" /\ staged' = up.got /\ up' = [up EXCEPT !.pc = "install", !.got = Nothing]
  <2>1. /\ up' \in UpType /\ up'.pc = "install"
        /\ up'.target = up.target /\ up'.got = Nothing /\ up'.sound = up.sound
    BY <1>0, <1>2, MovesOnWith, NothingIsABuild
  <2>2. Downloaded' = Downloaded
    BY <2>1 DEF Downloaded, Latest
  <2> QED
    BY <1>2, <2>1, <2>2 DEF Stage, UpTypes, UpType, Runs, HandedOn, LibraryFollows
<1> QED
  BY <1>1, <1>2 DEF Stage

LEMMA ReplaceKeepsInv == ASSUME UpInv, Replace PROVE UpInv'
<1> USE DEF UpInv
<1>0. /\ up \in UpType
      /\ "rename" \in UpdateSteps /\ "library" \in UpdateSteps
      /\ "backup" \in UpdateSteps /\ "copy" \in UpdateSteps
  BY DEF UpTypes, UpType, UpdateSteps, Installing
<1>1. CASE InstallUnix /\ up.pc = "install"
  <2> staged \in Builds
    BY DEF UpTypes
  <2>0. up' = [up EXCEPT !.pc = "rename", !.got = staged]
    BY <1>1 DEF InstallUnix
  <2>1. /\ up' \in UpType /\ up'.pc = "rename"
        /\ up'.target = up.target /\ up'.got = staged /\ up'.sound = up.sound
    BY <1>0, <2>0, MovesOnWith
  <2>2. Downloaded' = Downloaded
    BY <2>1 DEF Downloaded, Latest
  <2> QED
    BY <1>1, <2>1, <2>2 DEF InstallUnix, Replace, UpTypes, UpType, Runs, HandedOn, LibraryFollows
<1>2. CASE InstallUnix /\ up.pc = "rename"
  <2>0. up' = [up EXCEPT !.pc = "library"]
    BY <1>2 DEF InstallUnix
  <2>1. /\ up' \in UpType /\ up'.pc = "library"
        /\ up'.target = up.target /\ up'.got = up.got /\ up'.sound = up.sound
    BY <1>0, <2>0, MovesOn
  <2>2. Downloaded' = Downloaded
    BY <2>1 DEF Downloaded, Latest
  <2>3. exe' = Downloaded /\ exe' \in Builds /\ Downloaded.whole = up.sound
    BY <1>2, <2>1, <2>2 DEF InstallUnix, HandedOn, UpTypes, UpType, Downloaded
  <2> QED
    BY <1>2, <2>1, <2>2, <2>3 DEF InstallUnix, Replace, UpTypes, UpType, Runs, HandedOn, LibraryFollows
<1>3. CASE InstallWindows /\ up.pc = "install"
  <2>0. up' = [up EXCEPT !.pc = "backup"]
    BY <1>3 DEF InstallWindows
  <2>1. /\ up' \in UpType /\ up'.pc = "backup"
        /\ up'.target = up.target /\ up'.got = up.got /\ up'.sound = up.sound
    BY <1>0, <2>0, MovesOn
  <2>2. Downloaded' = Downloaded
    BY <2>1 DEF Downloaded, Latest
  <2> QED
    BY <1>3, <2>1, <2>2, NothingIsABuild
       DEF InstallWindows, Replace, UpTypes, UpType, Runs, HandedOn, LibraryFollows
<1>4. CASE InstallWindows /\ up.pc = "backup"
  <2>0. up' = [up EXCEPT !.pc = "copy"]
    BY <1>4 DEF InstallWindows
  <2>1. /\ up' \in UpType /\ up'.pc = "copy"
        /\ up'.target = up.target /\ up'.got = up.got /\ up'.sound = up.sound
    BY <1>0, <2>0, MovesOn
  <2>2. Downloaded' = Downloaded
    BY <2>1 DEF Downloaded, Latest
  <2>3. Nothing.variant # "Metal" /\ Nothing' = Nothing
    BY DEF Nothing
  <2> QED
    BY <1>4, <2>1, <2>2, <2>3, NothingIsABuild
       DEF InstallWindows, Replace, UpTypes, UpType, Runs, HandedOn, LibraryFollows
<1>5. CASE InstallWindows /\ up.pc = "copy"
  <2>0. up' = [up EXCEPT !.pc = "library"]
    BY <1>5 DEF InstallWindows
  <2>1. /\ up' \in UpType /\ up'.pc = "library"
        /\ up'.target = up.target /\ up'.got = up.got /\ up'.sound = up.sound
    BY <1>0, <2>0, MovesOn
  <2>2. Downloaded' = Downloaded
    BY <2>1 DEF Downloaded, Latest
  <2>3. exe' = Downloaded /\ exe' \in Builds /\ Downloaded.whole = up.sound
    BY <1>5, <2>1, <2>2 DEF InstallWindows, HandedOn, UpTypes, UpType, Downloaded
  <2> QED
    BY <1>5, <2>1, <2>2, <2>3 DEF InstallWindows, Replace, UpTypes, UpType, Runs, HandedOn, LibraryFollows
<1> QED
  BY <1>1, <1>2, <1>3, <1>4, <1>5 DEF Replace, InstallUnix, InstallWindows

LEMMA InstallLibraryKeepsInv == ASSUME UpInv, InstallLibrary PROVE UpInv'
<1> USE DEF UpInv
<1>0. up \in UpType /\ "updated" \in UpdateSteps
  BY DEF UpTypes, UpType, UpdateSteps, Ended
<1>1. /\ up' \in UpType /\ up'.pc = "updated"
      /\ up'.target = up.target /\ up'.got = up.got /\ up'.sound = up.sound
  BY <1>0, MovesOn DEF InstallLibrary
<1>2. Downloaded' = Downloaded /\ exe = Downloaded /\ exe.variant = up.target /\ exe.ver = Latest
  BY <1>1 DEF Downloaded, Latest, HandedOn, InstallLibrary
<1>3. lib' \in 0 .. Latest /\ (up.target = "Metal" => lib' = Latest)
  BY DEF InstallLibrary, UpTypes, Latest
<1> QED
  BY <1>1, <1>2, <1>3, NothingIsABuild
     DEF InstallLibrary, UpTypes, UpType, Runs, HandedOn, LibraryFollows, Latest

LEMMA HaltKeepsInv == ASSUME UpInv, Halt PROVE UpInv'
<1> USE DEF UpInv
<1>1. PICK how \in {"error", "killed"} : up' = [up EXCEPT !.pc = how]
  BY DEF Halt
<1>2. up \in UpType /\ how \in UpdateSteps
  BY DEF UpTypes, UpType, UpdateSteps, Ended
<1>3. /\ up' \in UpType /\ up'.pc = how
      /\ up'.target = up.target /\ up'.got = up.got /\ up'.sound = up.sound
  BY <1>1, <1>2, MovesOn
<1>4. lib' \in 0 .. Latest /\ (lib' # lib => halted')
  <2>1. lib' # lib => up.pc = "library"
    BY DEF Halt
  <2>2. lib' \in {lib, 0}
    BY DEF Halt
  <2>3. up.pc = "library" => halted'
    BY DEF Halt, Installing
  <2> QED
    BY <2>1, <2>2, <2>3 DEF UpTypes, Latest
<1>5. halted' \in BOOLEAN /\ (halted => halted') /\ (up.pc \in {"copy", "library"} => halted')
  BY DEF Halt, UpTypes, Installing
<1> QED
  BY <1>3, <1>4, <1>5 DEF Halt, UpTypes, UpType, Runs, HandedOn, LibraryFollows

LEMMA UpInvNext == UpInv /\ [UpNext]_upVars => UpInv'
<1> SUFFICES ASSUME UpInv, [UpNext]_upVars PROVE UpInv'
  OBVIOUS
<1>1. CASE UNCHANGED upVars
  BY <1>1 DEF upVars, UpInv, UpTypes, Runs, HandedOn, LibraryFollows, Downloaded
<1> QED
  BY <1>1, RunUpdateKeepsInv, FetchKeepsInv, StageKeepsInv, ReplaceKeepsInv, InstallLibraryKeepsInv,
     HaltKeepsInv DEF UpNext

\* The invariant says what the run checks.
LEMMA UpInvIsEnough == UpInv => UpdateIsWhole
  BY DEF UpInv, UpdateIsWhole, Runs, HandedOn, LibraryFollows, Downloaded, UpTypes, Ended, Builds

\* Wherever an update is cut short, a whole binary is left to run, and a finished update left the
\* new one with the library of its version (update.rs: download_release, replace_current_binary).
THEOREM UpdatesAreWhole == UpSpec => []UpdateIsWhole
  BY UpInvInit, UpInvNext, UpInvIsEnough, PTL DEF UpSpec

-----------------------------------------------------------------------------
(* ModelHub. A model that is loaded is whole, for any number of shards and *)
(* any number of failures, restarts and attempts.                          *)

\* The cached files are listed as shards, and all of them only if all are there.
LEMMA CachedShards ==
    /\ CachedFiles \in Seq(Shards)
    /\ Len(CachedFiles) >= SHARDS => CachedFiles = AllShards
<1> DEFINE got == {f \in Shards : blob[f] = "whole"}
           c == Cardinality(got)
<1>1. SHARDS \in Nat
  BY HubAssumption
<1>2. got \subseteq 1 .. SHARDS
  BY DEF Shards
<1>3. IsFiniteSet(1 .. SHARDS) /\ Cardinality(1 .. SHARDS) = SHARDS
  <2>1. 1 \in Int /\ SHARDS \in Int
    BY <1>1
  <2> QED
    BY <1>1, <2>1, FS_Interval
<1>4. c \in Nat /\ c <= SHARDS
  BY <1>2, <1>3, FS_Subset, FS_CardinalityType
<1>5. CachedFiles = [i \in 1 .. c |-> CHOOSE f \in got : Cardinality(UpTo(got, f)) = i]
  BY DEF CachedFiles, UpTo
<1> HIDE DEF got, c
<1>6. ASSUME NEW i \in 1 .. c PROVE (CHOOSE f \in got : Cardinality(UpTo(got, f)) = i) \in got
  <2>1. i \in 1 .. Cardinality(got)
    BY <1>6 DEF c
  <2>2. \E f \in got : Cardinality(UpTo(got, f)) = i
    BY <1>1, <1>2, <2>1, NthOf
  <2> QED
    BY <2>2
<1>7. CachedFiles \in [1 .. c -> got]
  BY <1>5, <1>6
<1>8. CachedFiles \in Seq(Shards) /\ Len(CachedFiles) = c
  <2>1. CachedFiles \in [1 .. c -> Shards]
    BY <1>2, <1>7 DEF Shards
  <2> QED
    BY <1>4, <2>1
<1>9. ASSUME c = SHARDS PROVE CachedFiles = AllShards
  <2>1. got = 1 .. SHARDS
    <3>1. got \in SUBSET (1 .. SHARDS)
      BY <1>2
    <3>2. Cardinality(1 .. SHARDS) = Cardinality(got)
      BY <1>3, <1>9 DEF c
    <3> QED
      BY <1>3, <3>1, <3>2, FS_Subset
  <2>2. ASSUME NEW f \in 1 .. SHARDS PROVE Cardinality(UpTo(got, f)) = f
    <3>1. UpTo(got, f) = 1 .. f
      BY <1>1, <2>1, <2>2 DEF UpTo
    <3>2. 1 \in Int /\ f \in Int /\ f \in Nat /\ f >= 1
      BY <1>1, <2>2
    <3>3. Cardinality(1 .. f) = IF 1 > f THEN 0 ELSE (f - 1) + 1
      BY <3>2, FS_Interval
    <3>4. Cardinality(1 .. f) = f
      BY <3>2, <3>3
    <3> QED
      BY <3>1, <3>4
  <2>3. ASSUME NEW i \in 1 .. SHARDS PROVE (CHOOSE f \in got : Cardinality(UpTo(got, f)) = i) = i
    <3>1. \A f \in got : Cardinality(UpTo(got, f)) = i <=> f = i
      BY <2>1, <2>2
    <3>2. i \in got
      BY <2>1, <2>3
    <3> QED
      BY <3>1, <3>2
  <2> QED
    BY <1>5, <1>9, <2>3 DEF AllShards, Shards
<1>10. Len(CachedFiles) >= SHARDS => c = SHARDS
  BY <1>1, <1>4, <1>8
<1> QED
  BY <1>8, <1>9, <1>10

LoadSteps == {"idle", "listing", "sequential", "parallel", "fetched", "failed", "ok", "error"}
LoadStates == [pc : LoadSteps, fast : BOOLEAN, names : Seq(Shards), paths : Seq(Shards), tries : Nat, config : BOOLEAN]
Tasks == [pc : {"none", "queued", "running", "done", "failed"}, tries : Nat]

HubTypes ==
    /\ format \in {"gguf", "safetensors"}
    /\ online \in BOOLEAN /\ config \in BOOLEAN /\ cleared \in BOOLEAN
    /\ blob \in [Shards -> {"absent", "part", "whole"}]
    /\ load \in [Loaders -> LoadStates]
    /\ task \in [Loaders -> [Shards -> Tasks]]

There(f) == cleared \/ blob[f] = "whole"

\* A download has, of the files it chose, the first ones, in their order; and if it did not have
\* to do with what is in the cache it chose all shards.
LoadInv(p) ==
    LET names == load[p].names
        paths == load[p].paths
    IN  /\ load[p].pc \in {"sequential", "parallel"} => Len(paths) < Len(names)
        /\ load[p].pc \in {"fetched", "ok"} => Len(paths) = Len(names)
        /\ load[p].pc \in {"sequential", "parallel", "fetched", "ok"} =>
              /\ \A i \in DOMAIN paths : paths[i] = names[i] /\ There(paths[i])
              /\ format = "gguf" \/ Len(names) >= SHARDS => names = AllShards

HubInv ==
    /\ HubTypes
    /\ \A p \in Loaders : LoadInv(p)
    /\ \A p \in Loaders, f \in Shards : task[p][f].pc = "done" => There(f)

LEMMA HubInvInit == HubInit => HubInv
<1> SUFFICES ASSUME HubInit PROVE HubInv
  OBVIOUS
<1>1. Idle \in LoadStates /\ Idle.pc = "idle" /\ NoTask \in Tasks /\ NoTask.pc = "none"
  BY DEF Idle, LoadStates, LoadSteps, NoTask, Tasks
<1>2. HubTypes
  BY <1>1 DEF HubInit, HubTypes
<1> QED
  BY <1>1, <1>2 DEF HubInit, HubInv, LoadInv

\* What is there stays there, unless someone deletes the model.
StaysThere == \A f \in Shards : There(f) => There(f)'

LEMMA LoadUntouched ==
  ASSUME HubTypes, NEW p \in Loaders, LoadInv(p), StaysThere, load'[p] = load[p], format' = format
  PROVE  LoadInv(p)'
<1>1. load[p] \in LoadStates /\ \A i \in DOMAIN load[p].paths : load[p].paths[i] \in Shards
  BY DEF HubTypes, LoadStates
<1> QED
  BY <1>1 DEF LoadInv, StaysThere

\* A download that begins, fails or only counts its attempts.
LEMMA LoadMoves ==
  ASSUME HubTypes, NEW p \in Loaders, LoadInv(p), StaysThere, format' = format, load'[p] \in LoadStates,
         \/ load'[p].pc \in {"idle", "listing", "failed", "error"}
         \/ /\ load'[p].pc = load[p].pc \/ (load[p].pc = "fetched" /\ load'[p].pc = "ok")
            /\ load'[p].names = load[p].names /\ load'[p].paths = load[p].paths
  PROVE  LoadInv(p)'
<1>1. load[p] \in LoadStates /\ \A i \in DOMAIN load[p].paths : load[p].paths[i] \in Shards
  BY DEF HubTypes, LoadStates
<1> QED
  BY <1>1 DEF LoadInv, StaysThere

\* get() makes files whole and never leaves one less whole than before.
LEMMA Gets ==
  ASSUME HubTypes, NEW g, NEW f \in Shards, cleared' = cleared,
         GetBegins(g, f) \/ GetReturns(g, f) \/ GetFails(g, f)
  PROVE  /\ blob' \in [Shards -> {"absent", "part", "whole"}]
         /\ StaysThere
         /\ GetReturns(g, f) => There(f)'
<1>1. blob \in [Shards -> {"absent", "part", "whole"}]
  BY DEF HubTypes
<1>2. CASE GetBegins(g, f)
  <2>1. /\ blob[f] # "whole" /\ blob' = [blob EXCEPT ![f] = "part"]
    BY <1>2 DEF GetBegins
  <2>2. blob'[f] = "part" /\ \A h \in Shards : h # f => blob'[h] = blob[h]
    BY <1>1, <2>1
  <2>3. blob' \in [Shards -> {"absent", "part", "whole"}]
    BY <1>1, <2>1
  <2>4. StaysThere
    BY <2>1, <2>2 DEF StaysThere, There
  <2>5. GetReturns(g, f) => There(f)'
    BY <2>1, <2>2, <1>1 DEF GetReturns, There
  <2> QED
    BY <2>3, <2>4, <2>5
<1>3. CASE GetReturns(g, f)
  BY <1>1, <1>3 DEF GetReturns, StaysThere, There
<1>4. CASE GetFails(g, f)
  BY <1>1, <1>4 DEF GetFails, GetReturns, StaysThere, There
<1> QED
  BY <1>2, <1>3, <1>4

\* The next file of the list is there: the download has it, and goes on or has fetched all.
LEMMA GotOne ==
  ASSUME HubTypes, NEW p \in Loaders, \A q \in Loaders : LoadInv(q),
         load[p].pc \in {"sequential", "parallel"}, StaysThere, format' = format,
         NEW f \in Shards, f = load[p].names[Len(load[p].paths) + 1], There(f)', load' = Got(p, f)
  PROVE  load' \in [Loaders -> LoadStates] /\ \A q \in Loaders : LoadInv(q)'
<1> DEFINE old == load[p]
           paths == Append(old.paths, f)
           IsThere(h) == cleared' \/ blob'[h] = "whole"
           next == IF Len(paths) = Len(old.names) THEN "fetched" ELSE old.pc
<1>1. /\ load \in [Loaders -> LoadStates] /\ old \in LoadStates
      /\ old.paths \in Seq(Shards) /\ old.names \in Seq(Shards)
      /\ Len(old.paths) \in Nat /\ Len(old.names) \in Nat
  BY DEF HubTypes, LoadStates
<1>2. /\ load'[p] = [old EXCEPT !.paths = paths, !.tries = 0, !.pc = next]
      /\ \A q \in Loaders : q # p => load'[q] = load[q]
      /\ load' = [load EXCEPT ![p] = load'[p]]
  BY <1>1 DEF Got
<1>3. paths \in Seq(Shards) /\ Len(paths) = Len(old.paths) + 1 /\ paths[Len(paths)] = f
      /\ \A i \in 1 .. Len(old.paths) : paths[i] = old.paths[i]
  BY <1>1
<1>4. Len(old.paths) < Len(old.names)
      /\ (\A i \in DOMAIN old.paths : old.paths[i] = old.names[i] /\ There(old.paths[i]))
      /\ (format = "gguf" \/ Len(old.names) >= SHARDS => old.names = AllShards)
  BY DEF LoadInv
<1>5. load'[p] \in LoadStates /\ load'[p].paths = paths /\ load'[p].names = old.names
      /\ load'[p].pc = next
  <2>1. next \in LoadSteps
    BY <1>1 DEF LoadStates, LoadSteps
  <2> HIDE DEF paths, next
  <2>2. old = [pc |-> old.pc, fast |-> old.fast, names |-> old.names, paths |-> old.paths,
               tries |-> old.tries, config |-> old.config]
    BY <1>1 DEF LoadStates
  <2>3. load'[p] = [pc |-> next, fast |-> old.fast, names |-> old.names, paths |-> paths,
                    tries |-> 0, config |-> old.config]
    BY <2>2, <1>2
  <2> QED
    BY <1>1, <1>3, <2>1, <2>3 DEF LoadStates
<1>6. load' \in [Loaders -> LoadStates]
  BY <1>1, <1>2, <1>5
<1>7. \A i \in DOMAIN paths : paths[i] = old.names[i] /\ IsThere(paths[i])
  <2> SUFFICES ASSUME NEW i \in DOMAIN paths
               PROVE  paths[i] = old.names[i] /\ IsThere(paths[i])
    OBVIOUS
  <2>1. CASE i = Len(paths)
    BY <2>1, <1>1, <1>3, <1>4 DEF There
  <2>2. CASE i # Len(paths)
    <3>1. i \in 1 .. Len(old.paths) /\ paths[i] = old.paths[i] /\ old.paths[i] \in Shards
      BY <2>2, <1>1, <1>3
    <3>2. old.paths[i] = old.names[i] /\ There(old.paths[i])
      BY <3>1, <1>1, <1>4
    <3> QED
      BY <3>1, <3>2 DEF StaysThere, There
  <2> QED
    BY <2>1, <2>2
<1> HIDE DEF paths
<1>8. LoadInv(p)'
  <2>1. next \in {"fetched"} => Len(paths) = Len(old.names)
    BY <1>4
  <2>2. next \notin {"fetched"} => Len(paths) < Len(old.names)
    BY <1>1, <1>3, <1>4
  <2>3. old.pc # "fetched" /\ old.pc # "ok"
    OBVIOUS
  <2> QED
    BY <1>3, <1>4, <1>5, <1>7, <2>1, <2>2, <2>3 DEF LoadInv, There
<1>9. \A q \in Loaders : LoadInv(q)'
  BY <1>2, <1>8, LoadUntouched
<1> QED
  BY <1>6, <1>9

LEMMA IdleLoad == Idle \in LoadStates /\ Idle.pc = "idle" /\ NoTask \in Tasks /\ NoTask.pc = "none"
  BY DEF Idle, LoadStates, LoadSteps, NoTask, Tasks

\* A step that only moves one download, in a way that LoadMoves allows.
LEMMA MovesOneLoad ==
  ASSUME HubInv, NEW p \in Loaders, NEW to \in LoadStates, load' = [load EXCEPT ![p] = to],
         UNCHANGED <<format, online, config, cleared, blob, task>>,
         \/ to.pc \in {"idle", "listing", "failed", "error"}
         \/ /\ to.pc = load[p].pc \/ (load[p].pc = "fetched" /\ to.pc = "ok")
            /\ to.names = load[p].names /\ to.paths = load[p].paths
  PROVE  HubInv'
<1>1. HubTypes /\ load'[p] = to /\ \A q \in Loaders : q # p => load'[q] = load[q]
  BY DEF HubInv, HubTypes
<1>2. HubTypes'
  BY <1>1 DEF HubTypes
<1>3. StaysThere
  BY DEF StaysThere, There
<1>4. \A q \in Loaders : LoadInv(q)'
  BY <1>1, <1>3, LoadMoves, LoadUntouched DEF HubInv
<1> QED
  BY <1>2, <1>4 DEF HubInv, There

\* A download's record with another step, or another step and another number of tries.
LEMMA LoadSets ==
  ASSUME NEW l \in LoadStates, NEW step \in LoadSteps, NEW n \in Nat
  PROVE  /\ [l EXCEPT !.pc = step] \in LoadStates /\ [l EXCEPT !.pc = step].pc = step
         /\ [l EXCEPT !.pc = step].names = l.names /\ [l EXCEPT !.pc = step].paths = l.paths
         /\ [l EXCEPT !.tries = n] \in LoadStates /\ [l EXCEPT !.tries = n].pc = l.pc
         /\ [l EXCEPT !.tries = n].names = l.names /\ [l EXCEPT !.tries = n].paths = l.paths
  BY DEF LoadStates

LEMMA LoadBegins ==
  ASSUME NEW l \in LoadStates, NEW step \in LoadSteps, NEW b \in BOOLEAN
  PROVE  [l EXCEPT !.pc = step, !.fast = b] \in LoadStates /\ [l EXCEPT !.pc = step, !.fast = b].pc = step
  BY DEF LoadStates

LEMMA DownloadKeepsInv == ASSUME HubInv, NEW p \in Loaders, Download(p) PROVE HubInv'
<1>1. load[p] \in LoadStates /\ "listing" \in LoadSteps /\ load \in [Loaders -> LoadStates]
  BY DEF HubInv, HubTypes, LoadSteps
<1> DEFINE to == [load[p] EXCEPT !.pc = "listing"]
<1>2. to \in LoadStates /\ to.pc = "listing"
  BY <1>1, LoadSets
<1>3. load' = [load EXCEPT ![p] = to]
  BY <1>1 DEF Download
<1> QED
  BY <1>2, <1>3, MovesOneLoad DEF Download, HubOutside

LEMMA ResolveKeepsInv == ASSUME HubInv, NEW p \in Loaders, Resolve(p) PROVE HubInv'
<1>1. load[p] \in LoadStates /\ load \in [Loaders -> LoadStates] /\ {"ok", "error", "listing"} \subseteq LoadSteps
  BY DEF HubInv, HubTypes, LoadSteps
<1>2. UNCHANGED <<format, online, config, cleared, blob, task>> /\ load[p].pc \in {"fetched", "failed"}
  BY DEF Resolve, HubOutside
<1>3. \/ load[p].pc = "fetched" /\ load' = [load EXCEPT ![p] = [load[p] EXCEPT !.pc = "ok"]]
      \/ load' = [load EXCEPT ![p] = [Idle EXCEPT !.pc = "listing", !.fast = FALSE]]
      \/ load' = [load EXCEPT ![p] = [load[p] EXCEPT !.pc = "error"]]
  BY <1>1 DEF Resolve
<1>4. CASE load[p].pc = "fetched" /\ load' = [load EXCEPT ![p] = [load[p] EXCEPT !.pc = "ok"]]
  <2> DEFINE to == [load[p] EXCEPT !.pc = "ok"]
  <2>1. to \in LoadStates /\ to.pc = "ok" /\ to.names = load[p].names /\ to.paths = load[p].paths
    BY <1>1, LoadSets
  <2> QED
    BY <1>2, <1>4, <2>1, MovesOneLoad
<1>5. CASE load' = [load EXCEPT ![p] = [Idle EXCEPT !.pc = "listing", !.fast = FALSE]]
  <2> DEFINE to == [Idle EXCEPT !.pc = "listing", !.fast = FALSE]
  <2>1. to \in LoadStates /\ to.pc = "listing"
    BY <1>1, IdleLoad, LoadBegins
  <2> QED
    BY <1>2, <1>5, <2>1, MovesOneLoad
<1>6. CASE load' = [load EXCEPT ![p] = [load[p] EXCEPT !.pc = "error"]]
  <2> DEFINE to == [load[p] EXCEPT !.pc = "error"]
  <2>1. to \in LoadStates /\ to.pc = "error"
    BY <1>1, LoadSets
  <2> QED
    BY <1>2, <1>6, <2>1, MovesOneLoad
<1> QED
  BY <1>3, <1>4, <1>5, <1>6

\* The listing: of a GGUF all shards, of safetensors those listed.
LEMMA ChosenFiles ==
  ASSUME HubInv, NEW names, names = Chosen(IF online THEN AllShards ELSE CachedFiles)
  PROVE  /\ names \in Seq(Shards)
         /\ (names # <<>> /\ (format = "gguf" \/ Len(names) >= SHARDS)) => names = AllShards
<1>1. AllShards \in Seq(Shards)
  BY HubAssumption DEF AllShards, Shards
<1> QED
  BY <1>1, CachedShards DEF Chosen

LEMMA ListFilesKeepsInv == ASSUME HubInv, NEW p \in Loaders, ListFiles(p) PROVE HubInv'
<1> DEFINE names == Chosen(IF online THEN AllShards ELSE CachedFiles)
           parallel == Len(names) > 1 /\ load[p].fast
           step == IF names = <<>> THEN "failed" ELSE IF parallel THEN "parallel" ELSE "sequential"
           old == load[p]
<1>1. HubTypes /\ old \in LoadStates /\ load \in [Loaders -> LoadStates]
  BY DEF HubInv, HubTypes
<1>2. /\ names \in Seq(Shards)
      /\ names # <<>> /\ (format = "gguf" \/ Len(names) >= SHARDS) => names = AllShards
  BY ChosenFiles
<1>3. UNCHANGED <<format, online, cleared, blob>> /\ config' \in BOOLEAN
  BY <1>1 DEF ListFiles, HubOutside, HubTypes
<1>4. load' = [load EXCEPT ![p].names = names, ![p].paths = <<>>, ![p].tries = 0, ![p].config = config', ![p].pc = step]
  BY DEF ListFiles
<1>5. task' = IF parallel THEN [task EXCEPT ![p] = [f \in Shards |-> [NoTask EXCEPT !.pc = "queued"]]] ELSE task
  BY DEF ListFiles
<1>6. step \in {"failed", "parallel", "sequential"} /\ (step # "failed" => names # <<>>)
  OBVIOUS
<1> HIDE DEF names, parallel, step
<1>31. PICK c \in BOOLEAN : c = config'
  BY <1>3
<1> DEFINE to == [old EXCEPT !.names = names, !.paths = <<>>, !.tries = 0, !.config = c, !.pc = step]
<1>7. to \in LoadStates /\ to.pc = step /\ to.names = names /\ to.paths = <<>>
  <2>1. step \in LoadSteps
    BY <1>6 DEF LoadSteps
  <2>2. <<>> \in Seq(Shards)
    OBVIOUS
  <2> QED
    BY <2>1, <2>2, <1>1, <1>2, <1>31 DEF LoadStates
<1>8. load' = [load EXCEPT ![p] = to]
  BY <1>1, <1>4, <1>31
<1> HIDE DEF to
<1>9. load'[p] = to /\ load' \in [Loaders -> LoadStates] /\ \A q \in Loaders : q # p => load'[q] = load[q]
  BY <1>1, <1>7, <1>8
<1>10. StaysThere
  BY <1>3 DEF StaysThere, There
<1>11. LoadInv(p)'
  <2>1. Len(<<>>) = 0 /\ DOMAIN <<>> = {} /\ (names # <<>> => Len(names) > 0)
    BY <1>2
  <2> QED
    BY <2>1, <1>2, <1>3, <1>6, <1>7, <1>9 DEF LoadInv
<1>12. \A q \in Loaders : LoadInv(q)'
  BY <1>1, <1>3, <1>9, <1>10, <1>11, LoadUntouched DEF HubInv
<1>13. [NoTask EXCEPT !.pc = "queued"] \in Tasks /\ [NoTask EXCEPT !.pc = "queued"].pc = "queued"
  BY DEF NoTask, Tasks
<1>14. /\ task' \in [Loaders -> [Shards -> Tasks]]
       /\ \A q \in Loaders, f \in Shards : task'[q][f].pc = "done" => task[q][f].pc = "done"
  <2>1. task \in [Loaders -> [Shards -> Tasks]]
    BY <1>1 DEF HubTypes
  <2>2. CASE task' = task
    BY <2>1, <2>2
  <2>3. CASE task' = [task EXCEPT ![p] = [f \in Shards |-> [NoTask EXCEPT !.pc = "queued"]]]
    <3>1. task' \in [Loaders -> [Shards -> Tasks]]
      BY <1>13, <2>1, <2>3
    <3>2. \A f \in Shards : task'[p][f].pc = "queued"
      BY <1>13, <2>1, <2>3
    <3>3. \A q \in Loaders : q # p => task'[q] = task[q]
      BY <2>1, <2>3
    <3> QED
      BY <3>1, <3>2, <3>3
  <2> QED
    BY <1>5, <2>2, <2>3
<1>15. HubTypes'
  BY <1>1, <1>3, <1>9, <1>14 DEF HubTypes
<1> QED
  BY <1>12, <1>14, <1>15, <1>3 DEF HubInv, There

\* The file a download asks for next is one of the shards.
LEMMA NextFile ==
  ASSUME HubInv, NEW p \in Loaders, load[p].pc \in {"sequential", "parallel"}
  PROVE  load[p].names[Len(load[p].paths) + 1] \in Shards
<1>1. load[p].names \in Seq(Shards) /\ load[p].paths \in Seq(Shards)
  BY DEF HubInv, HubTypes, LoadStates
<1>2. Len(load[p].paths) < Len(load[p].names)
  BY DEF HubInv, LoadInv
<1> QED
  BY <1>1, <1>2

LEMMA SequentialKeepsInv == ASSUME HubInv, NEW p \in Loaders, Sequential(p) PROVE HubInv'
<1>2. PICK f \in Shards : f = load[p].names[Len(load[p].paths) + 1]
  <2>1. load[p].pc = "sequential"
    BY DEF Sequential
  <2> QED
    BY <2>1, NextFile
<1> DEFINE g == Getter(p, f, "loader")
<1>1. /\ load[p].pc = "sequential" /\ UNCHANGED <<format, online, cleared, config, task>>
      /\ \/ GetBegins(g, f) /\ UNCHANGED load
         \/ GetReturns(g, f) /\ load' = Got(p, f)
         \/ GetFails(g, f) /\ load' = IF load[p].tries < RETRIES THEN [load EXCEPT ![p].tries = @ + 1]
                                      ELSE [load EXCEPT ![p].pc = "failed"]
  BY <1>2 DEF Sequential, HubOutside
<1> HIDE DEF g
<1>3. HubTypes /\ load \in [Loaders -> LoadStates] /\ load[p] \in LoadStates /\ load[p].tries \in Nat
  BY DEF HubInv, HubTypes, LoadStates
<1>4. /\ blob' \in [Shards -> {"absent", "part", "whole"}]
      /\ StaysThere
      /\ GetReturns(g, f) => There(f)'
  <2>1. cleared' = cleared /\ (GetBegins(g, f) \/ GetReturns(g, f) \/ GetFails(g, f))
    BY <1>1
  <2> QED
    BY <2>1, <1>2, <1>3, Gets
<1>5. load' \in [Loaders -> LoadStates] /\ \A q \in Loaders : LoadInv(q)'
  <2>1. CASE UNCHANGED load
    BY <2>1, <1>1, <1>3, <1>4, LoadUntouched DEF HubInv
  <2>2. CASE GetReturns(g, f) /\ load' = Got(p, f)
    <3>1. There(f)' /\ StaysThere /\ format' = format /\ load[p].pc \in {"sequential", "parallel"}
      BY <2>2, <1>1, <1>4
    <3> QED
      BY <2>2, <3>1, <1>2, <1>3, GotOne DEF HubInv
  <2>3. CASE load' = [load EXCEPT ![p].tries = @ + 1]
    <3> DEFINE to == [load[p] EXCEPT !.tries = load[p].tries + 1]
    <3>1. load' = [load EXCEPT ![p] = to]
      BY <2>3, <1>3
    <3>2. load[p].tries + 1 \in Nat
      BY <1>3
    <3>3. to \in LoadStates /\ to.pc = load[p].pc /\ to.names = load[p].names /\ to.paths = load[p].paths
      BY <3>2, <1>3 DEF LoadStates
    <3> HIDE DEF to
    <3>4. load' \in [Loaders -> LoadStates] /\ load'[p] = to /\ \A q \in Loaders : q # p => load'[q] = load[q]
      BY <3>1, <3>3, <1>3
    <3> QED
      BY <3>3, <3>4, <1>1, <1>3, <1>4, LoadUntouched, LoadMoves DEF HubInv
  <2>4. CASE load' = [load EXCEPT ![p].pc = "failed"]
    <3> DEFINE to == [load[p] EXCEPT !.pc = "failed"]
    <3>1. load' = [load EXCEPT ![p] = to]
      BY <2>4, <1>3
    <3>2. "failed" \in LoadSteps
      BY DEF LoadSteps
    <3>3. to \in LoadStates /\ to.pc = "failed"
      BY <3>2, <1>3, LoadSets
    <3> HIDE DEF to
    <3>4. load' \in [Loaders -> LoadStates] /\ load'[p] = to /\ \A q \in Loaders : q # p => load'[q] = load[q]
      BY <3>1, <3>3, <1>3
    <3> QED
      BY <3>3, <3>4, <1>1, <1>3, <1>4, LoadUntouched, LoadMoves DEF HubInv
  <2> QED
    BY <1>1, <2>1, <2>2, <2>3, <2>4
<1>6. HubTypes'
  BY <1>1, <1>3, <1>4, <1>5 DEF HubTypes
<1> QED
  BY <1>1, <1>4, <1>5, <1>6 DEF HubInv, StaysThere

LEMMA AwaitHandleKeepsInv == ASSUME HubInv, NEW p \in Loaders, AwaitHandle(p) PROVE HubInv'
<1>2. PICK f \in Shards : f = load[p].names[Len(load[p].paths) + 1]
  <2>1. load[p].pc = "parallel"
    BY DEF AwaitHandle
  <2> QED
    BY <2>1, NextFile
<1>1. /\ load[p].pc = "parallel" /\ UNCHANGED <<format, online, cleared, config, blob, task>>
      /\ \/ task[p][f].pc = "done" /\ load' = Got(p, f)
         \/ task[p][f].pc = "failed" /\ load' = [load EXCEPT ![p].pc = "failed"]
  BY <1>2 DEF AwaitHandle, HubOutside
<1>3. HubTypes /\ load \in [Loaders -> LoadStates] /\ load[p] \in LoadStates
  BY DEF HubInv, HubTypes
<1>4. StaysThere
  BY <1>1 DEF StaysThere, There
<1>5. CASE task[p][f].pc = "done" /\ load' = Got(p, f)
  <2>1. There(f)'
    BY <1>1, <1>2, <1>5 DEF HubInv, There
  <2>2. load' \in [Loaders -> LoadStates] /\ \A q \in Loaders : LoadInv(q)'
    BY <2>1, <1>1, <1>2, <1>3, <1>4, <1>5, GotOne DEF HubInv
  <2>3. HubTypes'
    BY <2>2, <1>1, <1>3 DEF HubTypes
  <2> QED
    BY <2>2, <2>3, <1>1 DEF HubInv, There
<1>6. CASE load' = [load EXCEPT ![p].pc = "failed"]
  <2> DEFINE to == [load[p] EXCEPT !.pc = "failed"]
  <2>1. "failed" \in LoadSteps
    BY DEF LoadSteps
  <2>2. to \in LoadStates /\ to.pc = "failed"
    BY <2>1, <1>3, LoadSets
  <2>3. load' = [load EXCEPT ![p] = to]
    BY <1>3, <1>6
  <2> QED
    BY <2>2, <2>3, <1>1, MovesOneLoad
<1> QED
  BY <1>1, <1>5, <1>6

\* A step that leaves the downloads alone, and at most ends a task whose file is there.
LEMMA LoadsUntouched ==
  ASSUME HubInv, StaysThere, HubTypes', UNCHANGED <<format, load>>,
         \A q \in Loaders, h \in Shards : task'[q][h].pc = "done" => task[q][h].pc = "done" \/ There(h)'
  PROVE  HubInv'
  BY LoadUntouched DEF HubInv, StaysThere

LEMMA TaskKeepsInv == ASSUME HubInv, NEW p \in Loaders, NEW f \in Shards, TaskStep(p, f) PROVE HubInv'
<1> DEFINE g == Getter(p, f, "task")
<1>1. UNCHANGED <<format, online, cleared, config, load>>
  BY DEF TaskStep, HubOutside
<1>2. HubTypes /\ task \in [Loaders -> [Shards -> Tasks]] /\ task[p][f] \in Tasks /\ task[p][f].tries \in Nat
  BY DEF HubInv, HubTypes, Tasks
<1>3. \/ UNCHANGED blob /\ task' = [task EXCEPT ![p][f].pc = "running"]
      \/ GetBegins(g, f) /\ UNCHANGED task
      \/ GetReturns(g, f) /\ task' = [task EXCEPT ![p][f].pc = "done"]
      \/ GetFails(g, f) /\ task' = [task EXCEPT ![p][f].tries = @ + 1]
      \/ GetFails(g, f) /\ task' = [task EXCEPT ![p][f].pc = "failed"]
  BY DEF TaskStep
<1> HIDE DEF g
<1>4. blob' \in [Shards -> {"absent", "part", "whole"}] /\ StaysThere /\ (GetReturns(g, f) => There(f)')
  <2>1. CASE UNCHANGED blob /\ ~GetReturns(g, f)
    BY <2>1, <1>1, <1>2 DEF HubTypes, StaysThere, There
  <2>2. CASE GetBegins(g, f) \/ GetReturns(g, f) \/ GetFails(g, f)
    BY <2>2, <1>1, <1>2, Gets
  <2> QED
    BY <2>1, <2>2, <1>3
<1>5. ASSUME NEW to \in Tasks, task' = [task EXCEPT ![p][f] = to], to.pc = "done" => There(f)' \/ task[p][f].pc = "done"
      PROVE  HubInv'
  <2>1. task' \in [Loaders -> [Shards -> Tasks]]
    BY <1>2, <1>5
  <2>2. \A q \in Loaders, h \in Shards : task'[q][h] = IF q = p /\ h = f THEN to ELSE task[q][h]
    BY <1>2, <1>5
  <2>3. \A q \in Loaders, h \in Shards : task'[q][h].pc = "done" => task[q][h].pc = "done" \/ There(h)'
    BY <1>5, <2>2
  <2>4. HubTypes'
    BY <2>1, <1>1, <1>2, <1>4 DEF HubTypes
  <2> QED
    BY <2>3, <2>4, <1>1, <1>4, LoadsUntouched
<1>6. /\ \A step \in {"running", "done", "failed"} :
            [task[p][f] EXCEPT !.pc = step] \in Tasks /\ [task[p][f] EXCEPT !.pc = step].pc = step
      /\ [task[p][f] EXCEPT !.tries = task[p][f].tries + 1] \in Tasks
      /\ [task[p][f] EXCEPT !.tries = task[p][f].tries + 1].pc = task[p][f].pc
  <2>1. task[p][f].tries + 1 \in Nat
    BY <1>2
  <2> QED
    BY <2>1, <1>2 DEF Tasks
<1>7. CASE task' = [task EXCEPT ![p][f].pc = "running"]
  <2>1. task' = [task EXCEPT ![p][f] = [task[p][f] EXCEPT !.pc = "running"]]
    BY <1>2, <1>7
  <2> QED
    BY <2>1, <1>5, <1>6
<1>8. CASE GetReturns(g, f) /\ task' = [task EXCEPT ![p][f].pc = "done"]
  <2>1. task' = [task EXCEPT ![p][f] = [task[p][f] EXCEPT !.pc = "done"]]
    BY <1>2, <1>8
  <2> QED
    BY <2>1, <1>4, <1>5, <1>6, <1>8
<1>9. CASE task' = [task EXCEPT ![p][f].pc = "failed"]
  <2>1. task' = [task EXCEPT ![p][f] = [task[p][f] EXCEPT !.pc = "failed"]]
    BY <1>2, <1>9
  <2> QED
    BY <2>1, <1>5, <1>6
<1>10. CASE task' = [task EXCEPT ![p][f].tries = @ + 1]
  <2>1. task' = [task EXCEPT ![p][f] = [task[p][f] EXCEPT !.tries = task[p][f].tries + 1]]
    BY <1>2, <1>10
  <2> QED
    BY <2>1, <1>5, <1>6
<1>11. CASE UNCHANGED task
  <2>1. HubTypes'
    BY <1>1, <1>2, <1>4, <1>11 DEF HubTypes
  <2> QED
    BY <2>1, <1>1, <1>4, <1>11, LoadsUntouched
<1> QED
  BY <1>3, <1>7, <1>8, <1>9, <1>10, <1>11

LEMMA EndProcessKeepsInv == ASSUME HubInv, NEW p \in Loaders, EndProcess(p) PROVE HubInv'
<1>1. /\ UNCHANGED <<format, online, cleared, config, blob>>
      /\ load' = [load EXCEPT ![p] = Idle]
      /\ task' = [task EXCEPT ![p] = [f \in Shards |-> NoTask]]
  BY DEF EndProcess
<1>2. HubTypes
  BY DEF HubInv
<1>3. /\ load' \in [Loaders -> LoadStates] /\ load'[p] = Idle
      /\ \A q \in Loaders : q # p => load'[q] = load[q]
      /\ task' \in [Loaders -> [Shards -> Tasks]]
      /\ \A q \in Loaders, f \in Shards : task'[q][f] = IF q = p THEN NoTask ELSE task[q][f]
  BY <1>1, <1>2, IdleLoad DEF HubTypes
<1>4. HubTypes'
  BY <1>1, <1>2, <1>3 DEF HubTypes
<1>5. StaysThere
  BY <1>1 DEF StaysThere, There
<1>6. \A q \in Loaders : LoadInv(q)'
  BY <1>1, <1>2, <1>3, <1>5, IdleLoad, LoadMoves, LoadUntouched DEF HubInv
<1> QED
  BY <1>1, <1>3, <1>4, <1>6, IdleLoad DEF HubInv, There

LEMMA AroundKeepsInv ==
  ASSUME HubInv, ConnectionFails \/ ConnectionReturns \/ ClearStale \/ ClearModel \/ UNCHANGED hubVars
  PROVE  HubInv'
<1>1. HubTypes /\ UNCHANGED <<format, load, task>>
  BY DEF HubInv, ConnectionFails, ConnectionReturns, ClearStale, ClearModel, hubVars
<1>2. HubTypes' /\ StaysThere
  <2>1. CASE ConnectionFails \/ ConnectionReturns \/ UNCHANGED hubVars
    BY <2>1, <1>1 DEF HubTypes, StaysThere, There, ConnectionFails, ConnectionReturns, hubVars
  <2>2. CASE ClearStale
    <3>1. blob \in [Shards -> {"absent", "part", "whole"}]
      BY <1>1 DEF HubTypes
    <3>2. blob' \in [Shards -> {"absent", "part", "whole"}] /\ \A f \in Shards : blob[f] = "whole" => blob'[f] = "whole"
      BY <3>1, <2>2 DEF ClearStale
    <3> QED
      BY <3>2, <2>2, <1>1 DEF HubTypes, StaysThere, There, ClearStale
  <2>3. CASE ClearModel
    <3>1. blob' \in [Shards -> {"absent", "part", "whole"}]
      BY <2>3 DEF ClearModel
    <3> QED
      BY <3>1, <2>3, <1>1 DEF HubTypes, StaysThere, There, ClearModel
  <2> QED
    BY <2>1, <2>2, <2>3
<1> QED
  BY <1>1, <1>2, LoadsUntouched

LEMMA HubInvNext == HubInv /\ [HubNext]_hubVars => HubInv'
  BY DownloadKeepsInv, ListFilesKeepsInv, SequentialKeepsInv, AwaitHandleKeepsInv, ResolveKeepsInv,
     TaskKeepsInv, EndProcessKeepsInv, AroundKeepsInv DEF HubNext, LoaderStep

LEMMA HubInvIsEnough == HubInv => ModelIsWhole
<1> SUFFICES ASSUME HubInv, NEW p \in Loaders, load[p].pc = "ok",
                    ~ (format = "safetensors" /\ Len(load[p].names) < SHARDS)
             PROVE  /\ load[p].paths = AllShards
                    /\ cleared \/ ((\A f \in Shards : blob[f] = "whole") /\ Listed)
  BY DEF ModelIsWhole
<1> DEFINE names == load[p].names
           paths == load[p].paths
<1>1. names \in Seq(Shards) /\ paths \in Seq(Shards) /\ format \in {"gguf", "safetensors"}
  BY DEF HubInv, HubTypes, LoadStates
<1>2. /\ Len(paths) = Len(names)
      /\ \A i \in DOMAIN paths : paths[i] = names[i] /\ There(paths[i])
      /\ format = "gguf" \/ Len(names) >= SHARDS => names = AllShards
  BY DEF HubInv, LoadInv
<1>3. names = AllShards
  BY <1>1, <1>2, HubAssumption
<1>4. AllShards \in [1 .. SHARDS -> Shards] /\ Len(AllShards) = SHARDS
  BY HubAssumption DEF AllShards, Shards
<1>5. Len(paths) = SHARDS /\ DOMAIN paths = 1 .. SHARDS
  <2>1. Len(paths) = SHARDS
    BY <1>2, <1>3, <1>4
  <2> QED
    BY <2>1, <1>1
<1>51. \A i \in 1 .. SHARDS : paths[i] = i /\ There(i)
  <2>1. \A i \in 1 .. SHARDS : AllShards[i] = i
    BY DEF AllShards, Shards
  <2> QED
    BY <2>1, <1>2, <1>3, <1>5
<1>6. paths = AllShards
  <2>1. AllShards = [i \in 1 .. SHARDS |-> i]
    BY DEF AllShards, Shards
  <2>2. paths = [i \in 1 .. SHARDS |-> paths[i]]
    BY <1>1, <1>5
  <2> QED
    BY <2>1, <2>2, <1>51
<1>7. ASSUME ~cleared PROVE (\A f \in Shards : blob[f] = "whole") /\ Listed
  <2>1. \A f \in Shards : blob[f] = "whole"
    BY <1>51, <1>7 DEF There, Shards
  <2>2. 1 \in Shards
    BY HubAssumption DEF Shards
  <2> QED
    BY <2>1, <2>2 DEF Listed
<1> QED
  BY <1>6, <1>7

\* A load that succeeds hands out the weights of the whole model, in order, and they are in the
\* cache unless someone deleted the model: for any number of shards, processes, workers and
\* retries, and however the Hub fails and processes are killed (client.rs: fetch_weights,
\* download_files_parallel, resolve_files).
THEOREM LoadedModelIsWhole == HubSpec => []ModelIsWhole
  BY HubInvInit, HubInvNext, HubInvIsEnough, PTL DEF HubSpec

-----------------------------------------------------------------------------
(* Thermal. The governor keeps its sampling rate and its range of threads, *)
(* for any number of callers and cores, any TICK and any clock.            *)

Tickers == [pc : {"idle", "timed", "due", "sample", "store"}, now : Nat, last : Nat, next : Floor .. CORES]

\* LAST_MS only moves when a caller that found it a TICK behind its own clock wins the exchange,
\* so each sample is paid for by a TICK; and whatever is stored was computed within the range.
ThInv ==
    /\ clock \in Nat /\ lastMs \in Nat /\ samples \in Nat /\ level \in 0 .. 3
    /\ target \in Floor .. CORES
    /\ ticker \in [Callers -> Tickers]
    /\ samples * TICK <= lastMs /\ lastMs <= clock
    /\ \A c \in Callers : /\ ticker[c].now <= clock
                          /\ ticker[c].pc = "due" => ticker[c].last + TICK <= ticker[c].now

\* Half the cores, or one: between one and all.
LEMMA FloorRange == Floor \in 1 .. CORES
  BY ThermalAssumption DEF Floor

LEMMA CapRange ==
    ASSUME NEW l \in 0 .. 3
    PROVE  ExternalCap(l) \in 1 .. CORES
<1>1. CORES \in Nat \ {0}
  BY ThermalAssumption
<1>2. /\ AtLeast1((CORES * 3) \div 4) \in 1 .. CORES
      /\ AtLeast1(CORES \div 2) \in 1 .. CORES
      /\ AtLeast1(CORES \div 4) \in 1 .. CORES
  BY <1>1 DEF AtLeast1
<1> HIDE DEF AtLeast1
<1>3. l = 0 \/ l = 1 \/ l = 2 \/ l = 3
  OBVIOUS
<1> QED
  BY <1>1, <1>2, <1>3 DEF ExternalCap

LEMMA ThInvInit == ThInit => ThInv
<1> SUFFICES ASSUME ThInit PROVE ThInv
  OBVIOUS
<1>1. CORES \in Floor .. CORES
  BY FloorRange, ThermalAssumption
<1>2. [pc |-> "idle", now |-> 0, last |-> 0, next |-> CORES] \in Tickers
  BY <1>1 DEF Tickers
<1> QED
  BY <1>1, <1>2, ThermalAssumption DEF ThInit, ThInv

LEMMA ThInvNext == ThInv /\ [ThNext]_thVars => ThInv'
<1> SUFFICES ASSUME ThInv, [ThNext]_thVars PROVE ThInv'
  OBVIOUS
<1> USE ThermalAssumption
<1> USE DEF ThInv
<1>0. Floor' = Floor
  BY DEF Floor
<1>1. CASE UNCHANGED thVars
  BY <1>1, <1>0 DEF thVars, Tickers
<1>2. CASE TimePasses
  BY <1>2, <1>0 DEF TimePasses, Tickers
<1>3. CASE SetLevel
  BY <1>3, <1>0 DEF SetLevel, Tickers
<1>4. ASSUME NEW c \in Callers, ReadTime(c)
      PROVE  ThInv'
  <2>1. ticker' = [ticker EXCEPT ![c] = [ticker[c] EXCEPT !.pc = "timed", !.now = clock]]
    BY <1>4 DEF ReadTime, SetTicker
  <2>2. UNCHANGED <<clock, lastMs, target, level, samples>>
    BY <1>4 DEF ReadTime
  <2>3. [ticker[c] EXCEPT !.pc = "timed", !.now = clock] \in Tickers
    BY DEF Tickers
  <2>4. ticker' \in [Callers -> Tickers]
    BY <2>1, <2>3
  <2>5. \A d \in Callers : /\ ticker'[d].now <= clock
                           /\ ticker'[d].pc = "due" => ticker'[d].last + TICK <= ticker'[d].now
    BY <2>1 DEF Tickers
  <2> QED
    BY <2>2, <2>4, <2>5, <1>0 DEF Tickers
<1>5. ASSUME NEW c \in Callers, ReadLast(c)
      PROVE  ThInv'
  <2> DEFINE to == IF ticker[c].now < lastMs + TICK THEN "idle" ELSE "due"
             t  == [ticker[c] EXCEPT !.pc = to, !.last = lastMs]
  <2>1. ticker' = [ticker EXCEPT ![c] = t]
    BY <1>5 DEF ReadLast, SetTicker
  <2>2. UNCHANGED <<clock, lastMs, target, level, samples>>
    BY <1>5 DEF ReadLast
  <2>3. t \in Tickers /\ t.now = ticker[c].now
    BY DEF Tickers
  <2>4. t.pc = "due" => t.last + TICK <= t.now
    BY DEF Tickers
  <2> HIDE DEF t, to
  <2>5. ticker' \in [Callers -> Tickers]
    BY <2>1, <2>3
  <2>6. \A d \in Callers : /\ ticker'[d].now <= clock
                           /\ ticker'[d].pc = "due" => ticker'[d].last + TICK <= ticker'[d].now
    BY <2>1, <2>3, <2>4
  <2> QED
    BY <2>2, <2>5, <2>6, <1>0 DEF Tickers
<1>6. ASSUME NEW c \in Callers, Exchange(c)
      PROVE  ThInv'
  <2>1. CASE lastMs = ticker[c].last
    <3>1. lastMs' = ticker[c].now /\ samples' = samples + 1 /\ UNCHANGED <<clock, target, level>>
      BY <1>6, <2>1 DEF Exchange
    <3>2. lastMs + TICK <= ticker[c].now /\ ticker[c].now \in Nat
      BY <1>6, <2>1 DEF Exchange, Tickers
    <3>3. (samples + 1) * TICK = samples * TICK + TICK /\ samples * TICK \in Nat
      OBVIOUS
    <3>4. (samples * TICK)' <= lastMs' /\ lastMs' <= clock' /\ lastMs' \in Nat /\ samples' \in Nat
      BY <3>1, <3>2, <3>3
    <3>5. ticker' = [ticker EXCEPT ![c] = [ticker[c] EXCEPT !.pc = "sample"]]
      BY <1>6, <2>1 DEF Exchange, SetTicker
    <3>6. /\ ticker' \in [Callers -> Tickers]
          /\ \A d \in Callers : /\ ticker'[d].now <= clock
                                /\ ticker'[d].pc = "due" => ticker'[d].last + TICK <= ticker'[d].now
      BY <3>5 DEF Tickers
    <3> QED
      BY <3>1, <3>4, <3>6, <1>0 DEF Tickers
  <2>2. CASE lastMs # ticker[c].last
    BY <1>6, <2>2, <1>0 DEF Exchange, SetTicker, Tickers
  <2> QED
    BY <2>1, <2>2
<1>7. ASSUME NEW c \in Callers, Sample(c)
      PROVE  ThInv'
  <2>1. Floor \in 1 .. CORES
    BY FloorRange
  <2>2. PICK t \in Tickers : /\ ticker' = [ticker EXCEPT ![c] = t]
                             /\ t.now = ticker[c].now /\ t.pc # "due"
    <3> DEFINE more == [ticker[c] EXCEPT !.pc = "store", !.next = target + 1]
               less == [ticker[c] EXCEPT !.pc = "store", !.next = target - 1]
               same == [ticker[c] EXCEPT !.pc = "idle"]
    <3>0. /\ target < CORES => target + 1 \in Floor .. CORES
          /\ target > Floor => target - 1 \in Floor .. CORES
          /\ ticker[c] \in Tickers
      BY <2>1
    <3>1. target < CORES => more \in Tickers /\ more.now = ticker[c].now /\ more.pc # "due"
      <4> DEFINE n == target + 1
      <4> SUFFICES ASSUME n \in Floor .. CORES
                   PROVE  LET t == [ticker[c] EXCEPT !.pc = "store", !.next = n]
                          IN  t \in Tickers /\ t.now = ticker[c].now /\ t.pc # "due"
        BY <3>0
      <4> HIDE DEF n
      <4> QED
        BY <3>0 DEF Tickers
    <3>2. target > Floor => less \in Tickers /\ less.now = ticker[c].now /\ less.pc # "due"
      <4> DEFINE n == target - 1
      <4> SUFFICES ASSUME n \in Floor .. CORES
                   PROVE  LET t == [ticker[c] EXCEPT !.pc = "store", !.next = n]
                          IN  t \in Tickers /\ t.now = ticker[c].now /\ t.pc # "due"
        BY <3>0
      <4> HIDE DEF n
      <4> QED
        BY <3>0 DEF Tickers
    <3>3. same \in Tickers /\ same.now = ticker[c].now /\ same.pc # "due"
      BY DEF Tickers
    <3>4. \/ target < CORES /\ ticker' = [ticker EXCEPT ![c] = more]
          \/ target > Floor /\ ticker' = [ticker EXCEPT ![c] = less]
          \/ ticker' = [ticker EXCEPT ![c] = same]
      BY <1>7 DEF Sample, SetTicker
    <3> HIDE DEF more, less, same
    <3> QED
      BY <3>1, <3>2, <3>3, <3>4
  <2> QED
    BY <1>7, <2>2, <1>0 DEF Sample, Tickers
<1>8. ASSUME NEW c \in Callers, StoreTarget(c)
      PROVE  ThInv'
  BY <1>8, <1>0 DEF StoreTarget, SetTicker, Tickers
<1> QED
  BY <1>1, <1>2, <1>3, <1>4, <1>5, <1>6, <1>7, <1>8 DEF ThNext, Sampling

LEMMA ThInvIsEnough == ThInv => SampledInTime
<1> SUFFICES ASSUME ThInv PROVE SampledInTime
  OBVIOUS
<1>1. target \in 1 .. CORES
  BY FloorRange DEF ThInv
<1>2. ExternalCap(level) \in 1 .. CORES
  BY CapRange DEF ThInv
<1>3. EffectiveThreads \in 1 .. CORES
  BY <1>1, <1>2 DEF EffectiveThreads
<1> QED
  BY <1>3 DEF ThInv, SampledInTime

\* Samples never come faster than one per TICK, and the threads stay in their range, however
\* the callers of tick() interleave.
THEOREM SamplesAreRare == ThSpec => []SampledInTime
<1>1. ThInv => SampledInTime
  BY ThInvIsEnough
<1> QED
  BY <1>1, ThInvInit, ThInvNext, PTL DEF ThSpec

-----------------------------------------------------------------------------
(* MatmulPlan. For shapes, chunks, panels and blocks of every size, each   *)
(* plan of a matmul writes each cell of the output once, from its own      *)
(* rows.  First the chunks of a matrix-vector product, which are a         *)
(* partition of the output, and gemv_parallel.                             *)

\* n.div_ceil(chunk) chunks are enough, and one fewer would not be.
LEMMA DivCeilBounds ==
    ASSUME NEW a \in Nat, NEW b \in Nat \ {0}
    PROVE  /\ DivCeil(a, b) \in Nat
           /\ a <= DivCeil(a, b) * b
           /\ DivCeil(a, b) * b < a + b
<1> DEFINE q == (a + b - 1) \div b
           r == (a + b - 1) % b
<1>1. a + b - 1 \in Nat
  OBVIOUS
<1>2. q \in Nat /\ r \in 0 .. b - 1 /\ a + b - 1 = b * q + r
  BY <1>1
<1>3. b * q = q * b
  BY <1>2
<1>4. DivCeil(a, b) = q
  BY DEF DivCeil
<1> HIDE DEF q, r
<1> QED
  BY <1>2, <1>3, <1>4

\* Multiples of b that are apart.
LEMMA Apart ==
    ASSUME NEW c \in Nat, NEW d \in Nat, NEW b \in Nat, c < d
    PROVE  c * b + b <= d * b
<1>1. PICK e \in Nat : d = c + 1 + e
  <2>1. d - c - 1 \in Nat /\ d = c + 1 + (d - c - 1)
    OBVIOUS
  <2> QED
    BY <2>1
<1>2. d * b = c * b + b + e * b
  BY <1>1
<1>3. e * b \in Nat
  OBVIOUS
<1> QED
  BY <1>2, <1>3

\* Two chunks share no cell.
LEMMA Disjoint ==
    ASSUME NEW len \in Nat, NEW chunk \in Nat \ {0}, NEW c1 \in Nat, NEW c2 \in Nat, c1 < c2
    PROVE  Slice(len, chunk, c1) \cap Slice(len, chunk, c2) = {}
<1>1. c1 * chunk + chunk <= c2 * chunk
  BY Apart
<1>2. c1 * chunk \in Nat /\ c2 * chunk \in Nat
  OBVIOUS
<1> DEFINE p == c1 * chunk
           q == c2 * chunk
<1> SUFFICES p .. MinOf(p + chunk, len) - 1 \cap q .. MinOf(q + chunk, len) - 1 = {}
  BY DEF Slice
<1> HIDE DEF p, q
<1> QED
  BY <1>1, <1>2 DEF MinOf, p, q

\* for_each_out_chunk: the slices handed to its tasks are disjoint and are all of the output.
THEOREM SlicesPartitionTheorem ==
    \A len \in Nat, chunk \in Nat \ {0} : SlicesPartition(len, chunk)
<1> TAKE len \in Nat, chunk \in Nat \ {0}
<1>1. /\ DivCeil(len, chunk) \in Nat
      /\ len <= DivCeil(len, chunk) * chunk
      /\ DivCeil(len, chunk) * chunk < len + chunk
  BY DivCeilBounds
<1>2. ASSUME NEW c1 \in Chunks(len, chunk), NEW c2 \in Chunks(len, chunk), c1 # c2
      PROVE  Slice(len, chunk, c1) \cap Slice(len, chunk, c2) = {}
  <2>1. c1 \in Nat /\ c2 \in Nat
    BY <1>1 DEF Chunks
  <2>2. c1 < c2 \/ c2 < c1
    BY <1>2, <2>1
  <2> QED
    BY <2>1, <2>2, Disjoint
<1>3. ASSUME NEW ci \in Chunks(len, chunk)
      PROVE  Slice(len, chunk, ci) \subseteq 0 .. len - 1
  <2>1. ci \in Nat /\ ci * chunk \in Nat
    BY <1>1 DEF Chunks
  <2> QED
    BY <2>1 DEF Slice, MinOf
<1>4. ASSUME NEW p \in 0 .. len - 1
      PROVE  \E ci \in Chunks(len, chunk) : p \in Slice(len, chunk, ci)
  <2> DEFINE ci == p \div chunk
  <2>1. ci \in Nat /\ p % chunk \in 0 .. chunk - 1 /\ p = chunk * ci + (p % chunk)
    OBVIOUS
  <2> HIDE DEF ci
  <2>2. chunk * ci = ci * chunk /\ ci * chunk \in Nat
    BY <2>1
  <2>3. p \in Slice(len, chunk, ci)
    BY <2>1, <2>2 DEF Slice, MinOf
  <2>4. ci < DivCeil(len, chunk)
    <3> SUFFICES ASSUME DivCeil(len, chunk) <= ci
                 PROVE  FALSE
      BY <1>1, <2>1
    <3>1. DivCeil(len, chunk) * chunk <= ci * chunk
      <4>1. CASE DivCeil(len, chunk) = ci
        BY <4>1, <2>2
      <4>2. CASE DivCeil(len, chunk) < ci
        <5>1. DivCeil(len, chunk) * chunk + chunk <= ci * chunk
          BY <4>2, <1>1, <2>1, Apart
        <5> QED
          BY <5>1, <1>1, <2>2
      <4> QED
        BY <4>1, <4>2, <1>1, <2>1
    <3> QED
      BY <3>1, <2>1, <2>2, <1>1
  <2> QED
    BY <2>1, <2>3, <2>4, <1>1 DEF Chunks
<1> QED
  BY <1>2, <1>3, <1>4 DEF SlicesPartition

\* Cells of a row-major matrix of n columns.
LEMMA RowMajor ==
    ASSUME NEW n \in Nat, NEW i \in Nat, NEW k \in Nat, NEW a \in 0 .. n - 1, NEW b \in 0 .. n - 1,
           i * n + a = k * n + b
    PROVE  i = k /\ a = b
<1>1. ASSUME i < k PROVE FALSE
  <2>1. i * n + n <= k * n
    BY <1>1, Apart
  <2>2. i * n \in Nat /\ k * n \in Nat
    OBVIOUS
  <2> QED
    BY <2>1, <2>2
<1>2. ASSUME k < i PROVE FALSE
  <2>1. k * n + n <= i * n
    BY <1>2, Apart
  <2>2. i * n \in Nat /\ k * n \in Nat
    OBVIOUS
  <2> QED
    BY <2>1, <2>2
<1>3. i = k
  BY <1>1, <1>2
<1>4. i * n \in Nat
  OBVIOUS
<1> QED
  BY <1>3, <1>4

\* gemv_parallel: every cell of the output is written by one task, once, with the product of its
\* own weight row and activation row.
THEOREM GemvParallelTheorem ==
    \A m \in Nat, n \in Nat, chunk \in Nat \ {0} : WritesEachOnce(GemvParallel(m, n, chunk), m, n)
<1> TAKE m \in Nat, n \in Nat, chunk \in Nat \ {0}
<1> DEFINE T == UNION {{ci} \X Slice(n, chunk, ci) : ci \in Chunks(n, chunk)}
           plan == GemvParallel(m, n, chunk)
<1>1. SlicesPartition(n, chunk)
  BY SlicesPartitionTheorem
<1>2. plan = {Write(<<i, t>>, i * n + t[2], t[2], i) : i \in 0 .. m - 1, t \in T}
  BY DEF GemvParallel
<1>3. ASSUME NEW t \in T
      PROVE  /\ t = <<t[1], t[2]>>
             /\ t[1] \in Chunks(n, chunk)
             /\ t[2] \in Slice(n, chunk, t[1])
             /\ t[2] \in 0 .. n - 1
  BY <1>1 DEF SlicesPartition
<1>4. ASSUME NEW s \in T, NEW t \in T, s[2] = t[2]
      PROVE  s = t
  BY <1>1, <1>3, <1>4 DEF SlicesPartition
<1>5. ASSUME NEW j \in 0 .. n - 1
      PROVE  \E t \in T : t[2] = j
  <2>1. PICK ci \in Chunks(n, chunk) : j \in Slice(n, chunk, ci)
    BY <1>1 DEF SlicesPartition
  <2>2. <<ci, j>> \in T /\ <<ci, j>>[2] = j
    BY <2>1
  <2> QED
    BY <2>2
<1> HIDE DEF T, plan
<1>6. ASSUME NEW p \in plan
      PROVE  \E i \in 0 .. m - 1, t \in T :
                 p = [by |-> <<i, t>>, out |-> i * n + t[2], w |-> t[2], x |-> i]
  BY <1>2 DEF Write
<1>7. ASSUME NEW p \in plan, NEW q \in plan, p.out = q.out
      PROVE  p = q
  <2>1. PICK i \in 0 .. m - 1, s \in T : p = [by |-> <<i, s>>, out |-> i * n + s[2], w |-> s[2], x |-> i]
    BY <1>6
  <2>2. PICK k \in 0 .. m - 1, t \in T : q = [by |-> <<k, t>>, out |-> k * n + t[2], w |-> t[2], x |-> k]
    BY <1>6
  <2>3. s[2] \in 0 .. n - 1 /\ t[2] \in 0 .. n - 1
    BY <1>3
  <2>4. i * n + s[2] = k * n + t[2]
    BY <1>7, <2>1, <2>2
  <2>5. i = k /\ s[2] = t[2]
    BY <2>3, <2>4, RowMajor
  <2>6. s = t
    BY <2>5, <1>4
  <2> QED
    BY <2>1, <2>2, <2>5, <2>6
<1>8. ASSUME NEW p \in plan
      PROVE  p.out = p.x * n + p.w /\ p.out \in 0 .. m * n - 1
  <2>1. PICK i \in 0 .. m - 1, t \in T : p = [by |-> <<i, t>>, out |-> i * n + t[2], w |-> t[2], x |-> i]
    BY <1>6
  <2>2. t[2] \in 0 .. n - 1
    BY <1>3
  <2>3. i * n \in Nat /\ m * n \in Nat /\ i * n + n <= m * n
    BY Apart
  <2> QED
    BY <2>1, <2>2, <2>3
<1>9. ASSUME NEW c \in 0 .. m * n - 1
      PROVE  \E p \in plan : p.out = c
  <2>1. n \in Nat \ {0}
    <3>1. n = 0 => m * n = 0
      OBVIOUS
    <3> QED
      BY <3>1
  <2> DEFINE i == c \div n
             j == c % n
  <2>2. i \in Nat /\ j \in 0 .. n - 1 /\ c = n * i + j
    BY <2>1
  <2> HIDE DEF i, j
  <2>3. n * i = i * n /\ i * n \in Nat /\ m * n \in Nat
    BY <2>2
  <2>4. i < m
    <3> SUFFICES ASSUME m <= i PROVE FALSE
      BY <2>2
    <3>1. m * n <= i * n
      <4>1. CASE m = i
        BY <4>1, <2>3
      <4>2. CASE m < i
        <5>1. m * n + n <= i * n
          BY <4>2, <2>2, Apart
        <5> QED
          BY <5>1, <2>3
      <4> QED
        BY <4>1, <4>2, <2>2
    <3> QED
      BY <3>1, <2>2, <2>3
  <2>5. PICK t \in T : t[2] = j
    BY <2>2, <1>5
  <2>6. Write(<<i, t>>, i * n + t[2], t[2], i) \in plan
    BY <1>2, <2>2, <2>4
  <2>7. Write(<<i, t>>, i * n + t[2], t[2], i).out = c
    BY <2>2, <2>3, <2>5 DEF Write
  <2> QED
    BY <2>6, <2>7
<1> QED
  BY <1>7, <1>8, <1>9 DEF WritesEachOnce, plan
-----------------------------------------------------------------------------
(* The tiled plans. A plan is put together from boxes: every weight row of *)
(* a set against every activation row of another.                          *)

\* The plan fills the cells of the columns ws in the rows xs, each once, from their own rows.
Fills(plan, n, ws, xs) ==
    /\ \A p \in plan : p.w \in ws /\ p.x \in xs /\ p.out = p.x * n + p.w
    /\ \A x \in xs, w \in ws : \E p \in plan : p.x = x /\ p.w = w
    /\ \A p, q \in plan : p.x = q.x /\ p.w = q.w => p = q

\* v numbers the elements of I from lo to below hi.
Numbers(v, I, lo, hi) ==
    /\ \A i \in I : v[i] \in lo .. hi - 1
    /\ \A j \in lo .. hi - 1 : \E i \in I : v[i] = j
    /\ \A i, j \in I : v[i] = v[j] => i = j

\* The sets X[a] are disjoint and together the numbers below m.
Divides(X, A, m) ==
    /\ \A a \in A : X[a] \subseteq 0 .. m - 1
    /\ \A j \in 0 .. m - 1 : \E a \in A : j \in X[a]
    /\ \A a, b \in A, j \in 0 .. m - 1 : j \in X[a] /\ j \in X[b] => a = b

\* The plan has one write per pair of an i and a k: of the column v[i] in the row u[k].
IsBox(plan, n, F, v, I, u, K) ==
    /\ \A p \in plan : \E i \in I, k \in K : p = F[<<i, k>>]
    /\ \A i \in I, k \in K :
          /\ F[<<i, k>>] \in plan /\ F[<<i, k>>].w = v[i] /\ F[<<i, k>>].x = u[k]
          /\ F[<<i, k>>].out = u[k] * n + v[i]

\* The plan is a part F[<<a, b>>] for the rows X[a] and the columns W[b], for every a and b.
IsGrid(plan, n, F, X, A, W, B) ==
    /\ \A p \in plan : \E a \in A, b \in B : p \in F[<<a, b>>]
    /\ \A a \in A, b \in B : F[<<a, b>>] \subseteq plan /\ Fills(F[<<a, b>>], n, W[b], X[a])

LEMMA WriteIs ==
    ASSUME NEW by, NEW out, NEW w, NEW x, NEW p, p = Write(by, out, w, x)
    PROVE  p.by = by /\ p.out = out /\ p.w = w /\ p.x = x
  BY DEF Write

\* Where a cell of a row-major matrix is.
LEMMA CellIs ==
    ASSUME NEW m \in Nat, NEW n \in Nat, NEW c \in 0 .. m * n - 1
    PROVE  \E x \in 0 .. m - 1, w \in 0 .. n - 1 : c = x * n + w
<1>1. m * n \in Nat /\ c \in Nat
  OBVIOUS
<1>2. n \in Nat \ {0}
  <2>1. n = 0 => m * n = 0
    OBVIOUS
  <2> QED
    BY <1>1, <2>1
<1> DEFINE x == c \div n
           w == c % n
<1>3. x \in Nat /\ w \in 0 .. n - 1 /\ c = n * x + w
  BY <1>1, <1>2
<1> HIDE DEF x, w
<1>4. n * x = x * n /\ x * n \in Nat
  BY <1>3
<1>5. x < m
  <2> SUFFICES ASSUME m <= x PROVE FALSE
    BY <1>3
  <2>1. m * n <= x * n
    <3>1. CASE m = x
      BY <3>1, <1>4
    <3>2. CASE m < x
      <4>1. m * n + n <= x * n
        BY <3>2, <1>3, Apart
      <4> QED
        BY <4>1, <1>1, <1>4
    <3> QED
      BY <3>1, <3>2, <1>3
  <2> QED
    BY <2>1, <1>1, <1>3, <1>4
<1>6. x \in 0 .. m - 1 /\ c = x * n + w
  BY <1>3, <1>4, <1>5
<1> QED
  BY <1>3, <1>6

\* A plan that fills the output writes every cell once.
LEMMA CellByCell ==
    ASSUME NEW m \in Nat, NEW n \in Nat, NEW plan, Fills(plan, n, 0 .. n - 1, 0 .. m - 1)
    PROVE  WritesEachOnce(plan, m, n)
<1>1. \A p \in plan : p.w \in 0 .. n - 1 /\ p.x \in 0 .. m - 1 /\ p.out = p.x * n + p.w
  BY DEF Fills
<1>2. ASSUME NEW p \in plan PROVE p.out \in 0 .. m * n - 1
  <2>1. PICK x \in 0 .. m - 1, w \in 0 .. n - 1 : p.out = x * n + w
    BY <1>1
  <2>2. x * n \in Nat /\ m * n \in Nat /\ x * n + n <= m * n
    BY Apart
  <2> QED
    BY <2>1, <2>2
<1>3. ASSUME NEW c \in 0 .. m * n - 1 PROVE \E p \in plan : p.out = c
  <2>1. PICK x \in 0 .. m - 1, w \in 0 .. n - 1 : c = x * n + w
    BY CellIs
  <2>2. PICK p \in plan : p.x = x /\ p.w = w
    BY DEF Fills
  <2> QED
    BY <1>1, <2>1, <2>2
<1>4. ASSUME NEW p \in plan, NEW q \in plan, p.out = q.out PROVE p = q
  <2>1. PICK x \in 0 .. m - 1, w \in 0 .. n - 1 : x = p.x /\ w = p.w /\ p.out = x * n + w
    BY <1>1
  <2>2. PICK y \in 0 .. m - 1, v \in 0 .. n - 1 : y = q.x /\ v = q.w /\ q.out = y * n + v
    BY <1>1
  <2>3. x = y /\ w = v
    <3>1. x * n + w = y * n + v
      BY <1>4, <2>1, <2>2
    <3> QED
      BY <3>1, RowMajor
  <2>4. p.x = q.x /\ p.w = q.w
    BY <2>1, <2>2, <2>3
  <2> QED
    BY <2>4 DEF Fills
<1>5. {p.out : p \in plan} = 0 .. m * n - 1
  BY <1>2, <1>3
<1> QED
  BY <1>1, <1>4, <1>5 DEF WritesEachOnce

\* Two plans for other columns, or other rows.
LEMMA FillsBeside ==
    ASSUME NEW n, NEW ws, NEW vs, NEW xs, NEW P, NEW Q, Fills(P, n, ws, xs), Fills(Q, n, vs, xs), ws \cap vs = {}
    PROVE  Fills(P \cup Q, n, ws \cup vs, xs)
  BY DEF Fills

LEMMA FillsBelow ==
    ASSUME NEW n, NEW ws, NEW ys, NEW xs, NEW P, NEW Q, Fills(P, n, ws, xs), Fills(Q, n, ws, ys), xs \cap ys = {}
    PROVE  Fills(P \cup Q, n, ws, xs \cup ys)
  BY DEF Fills

\* Rows and columns divided, and a plan for each box.
LEMMA FillsGrid ==
    ASSUME NEW m \in Nat, NEW n \in Nat, NEW A, NEW B, NEW X, NEW W, Divides(X, A, m), Divides(W, B, n),
           NEW F, NEW plan, IsGrid(plan, n, F, X, A, W, B)
    PROVE  WritesEachOnce(plan, m, n)
<1>1. ASSUME NEW p \in plan
      PROVE  \E a \in A, b \in B : /\ p \in F[<<a, b>>] /\ p.w \in W[b] /\ p.x \in X[a]
                                  /\ p.out = p.x * n + p.w
  <2>1. PICK a \in A, b \in B : p \in F[<<a, b>>]
    BY DEF IsGrid
  <2>2. p.w \in W[b] /\ p.x \in X[a] /\ p.out = p.x * n + p.w
    BY <2>1 DEF IsGrid, Fills
  <2> QED
    BY <2>1, <2>2
<1>2. ASSUME NEW p \in plan PROVE p.w \in 0 .. n - 1 /\ p.x \in 0 .. m - 1 /\ p.out = p.x * n + p.w
  <2>1. PICK a \in A, b \in B : p.w \in W[b] /\ p.x \in X[a] /\ p.out = p.x * n + p.w
    BY <1>1
  <2>2. W[b] \subseteq 0 .. n - 1 /\ X[a] \subseteq 0 .. m - 1
    BY DEF Divides
  <2> QED
    BY <2>1, <2>2
<1>3. ASSUME NEW x \in 0 .. m - 1, NEW w \in 0 .. n - 1 PROVE \E p \in plan : p.x = x /\ p.w = w
  <2>1. PICK a \in A, b \in B : x \in X[a] /\ w \in W[b]
    BY DEF Divides
  <2>2. PICK p \in F[<<a, b>>] : p.x = x /\ p.w = w
    BY <2>1 DEF IsGrid, Fills
  <2> QED
    BY <2>2 DEF IsGrid
<1>4. ASSUME NEW p \in plan, NEW q \in plan, p.x = q.x, p.w = q.w PROVE p = q
  <2>1. PICK a \in A, b \in B : p \in F[<<a, b>>] /\ p.w \in W[b] /\ p.x \in X[a]
    BY <1>1
  <2>2. PICK c \in A, d \in B : q \in F[<<c, d>>] /\ q.w \in W[d] /\ q.x \in X[c]
    BY <1>1
  <2>3. a = c /\ b = d
    BY <1>2, <1>4, <2>1, <2>2 DEF Divides
  <2> QED
    BY <1>4, <2>1, <2>2, <2>3 DEF IsGrid, Fills
<1>5. Fills(plan, n, 0 .. n - 1, 0 .. m - 1)
  BY <1>2, <1>3, <1>4 DEF Fills
<1> QED
  BY <1>5, CellByCell

\* One box: the columns that v numbers in the rows that u numbers.
LEMMA BoxFills ==
    ASSUME NEW n, NEW I, NEW K, NEW a \in Int, NEW b \in Int, NEW c \in Int, NEW d \in Int, NEW v, NEW u,
           Numbers(v, I, a, b), Numbers(u, K, c, d),
           NEW ws, ws = a .. b - 1, NEW xs, xs = c .. d - 1,
           NEW F, NEW plan, IsBox(plan, n, F, v, I, u, K)
    PROVE  Fills(plan, n, ws, xs)
<1>1. /\ \A p \in plan : \E i \in I, k \in K : p = F[<<i, k>>]
      /\ \A i \in I, k \in K : /\ F[<<i, k>>] \in plan /\ F[<<i, k>>].w = v[i] /\ F[<<i, k>>].x = u[k]
                               /\ F[<<i, k>>].out = u[k] * n + v[i]
  BY DEF IsBox
<1>2. ASSUME NEW p \in plan PROVE p.w \in ws /\ p.x \in xs /\ p.out = p.x * n + p.w
  <2>1. PICK i \in I, k \in K : p = F[<<i, k>>]
    BY <1>1
  <2>2. p.w = v[i] /\ p.x = u[k] /\ p.out = u[k] * n + v[i]
    BY <1>1, <2>1
  <2> QED
    BY <2>2 DEF Numbers
<1>3. ASSUME NEW x \in xs, NEW w \in ws PROVE \E p \in plan : p.x = x /\ p.w = w
  <2>1. PICK i \in I : v[i] = w
    BY DEF Numbers
  <2>2. PICK k \in K : u[k] = x
    BY DEF Numbers
  <2>3. F[<<i, k>>] \in plan /\ F[<<i, k>>].w = w /\ F[<<i, k>>].x = x
    BY <1>1, <2>1, <2>2
  <2> QED
    BY <2>3
<1>4. ASSUME NEW p \in plan, NEW q \in plan, p.x = q.x, p.w = q.w PROVE p = q
  <2>1. PICK i \in I, k \in K : p = F[<<i, k>>]
    BY <1>1
  <2>2. PICK j \in I, l \in K : q = F[<<j, l>>]
    BY <1>1
  <2>3. v[i] = v[j] /\ u[k] = u[l]
    BY <1>1, <1>4, <2>1, <2>2
  <2>4. i = j /\ k = l
    BY <2>3 DEF Numbers
  <2> QED
    BY <2>1, <2>2, <2>4
<1> QED
  BY <1>2, <1>3, <1>4 DEF Fills

\* One write per t, of the column v[t] in the row i.
IsRow(plan, n, F, v, T, i) ==
    /\ \A p \in plan : \E t \in T : p = F[t]
    /\ \A t \in T : F[t] \in plan /\ F[t].w = v[t] /\ F[t].x = i /\ F[t].out = i * n + v[t]

\* One row: the columns that v numbers.
LEMMA RowFills ==
    ASSUME NEW n, NEW T, NEW i, NEW a \in Int, NEW b \in Int, NEW v, Numbers(v, T, a, b), NEW ws, ws = a .. b - 1,
           NEW F, NEW plan, IsRow(plan, n, F, v, T, i), NEW xs, xs = {i}
    PROVE  Fills(plan, n, ws, xs)
<1>1. ASSUME NEW p \in plan PROVE p.w \in ws /\ p.x \in xs /\ p.out = p.x * n + p.w
  BY DEF IsRow, Numbers
<1>2. ASSUME NEW x \in xs, NEW w \in ws PROVE \E p \in plan : p.x = x /\ p.w = w
  <2>1. PICK t \in T : v[t] = w
    BY DEF Numbers
  <2> QED
    BY <2>1 DEF IsRow
<1>3. ASSUME NEW p \in plan, NEW q \in plan, p.x = q.x, p.w = q.w PROVE p = q
  <2>1. PICK t \in T, u \in T : p = F[t] /\ q = F[u]
    BY DEF IsRow
  <2>2. v[t] = v[u]
    BY <1>3, <2>1 DEF IsRow
  <2> QED
    BY <2>1, <2>2 DEF Numbers
<1> QED
  BY <1>1, <1>2, <1>3 DEF Fills

-----------------------------------------------------------------------------
(* What the loops count.                                                   *)

\* Numbers shifted by j0.
Shifted(u, v, I, j0) == \A i \in I : u[i] = j0 + v[i]

LEMMA NumbersFrom ==
    ASSUME NEW v, NEW I, NEW a \in Int, NEW b \in Int, NEW j0 \in Int, Numbers(v, I, a, b),
           NEW u, Shifted(u, v, I, j0), NEW lo, lo = j0 + a, NEW hi, hi = j0 + b
    PROVE  Numbers(u, I, lo, hi)
<1>1. \A i \in I : v[i] \in a .. b - 1 /\ u[i] = j0 + v[i]
  BY DEF Numbers, Shifted
<1>2. \A i \in I : u[i] \in lo .. hi - 1
  BY <1>1
<1>3. ASSUME NEW j \in lo .. hi - 1 PROVE \E i \in I : u[i] = j
  <2>1. j - j0 \in a .. b - 1
    OBVIOUS
  <2>2. PICK i \in I : v[i] = j - j0
    BY <2>1 DEF Numbers
  <2> QED
    BY <1>1, <2>2
<1>4. ASSUME NEW i \in I, NEW j \in I, u[i] = u[j] PROVE i = j
  <2>1. v[i] = v[j]
    BY <1>1, <1>4
  <2> QED
    BY <2>1 DEF Numbers
<1> QED
  BY <1>2, <1>3, <1>4 DEF Numbers

\* Two loops one after the other.
LEMMA NumbersOn ==
    ASSUME NEW v, NEW I, NEW K, NEW a \in Int, NEW b \in Int, NEW c \in Int, a <= b, b <= c,
           Numbers(v, I, a, b), Numbers(v, K, b, c)
    PROVE  Numbers(v, I \cup K, a, c)
<1>1. \A i \in I : v[i] \in a .. b - 1
  BY DEF Numbers
<1>2. \A i \in K : v[i] \in b .. c - 1
  BY DEF Numbers
<1>3. \A i \in I \cup K : v[i] \in a .. c - 1
  BY <1>1, <1>2
<1>4. ASSUME NEW j \in a .. c - 1 PROVE \E i \in I \cup K : v[i] = j
  <2>1. j \in a .. b - 1 \/ j \in b .. c - 1
    OBVIOUS
  <2> QED
    BY <2>1 DEF Numbers
<1>5. ASSUME NEW i \in I, NEW k \in K PROVE v[i] # v[k]
  BY <1>1, <1>2
<1>6. ASSUME NEW i \in I \cup K, NEW j \in I \cup K, v[i] = v[j] PROVE i = j
  <2>1. (i \in I /\ j \in I) \/ (i \in K /\ j \in K)
    BY <1>5, <1>6
  <2> QED
    BY <1>6, <2>1 DEF Numbers
<1> QED
  BY <1>3, <1>4, <1>6 DEF Numbers

\* The start of a step and the lane in it.
Sums(T) == [t \in T |-> t[1] + t[2]]

\* d steps of w from lo.
Multiples(lo, d, w) == {lo + w * q : q \in 0 .. d - 1}

LEMMA PairIs ==
    ASSUME NEW A, NEW B, NEW t \in A \X B
    PROVE  t = <<t[1], t[2]>> /\ t[1] \in A /\ t[2] \in B
  OBVIOUS

\* Steps of w, with w lanes each.
LEMMA StepsNumber ==
    ASSUME NEW lo \in Nat, NEW d \in Nat, NEW w \in Nat \ {0}, NEW hi, hi = lo + w * d,
           NEW T, T = Multiples(lo, d, w) \X (0 .. w - 1), NEW v, \A t \in T : v[t] = t[1] + t[2]
    PROVE  Numbers(v, T, lo, hi)
<1>1. ASSUME NEW t \in T
      PROVE  \E q \in 0 .. d - 1, r \in 0 .. w - 1 : t = <<lo + w * q, r>> /\ v[t] = lo + (q * w + r)
  <2>1. PICK s \in Multiples(lo, d, w), r \in 0 .. w - 1 : t = <<s, r>>
    BY PairIs
  <2>2. PICK q \in 0 .. d - 1 : s = lo + w * q
    BY DEF Multiples
  <2>3. w * q = q * w /\ q * w \in Nat
    OBVIOUS
  <2>4. v[t] = s + r
    BY <2>1
  <2>5. v[t] = lo + (q * w + r)
    BY <2>2, <2>3, <2>4
  <2> QED
    BY <2>1, <2>2, <2>5
<1>2. w * d = d * w /\ d * w \in Nat
  OBVIOUS
<1>3. ASSUME NEW t \in T PROVE v[t] \in lo .. hi - 1
  <2>1. PICK q \in 0 .. d - 1, r \in 0 .. w - 1 : v[t] = lo + (q * w + r)
    BY <1>1
  <2>2. q * w \in Nat /\ q * w + w <= d * w
    BY Apart
  <2> QED
    BY <1>2, <2>1, <2>2
<1>4. ASSUME NEW j \in lo .. hi - 1 PROVE \E t \in T : v[t] = j
  <2>1. j - lo \in 0 .. d * w - 1
    BY <1>2
  <2>2. PICK q \in 0 .. d - 1, r \in 0 .. w - 1 : j - lo = q * w + r
    BY <2>1, CellIs
  <2>3. <<lo + w * q, r>> \in T
    BY DEF Multiples
  <2>4. w * q = q * w /\ q * w \in Nat
    OBVIOUS
  <2>5. v[<<lo + w * q, r>>] = j
    BY <2>2, <2>3, <2>4
  <2> QED
    BY <2>3, <2>5
<1>5. ASSUME NEW t \in T, NEW u \in T, v[t] = v[u] PROVE t = u
  <2>1. PICK q \in 0 .. d - 1, r \in 0 .. w - 1 : t = <<lo + w * q, r>> /\ v[t] = lo + (q * w + r)
    BY <1>1
  <2>2. PICK p \in 0 .. d - 1, s \in 0 .. w - 1 : u = <<lo + w * p, s>> /\ v[u] = lo + (p * w + s)
    BY <1>1
  <2>3. q * w \in Nat /\ p * w \in Nat
    OBVIOUS
  <2>4. q * w + r = p * w + s
    BY <1>5, <2>1, <2>2, <2>3
  <2>5. q = p /\ r = s
    BY <2>4, RowMajor
  <2> QED
    BY <2>1, <2>2, <2>5
<1> QED
  BY ONLY <1>3, <1>4, <1>5 DEF Numbers

\* A loop one by one, written as pairs or not.
LEMMA OnesNumber ==
    ASSUME NEW lo \in Nat, NEW hi \in Int, NEW T, T = {<<q, 0>> : q \in lo .. hi - 1}, NEW v, \A t \in T : v[t] = t[1] + t[2]
    PROVE  Numbers(v, T, lo, hi)
<1>1. ASSUME NEW t \in T PROVE \E q \in lo .. hi - 1 : t = <<q, 0>> /\ v[t] = q
  OBVIOUS
<1>2. ASSUME NEW q \in lo .. hi - 1 PROVE <<q, 0>> \in T /\ v[<<q, 0>>] = q
  OBVIOUS
<1>3. \A t \in T : v[t] \in lo .. hi - 1
  BY <1>1
<1>4. \A q \in lo .. hi - 1 : \E t \in T : v[t] = q
  BY <1>2
<1>5. ASSUME NEW t \in T, NEW u \in T, v[t] = v[u] PROVE t = u
  BY <1>1, <1>5
<1> QED
  BY ONLY <1>3, <1>4, <1>5 DEF Numbers

LEMMA RangeNumber ==
    ASSUME NEW lo, NEW hi, NEW I, I = lo .. hi - 1, NEW v, \A i \in I : v[i] = i
    PROVE  Numbers(v, I, lo, hi)
  BY DEF Numbers

\* The largest multiple of 4.
LEMMA FloorIs ==
    ASSUME NEW a \in Nat
    PROVE  /\ a \div 4 \in Nat /\ Floor4(a) \in Nat /\ Floor4(a) = 4 * (a \div 4)
           /\ Floor4(a) <= a /\ a < Floor4(a) + 4 /\ a % 4 = 0 => Floor4(a) = a
  BY DEF Floor4

\* A loop in steps that ends at a multiple of the step.
LEMMA WholeSteps ==
    ASSUME NEW lo \in Nat, NEW d \in Nat, NEW w \in Nat \ {0}, NEW hi, hi = lo + w * d
    PROVE  StepBy(lo, hi, w) = Multiples(lo, d, w)
<1>1. w * d \in Nat /\ w * d = d * w
  OBVIOUS
<1> DEFINE steps == DivCeil(MaxOf(hi - lo, 0), w)
<1>2. MaxOf(hi - lo, 0) = w * d
  BY <1>1 DEF MaxOf
<1>3. DivCeil(w * d, w) = d
  <2> DEFINE a == w * d
             e == DivCeil(a, w)
  <2>1. e \in Nat /\ a <= e * w /\ e * w < a + w
    BY <1>1, DivCeilBounds
  <2> HIDE DEF e
  <2>2. e * w \in Nat
    BY <2>1
  <2>3. ~(e < d)
    <3> SUFFICES ASSUME e < d PROVE FALSE
      OBVIOUS
    <3>1. e * w + w <= d * w
      BY <2>1, Apart
    <3> QED
      BY <3>1, <2>1, <2>2, <1>1
  <2>4. ~(d < e)
    <3> SUFFICES ASSUME d < e PROVE FALSE
      OBVIOUS
    <3>1. d * w + w <= e * w
      BY <2>1, Apart
    <3> QED
      BY <3>1, <2>1, <2>2, <1>1
  <2>5. e = d
    BY <2>1, <2>3, <2>4
  <2> QED
    BY <2>5 DEF e
<1>4. steps = d
  BY <1>2, <1>3
<1>5. StepBy(lo, hi, w) = {lo + w * q : q \in 0 .. steps - 1}
  BY DEF StepBy
<1> HIDE DEF steps
<1> QED
  BY <1>4, <1>5 DEF Multiples

\* The slice of a task, from the first of its cells.
LEMMA SliceIs ==
    ASSUME NEW n \in Nat, NEW chunk \in Nat \ {0}, NEW ci \in Chunks(n, chunk),
           NEW a, a = ci * chunk, NEW len, len = MinOf(chunk, n - a)
    PROVE  /\ ci \in Nat /\ a \in Nat /\ len \in Nat \ {0} /\ a + len <= n
           /\ Slice(n, chunk, ci) = a .. a + len - 1
           /\ Cardinality(Slice(n, chunk, ci)) = len
           /\ a + len = MinOf(a + chunk, n)
<1>1. DivCeil(n, chunk) \in Nat /\ DivCeil(n, chunk) * chunk < n + chunk
  BY DivCeilBounds
<1>2. ci \in Nat /\ ci < DivCeil(n, chunk)
  BY <1>1 DEF Chunks
<1>3. a \in Nat /\ DivCeil(n, chunk) * chunk \in Nat
  BY <1>1, <1>2
<1>4. a + chunk <= DivCeil(n, chunk) * chunk
  BY <1>1, <1>2, Apart
<1>5. a < n
  BY <1>1, <1>3, <1>4
<1>6. len \in Nat \ {0} /\ a + len <= n /\ a + len = MinOf(a + chunk, n)
  BY <1>3, <1>5 DEF MinOf
<1>7. Slice(n, chunk, ci) = a .. a + len - 1
  BY <1>6 DEF Slice
<1>8. Cardinality(a .. a + len - 1) = len
  <2> DEFINE b == a + len - 1
  <2>1. a \in Int /\ b \in Int /\ ~(a > b) /\ b - a + 1 = len
    BY <1>3, <1>6
  <2> HIDE DEF b
  <2>2. Cardinality(a .. b) = len
    BY <2>1, FS_Interval
  <2> QED
    BY <2>2 DEF b
<1> QED
  BY <1>2, <1>3, <1>6, <1>7, <1>8

\* The slices of the tasks divide the columns, or the rows.
LEMMA SlicesDivide ==
    ASSUME NEW n \in Nat, NEW chunk \in Nat \ {0}, NEW W, \A ci \in Chunks(n, chunk) : W[ci] = Slice(n, chunk, ci)
    PROVE  Divides(W, Chunks(n, chunk), n)
<1>1. SlicesPartition(n, chunk)
  BY SlicesPartitionTheorem
<1> QED
  BY <1>1 DEF SlicesPartition, Divides

LEMMA RowsDivide ==
    ASSUME NEW m \in Nat, NEW X, \A i \in 0 .. m - 1 : X[i] = {i}
    PROVE  Divides(X, 0 .. m - 1, m)
  BY DEF Divides

LEMMA OneDivides ==
    ASSUME NEW m \in Nat, NEW X, X[0] = 0 .. m - 1
    PROVE  Divides(X, {0}, m)
  BY DEF Divides

\* The whole steps of a loop from lo, and where it stops.
LEMMA StepsReach ==
    ASSUME NEW lo \in Nat, NEW n \in Nat, lo <= n, NEW w \in Nat \ {0},
           NEW v, \A t \in Steps(lo, n, w) : v[t] = t[1] + t[2]
    PROVE  /\ Numbers(v, Steps(lo, n, w), lo, Reached(lo, n, w))
           /\ Reached(lo, n, w) \in lo .. n
           /\ n < Reached(lo, n, w) + w
           /\ \A t \in Steps(lo, n, w) : t = <<t[1], t[2]>> /\ t[1] \in Nat /\ t[2] \in Nat
<1> DEFINE d == (n - lo) \div w
           hi == lo + w * d
           T == Steps(lo, n, w)
<1>1. d \in Nat /\ w * d <= n - lo /\ n - lo < w * d + w /\ w * d \in Nat
  <2>1. n - lo \in Nat
    OBVIOUS
  <2> DEFINE a == n - lo
             r == a % w
  <2>2. d \in Nat /\ r \in 0 .. w - 1 /\ a = w * d + r
    BY <2>1
  <2>3. w * d \in Nat
    BY <2>2
  <2> HIDE DEF d, r
  <2> QED
    BY <2>2, <2>3
<1>2. Reached(lo, n, w) = hi
  BY DEF Reached
<1>3. T = StepBy(lo, hi, w) \X (0 .. w - 1)
  BY DEF Steps
<1> HIDE DEF d
<1>4. hi \in lo .. n /\ n < hi + w
  BY <1>1
<1>5. StepBy(lo, hi, w) = Multiples(lo, d, w)
  BY <1>1, WholeSteps
<1>6. T = Multiples(lo, d, w) \X (0 .. w - 1)
  BY <1>3, <1>5
<1>7. Multiples(lo, d, w) \subseteq Nat
  BY <1>1 DEF Multiples
<1>8. ASSUME NEW t \in T PROVE t = <<t[1], t[2]>> /\ t[1] \in Nat /\ t[2] \in Nat
  <2>1. t = <<t[1], t[2]>> /\ t[1] \in Multiples(lo, d, w) /\ t[2] \in 0 .. w - 1
    BY <1>6, PairIs
  <2>2. t[1] \in Nat
    BY <2>1, <1>7
  <2>3. t[2] \in Nat
    BY <2>1
  <2> QED
    BY <2>1, <2>2, <2>3
<1>9. \A t \in T : v[t] = t[1] + t[2]
  OBVIOUS
<1>10. hi = lo + w * d
  OBVIOUS
<1> HIDE DEF T, hi
<1>11. Numbers(v, T, lo, hi)
  BY <1>1, <1>6, <1>9, <1>10, StepsNumber
<1> QED
  BY <1>2, <1>4, <1>8, <1>11 DEF T

\* The rest of the loop one by one.
StepsThenOnes(w, len) == Steps(0, len, w) \cup {<<q, 0>> : q \in Reached(0, len, w) .. len - 1}

LEMMA StepsThenOnesNumber ==
    ASSUME NEW w \in Nat \ {0}, NEW len \in Nat, NEW v, \A t \in StepsThenOnes(w, len) : v[t] = t[1] + t[2]
    PROVE  /\ Numbers(v, StepsThenOnes(w, len), 0, len)
           /\ \A t \in StepsThenOnes(w, len) : t[1] \in Nat /\ t[2] \in Nat
<1> DEFINE T == Steps(0, len, w)
           f == Reached(0, len, w)
           U == {<<q, 0>> : q \in f .. len - 1}
<1>1. StepsThenOnes(w, len) = T \cup U
  BY DEF StepsThenOnes
<1>2. \A t \in T : v[t] = t[1] + t[2]
  BY <1>1
<1>3. \A t \in U : v[t] = t[1] + t[2]
  BY <1>1
<1>4. Numbers(v, T, 0, f) /\ f \in 0 .. len /\ \A t \in T : t[1] \in Nat /\ t[2] \in Nat
  <2> 0 <= len
    OBVIOUS
  <2> QED
    BY <1>2, StepsReach
<1>5. U = {<<q, 0>> : q \in f .. len - 1}
  OBVIOUS
<1> HIDE DEF T, f
<1>6. ASSUME NEW t \in U PROVE t[1] \in Nat /\ t[2] \in Nat
  BY <1>4
<1> HIDE DEF U
<1>7. Numbers(v, U, f, len)
  BY <1>3, <1>4, <1>5, OnesNumber
<1>8. Numbers(v, T \cup U, 0, len)
  <2>1. 0 \in Int /\ f \in Int /\ len \in Int /\ 0 <= f /\ f <= len
    BY <1>4
  <2> QED
    BY <1>4, <1>7, <2>1, NumbersOn
<1> QED
  BY <1>1, <1>4, <1>6, <1>8

\* The rows of matmul_nt_q4_k, and the activation rows of the i8mm one.
LEMMA FourThenOneIs ==
    ASSUME NEW len \in Nat
    PROVE  FourThenOne(len) = StepsThenOnes(4, len)
<1> DEFINE f == Floor4(len)
           S == StepBy(0, f, 4)
<1>1. Reached(0, len, 4) = f
  BY DEF Reached, Floor4
<1>2. Steps(0, len, 4) = S \X (0 .. 3)
  BY <1>1 DEF Steps, Reached
<1>3. FourThenOne(len) = {<<q, o>> : q \in S, o \in 0 .. 3} \cup {<<q, 0>> : q \in f .. len - 1}
  BY DEF FourThenOne
<1>4. StepsThenOnes(4, len) = S \X (0 .. 3) \cup {<<q, 0>> : q \in f .. len - 1}
  BY <1>1, <1>2 DEF StepsThenOnes
<1> HIDE DEF S, f
<1>5. {<<q, o>> : q \in S, o \in 0 .. 3} = S \X (0 .. 3)
  OBVIOUS
<1> QED
  BY <1>3, <1>4, <1>5

LEMMA PairedIs ==
    ASSUME NEW m \in Nat
    PROVE  Paired(m) = StepsThenOnes(2, m)
<1> DEFINE f == 2 * (m \div 2)
           S == StepBy(0, f, 2)
<1>1. Reached(0, m, 2) = f
  BY DEF Reached
<1>2. Steps(0, m, 2) = S \X (0 .. 1)
  BY <1>1 DEF Steps, Reached
<1>3. Paired(m) = {<<q, o>> : q \in S, o \in {0, 1}} \cup {<<q, 0>> : q \in f .. m - 1}
  BY DEF Paired
<1>4. StepsThenOnes(2, m) = S \X (0 .. 1) \cup {<<q, 0>> : q \in f .. m - 1}
  BY <1>1, <1>2 DEF StepsThenOnes
<1> HIDE DEF S, f
<1>5. {<<q, o>> : q \in S, o \in {0, 1}} = S \X (0 .. 1)
  <2>1. {0, 1} = 0 .. 1
    OBVIOUS
  <2>2. {<<q, o>> : q \in S, o \in 0 .. 1} = S \X (0 .. 1)
    OBVIOUS
  <2> QED
    BY <2>1, <2>2
<1> QED
  BY <1>3, <1>4, <1>5

\* Groups of w rows.
InGroups(v, T, d, w) == T = (0 .. d - 1) \X (0 .. w - 1) /\ \A t \in T : v[t] = w * t[1] + t[2]

LEMMA GroupsNumber ==
    ASSUME NEW d \in Nat, NEW w \in Nat \ {0}, NEW hi, hi = w * d, NEW T, NEW v, InGroups(v, T, d, w)
    PROVE  Numbers(v, T, 0, hi)
<1>1. ASSUME NEW t \in T
      PROVE  \E q \in 0 .. d - 1, r \in 0 .. w - 1 : t = <<q, r>> /\ v[t] = q * w + r
  <2>1. t = <<t[1], t[2]>> /\ t[1] \in 0 .. d - 1 /\ t[2] \in 0 .. w - 1
    BY PairIs DEF InGroups
  <2>2. w * t[1] = t[1] * w
    BY <2>1
  <2> QED
    BY <2>1, <2>2 DEF InGroups
<1>2. hi = d * w /\ d * w \in Nat
  OBVIOUS
<1>3. ASSUME NEW t \in T PROVE v[t] \in 0 .. hi - 1
  <2>1. PICK q \in 0 .. d - 1, r \in 0 .. w - 1 : v[t] = q * w + r
    BY <1>1
  <2>2. q * w \in Nat /\ q * w + w <= d * w
    BY Apart
  <2> QED
    BY <1>2, <2>1, <2>2
<1>4. ASSUME NEW j \in 0 .. hi - 1 PROVE \E t \in T : v[t] = j
  <2>0. j \in 0 .. d * w - 1
    BY <1>2
  <2>1. PICK q \in 0 .. d - 1, r \in 0 .. w - 1 : j = q * w + r
    BY <2>0, CellIs
  <2>2. <<q, r>> \in T /\ v[<<q, r>>] = w * q + r
    BY DEF InGroups
  <2>3. w * q = q * w
    OBVIOUS
  <2> QED
    BY <2>1, <2>2, <2>3
<1>5. ASSUME NEW t \in T, NEW u \in T, v[t] = v[u] PROVE t = u
  <2>1. PICK q \in 0 .. d - 1, r \in 0 .. w - 1 : t = <<q, r>> /\ v[t] = q * w + r
    BY <1>1
  <2>2. PICK p \in 0 .. d - 1, s \in 0 .. w - 1 : u = <<p, s>> /\ v[u] = p * w + s
    BY <1>1
  <2>3. q * w + r = p * w + s
    BY <1>5, <2>1, <2>2
  <2>4. q = p /\ r = s
    BY <2>3, RowMajor
  <2> QED
    BY <2>1, <2>2, <2>4
<1> QED
  BY ONLY <1>3, <1>4, <1>5 DEF Numbers

-----------------------------------------------------------------------------
(* The plans.                                                              *)

\* matmul_nt_q4_k with dotprod: what a task writes of a row.
Q4KTask(n, chunk, i, ci) ==
    {Write(<<i, ci, t>>, i * n + ci * chunk + t[1] + t[2], ci * chunk + t[1] + t[2], i) :
        t \in FourThenOne(Cardinality(Slice(n, chunk, ci)))}

LEMMA Q4KPart ==
    ASSUME NEW n \in Nat, NEW chunk \in Nat \ {0}, NEW ci \in Chunks(n, chunk), NEW i \in Nat
    PROVE  Fills(Q4KTask(n, chunk, i, ci), n, Slice(n, chunk, ci), {i})
<1> DEFINE P == Q4KTask(n, chunk, i, ci)
           a == ci * chunk
           len == MinOf(chunk, n - a)
           T == StepsThenOnes(4, len)
           s == [t \in T |-> t[1] + t[2]]
           v == [t \in T |-> a + s[t]]
           F == [t \in T |-> Write(<<i, ci, t>>, i * n + a + t[1] + t[2], a + t[1] + t[2], i)]
<1>1. /\ a \in Nat /\ len \in Nat /\ Slice(n, chunk, ci) = a .. a + len - 1
      /\ Cardinality(Slice(n, chunk, ci)) = len
  BY SliceIs
<1>2. P = {Write(<<i, ci, t>>, i * n + a + t[1] + t[2], a + t[1] + t[2], i) : t \in T}
  BY <1>1, FourThenOneIs DEF Q4KTask
<1> HIDE DEF a, len, P
<1>3. \A t \in T : s[t] = t[1] + t[2]
  OBVIOUS
<1>4. Shifted(v, s, T, a)
  BY DEF Shifted
<1>5. \A t \in T : F[t] \in P
  BY <1>2
<1>6. \A p \in P : \E t \in T : p = F[t]
  BY <1>2
<1>7. ASSUME NEW t \in T
      PROVE  F[t] = Write(<<i, ci, t>>, i * n + a + t[1] + t[2], a + t[1] + t[2], i) /\ v[t] = a + (t[1] + t[2])
  OBVIOUS
<1> HIDE DEF s, v, F, T
<1>8. Numbers(s, T, 0, len) /\ \A t \in T : t[1] \in Nat /\ t[2] \in Nat
  BY <1>1, <1>3, StepsThenOnesNumber DEF T
<1>9. Numbers(v, T, a, a + len)
  <2>1. a = a + 0 /\ len \in Int
    BY <1>1
  <2> QED
    BY <1>1, <1>4, <1>8, <2>1, NumbersFrom
<1>10. ASSUME NEW t \in T PROVE F[t].w = v[t] /\ F[t].x = i /\ F[t].out = i * n + v[t]
  <2>1. t[1] \in Nat /\ t[2] \in Nat /\ i * n \in Nat
    BY <1>8
  <2> DEFINE c == i * n
  <2>2. F[t] = Write(<<i, ci, t>>, c + a + t[1] + t[2], a + t[1] + t[2], i) /\ v[t] = a + (t[1] + t[2])
    BY <1>7
  <2>c. c \in Nat
    BY <2>1
  <2> HIDE DEF c
  <2>v. v[t] = a + (t[1] + t[2])
    BY <1>7
  <2>3. c + a + t[1] + t[2] = c + v[t] /\ a + t[1] + t[2] = v[t]
    BY <1>1, <2>1, <2>v, <2>c, SMTT(30)
  <2>4. F[t].w = v[t] /\ F[t].x = i /\ F[t].out = c + v[t]
    BY <2>2, <2>3, WriteIs
  <2> QED
    BY <2>4 DEF c
<1>11. IsRow(P, n, F, v, T, i)
  BY <1>5, <1>6, <1>10 DEF IsRow
<1>12. Slice(n, chunk, ci) = a .. a + len - 1
  BY <1>1
<1> DEFINE xs == {i}
           ws == Slice(n, chunk, ci)
           hi == a + len
<1>13. a \in Int /\ hi \in Int /\ a + len - 1 = hi - 1
  BY <1>1
<1>14. xs = {i} /\ ws = a .. hi - 1 /\ Numbers(v, T, a, hi)
  BY <1>9, <1>12, <1>13
<1> HIDE DEF xs, ws, hi
<1>15. Fills(P, n, ws, xs)
  BY <1>11, <1>13, <1>14, RowFills
<1> QED
  BY <1>15 DEF P, ws, xs

LEMMA Q4KWrites ==
    ASSUME NEW m \in Nat, NEW n \in Nat, NEW chunk \in Nat \ {0}
    PROVE  WritesEachOnce(MatmulQ4K(m, n, chunk), m, n)
<1> DEFINE A == 0 .. m - 1
           B == Chunks(n, chunk)
           X == [i \in A |-> {i}]
           W == [ci \in B |-> Slice(n, chunk, ci)]
           F == [s \in A \X B |-> Q4KTask(n, chunk, s[1], s[2])]
           plan == MatmulQ4K(m, n, chunk)
<1>1. plan = UNION {Q4KTask(n, chunk, i, ci) : i \in A, ci \in B}
  BY DEF MatmulQ4K, Q4KTask
<1>2. ASSUME NEW i \in A, NEW ci \in B PROVE Fills(Q4KTask(n, chunk, i, ci), n, Slice(n, chunk, ci), {i})
  <2>1. i \in Nat
    OBVIOUS
  <2> QED
    BY <2>1, Q4KPart
<1> HIDE DEF plan
<1>3. \A p \in plan : \E i \in A, ci \in B : p \in F[<<i, ci>>]
  BY <1>1
<1>4. \A i \in A, ci \in B : F[<<i, ci>>] \subseteq plan
  BY <1>1
<1>5. \A i \in A, ci \in B : Fills(F[<<i, ci>>], n, W[ci], X[i])
  BY <1>2
<1>6. Divides(X, A, m)
  BY RowsDivide
<1>7. Divides(W, B, n)
  BY SlicesDivide
<1> HIDE DEF F, W, X, A, B
<1>8. IsGrid(plan, n, F, X, A, W, B)
  BY <1>3, <1>4, <1>5 DEF IsGrid
<1>9. WritesEachOnce(plan, m, n)
  BY <1>6, <1>7, <1>8, FillsGrid
<1> QED
  BY <1>9 DEF plan

\* Repacked rows, one activation row at a time: what a task writes of a row.
R4Write(n, gchunk, i, ci, gl, r) ==
    Write(<<i, ci, gl, r>>, i * n + ci * gchunk * 4 + 4 * gl + r, 4 * (ci * gchunk + gl) + r, i)

R4Task(n, gchunk, i, ci) ==
    {R4Write(n, gchunk, i, ci, gl, r) : gl \in 0 .. Cardinality(Slice(n, 4 * gchunk, ci)) \div 4 - 1, r \in 0 .. 3}

LEMMA R4TaskFills ==
    ASSUME NEW n \in Nat, n % 4 = 0, NEW gchunk \in Nat \ {0}, NEW chunk, chunk = 4 * gchunk,
           NEW ci \in Chunks(n, chunk), NEW i \in Nat
    PROVE  Fills(R4Task(n, gchunk, i, ci), n, Slice(n, chunk, ci), {i})
<1> DEFINE P == R4Task(n, gchunk, i, ci)
           e == ci * gchunk
           a == ci * chunk
           len == MinOf(chunk, n - a)
           d == len \div 4
           T == (0 .. d - 1) \X (0 .. 3)
           s == [t \in T |-> 4 * t[1] + t[2]]
           v == [t \in T |-> a + s[t]]
           F == [t \in T |-> R4Write(n, gchunk, i, ci, t[1], t[2])]
<1>1. /\ a \in Nat /\ len \in Nat /\ Slice(n, chunk, ci) = a .. a + len - 1
      /\ Cardinality(Slice(n, chunk, ci)) = len /\ ci \in Nat
  <2>1. chunk \in Nat \ {0}
    OBVIOUS
  <2> QED
    BY <2>1, SliceIs
<1>2. e \in Nat /\ a = 4 * e
  BY <1>1
<1>3. d \in Nat /\ len = 4 * d
  <2>1. n - a \in Nat \/ n - a < 0
    BY <1>1
  <2>2. (n - a) % 4 = 0
    <3> HIDE DEF a, e
    <3> QED
      BY <1>1, <1>2
  <2>3. len % 4 = 0
    <3>1. len = chunk \/ len = n - a
      BY DEF MinOf
    <3>2. chunk % 4 = 0
      OBVIOUS
    <3> QED
      BY <2>2, <3>1, <3>2
  <2> HIDE DEF len
  <2> QED
    BY <1>1, <2>3
<1>4. P = {R4Write(n, gchunk, i, ci, gl, r) : gl \in 0 .. d - 1, r \in 0 .. 3}
  <2> HIDE DEF len
  <2>1. Cardinality(Slice(n, 4 * gchunk, ci)) = len
    BY <1>1
  <2> QED
    BY <2>1 DEF R4Task
<1> HIDE DEF P, a, len, d
<1>5. \A t \in T : s[t] = 4 * t[1] + t[2] /\ v[t] = a + s[t]
  OBVIOUS
<1>6. Shifted(v, s, T, a)
  BY DEF Shifted
<1>7. ASSUME NEW t \in T
      PROVE  F[t] = R4Write(n, gchunk, i, ci, t[1], t[2])
  OBVIOUS
<1>8. ASSUME NEW t \in T PROVE F[t] \in P
  <2>1. t[1] \in 0 .. d - 1 /\ t[2] \in 0 .. 3
    BY PairIs
  <2> HIDE DEF T, F
  <2> QED
    BY <1>4, <1>7, <2>1
<1>9. ASSUME NEW p \in P PROVE \E t \in T : p = F[t]
  <2>1. PICK gl \in 0 .. d - 1, r \in 0 .. 3 : p = R4Write(n, gchunk, i, ci, gl, r)
    BY <1>4
  <2>2. <<gl, r>> \in T /\ F[<<gl, r>>] = p
    BY <2>1
  <2> QED
    BY <2>2
<1>10. T = (0 .. d - 1) \X (0 .. 4 - 1)
  OBVIOUS
<1>11. ASSUME NEW t \in T PROVE t[1] \in Nat /\ t[2] \in Nat
  <2>1. t[1] \in 0 .. d - 1 /\ t[2] \in 0 .. 3
    BY PairIs
  <2> QED
    BY <2>1, <1>3
<1> HIDE DEF T, s, v, F
<1>12. Numbers(s, T, 0, len)
  <2>1. InGroups(s, T, d, 4)
    BY <1>5, <1>10 DEF InGroups
  <2> QED
    BY <1>3, <2>1, GroupsNumber
<1>13. Numbers(v, T, a, a + len)
  <2>1. a = a + 0 /\ len \in Int
    BY <1>1
  <2> QED
    BY <1>1, <1>6, <1>12, <2>1, NumbersFrom
<1>14. ASSUME NEW t \in T PROVE F[t].w = v[t] /\ F[t].x = i /\ F[t].out = i * n + v[t]
  <2> DEFINE c == i * n
  <2>1. t[1] \in Nat /\ t[2] \in Nat /\ c \in Nat
    BY <1>11
  <2>2. F[t] = Write(<<i, ci, t[1], t[2]>>, c + e * 4 + 4 * t[1] + t[2], 4 * (e + t[1]) + t[2], i)
    BY <1>7 DEF R4Write
  <2> HIDE DEF c, e
  <2>3. v[t] = a + (4 * t[1] + t[2])
    BY <1>5
  <2>4. c + e * 4 + 4 * t[1] + t[2] = c + v[t] /\ 4 * (e + t[1]) + t[2] = v[t]
    BY <1>2, <2>1, <2>3
  <2>5. F[t].w = v[t] /\ F[t].x = i /\ F[t].out = c + v[t]
    BY <2>2, <2>4, WriteIs
  <2> QED
    BY <2>5 DEF c
<1>15. IsRow(P, n, F, v, T, i)
  BY <1>8, <1>9, <1>14 DEF IsRow
<1> DEFINE xs == {i}
           ws == Slice(n, chunk, ci)
           hi == a + len
<1>16. a \in Int /\ hi \in Int /\ a + len - 1 = hi - 1
  BY <1>1
<1>17. xs = {i} /\ ws = a .. hi - 1 /\ Numbers(v, T, a, hi)
  BY <1>1, <1>13, <1>16
<1> HIDE DEF xs, ws, hi
<1>18. Fills(P, n, ws, xs)
  BY <1>15, <1>16, <1>17, RowFills
<1> QED
  BY <1>18 DEF P, ws, xs

LEMMA R4RowsWrites ==
    ASSUME NEW m \in Nat, NEW n \in Nat, n % 4 = 0, NEW chunk \in Nat
    PROVE  WritesEachOnce(MatmulR4Rows(m, n, chunk), m, n)
<1> DEFINE gchunk == MaxOf(chunk \div 4, 1)
           chunk4 == 4 * gchunk
           A == 0 .. m - 1
           B == Chunks(n, chunk4)
           X == [i \in A |-> {i}]
           W == [ci \in B |-> Slice(n, chunk4, ci)]
           F == [s \in A \X B |-> R4Task(n, gchunk, s[1], s[2])]
           plan == MatmulR4Rows(m, n, chunk)
<1>0. gchunk \in Nat \ {0} /\ chunk4 \in Nat \ {0} /\ chunk4 = 4 * gchunk
  BY DEF MaxOf
<1>1. plan = UNION {R4Task(n, gchunk, i, ci) : i \in A, ci \in B}
  BY DEF MatmulR4Rows, R4Task, R4Write
<1> HIDE DEF gchunk, chunk4, plan
<1>2. ASSUME NEW i \in A, NEW ci \in B PROVE Fills(R4Task(n, gchunk, i, ci), n, Slice(n, chunk4, ci), {i})
  <2>1. i \in Nat
    OBVIOUS
  <2> QED
    BY <1>0, <2>1, R4TaskFills
<1>3. \A p \in plan : \E i \in A, ci \in B : p \in F[<<i, ci>>]
  BY <1>1
<1>4. \A i \in A, ci \in B : F[<<i, ci>>] \subseteq plan
  BY <1>1
<1>5. \A i \in A, ci \in B : Fills(F[<<i, ci>>], n, W[ci], X[i])
  BY <1>2
<1>6. Divides(X, A, m)
  BY RowsDivide
<1>7. Divides(W, B, n)
  BY <1>0, SlicesDivide
<1> HIDE DEF F, W, X, A, B
<1>8. IsGrid(plan, n, F, X, A, W, B)
  BY <1>3, <1>4, <1>5 DEF IsGrid
<1>9. WritesEachOnce(plan, m, n)
  BY <1>6, <1>7, <1>8, FillsGrid
<1> QED
  BY <1>9 DEF plan

\* Without int8 activations: a box of all groups and all rows.
FallbackWrite(n, i, g, r) == Write(<<i, g, r>>, i * n + g * 4 + r, 4 * g + r, i)

LEMMA R4FallbackWrites ==
    ASSUME NEW m \in Nat, NEW n \in Nat, n % 4 = 0
    PROVE  WritesEachOnce(MatmulR4Fallback(m, n), m, n)
<1> DEFINE d == n \div 4
           I == (0 .. d - 1) \X (0 .. 3)
           K == 0 .. m - 1
           v == [t \in I |-> 4 * t[1] + t[2]]
           u == [i \in K |-> i]
           F == [tk \in I \X K |-> FallbackWrite(n, tk[2], tk[1][1], tk[1][2])]
           plan == MatmulR4Fallback(m, n)
<1>1. d \in Nat /\ n = 4 * d
  OBVIOUS
<1>2. plan = {FallbackWrite(n, i, g, r) : i \in 0 .. m - 1, g \in 0 .. d - 1, r \in 0 .. 3}
  BY DEF MatmulR4Fallback, FallbackWrite
<1> HIDE DEF plan, d
<1>3. ASSUME NEW t \in I, NEW i \in K
      PROVE  F[<<t, i>>] = FallbackWrite(n, i, t[1], t[2]) /\ t[1] \in 0 .. d - 1 /\ t[2] \in 0 .. 3
  <2>1. F[<<t, i>>] = FallbackWrite(n, i, t[1], t[2])
    OBVIOUS
  <2> QED
    BY <2>1, PairIs
<1>4. ASSUME NEW p \in plan PROVE \E t \in I, i \in K : p = F[<<t, i>>]
  <2>1. PICK i \in 0 .. m - 1, g \in 0 .. d - 1, r \in 0 .. 3 : p = FallbackWrite(n, i, g, r)
    BY <1>2
  <2>2. <<g, r>> \in I /\ i \in K
    OBVIOUS
  <2>3. F[<<<<g, r>>, i>>] = p
    BY <2>1, <2>2
  <2> QED
    BY <2>2, <2>3
<1>5. \A t \in I : v[t] = 4 * t[1] + t[2]
  OBVIOUS
<1>6. \A i \in K : u[i] = i
  OBVIOUS
<1>7. InGroups(v, I, d, 4)
  BY <1>5 DEF InGroups
<1>8. ASSUME NEW t \in I, NEW i \in K PROVE F[<<t, i>>] \in plan
  <2>1. F[<<t, i>>] = FallbackWrite(n, i, t[1], t[2]) /\ t[1] \in 0 .. d - 1 /\ t[2] \in 0 .. 3
    BY <1>3
  <2> HIDE DEF F, I
  <2> QED
    BY <1>2, <2>1
<1>9. \A i \in K : i \in Nat
  BY DEF K
<1> HIDE DEF F, I, v, u
<1>10. ASSUME NEW t \in I, NEW i \in K
       PROVE  F[<<t, i>>].w = v[t] /\ F[<<t, i>>].x = u[i] /\ F[<<t, i>>].out = u[i] * n + v[t]
  <2> DEFINE c == i * n
  <2>a. t[1] \in 0 .. d - 1 /\ t[2] \in 0 .. 3
    BY <1>3
  <2>1. t[1] \in Nat /\ t[2] \in Nat /\ i \in Nat
    BY <1>1, <2>a, <1>9
  <2>2. F[<<t, i>>] = Write(<<i, t[1], t[2]>>, c + t[1] * 4 + t[2], 4 * t[1] + t[2], i)
    BY <1>3 DEF FallbackWrite
  <2>3. c \in Nat
    BY <2>1
  <2> HIDE DEF c
  <2>4. v[t] = 4 * t[1] + t[2] /\ u[i] = i
    BY <1>5, <1>6
  <2>5. c + t[1] * 4 + t[2] = c + v[t]
    BY <2>1, <2>3, <2>4
  <2>6. F[<<t, i>>].w = v[t] /\ F[<<t, i>>].x = i /\ F[<<t, i>>].out = c + v[t]
    BY <2>2, <2>4, <2>5, WriteIs
  <2> QED
    BY <2>4, <2>6 DEF c
<1>11. IsBox(plan, n, F, v, I, u, K)
  BY <1>4, <1>8, <1>10 DEF IsBox
<1>12. Numbers(v, I, 0, n)
  BY <1>1, <1>7, GroupsNumber
<1>13. Numbers(u, K, 0, m)
  BY <1>6, RangeNumber DEF K
<1> DEFINE ws == 0 .. n - 1
           xs == 0 .. m - 1
<1>14. ws = 0 .. n - 1 /\ xs = 0 .. m - 1
  OBVIOUS
<1> HIDE DEF ws, xs, K
<1>15. Fills(plan, n, ws, xs)
  BY <1>11, <1>12, <1>13, <1>14, BoxFills
<1>16. WritesEachOnce(plan, m, n)
  BY <1>15, CellByCell DEF ws, xs
<1> QED
  BY <1>16 DEF plan

\* With i8mm: out_t has one write per group, row of it and activation row, and its transposition
\* is a box.
OutTWrite(m, g, r, xo) == Write(<<g, xo>>, 4 * m * g + r * m + xo[1] + xo[2], 4 * g + r, xo[1] + xo[2])

SmmlaWrite(n, g, r, xo) == Write(<<g, xo>>, (xo[1] + xo[2]) * n + 4 * g + r, 4 * g + r, xo[1] + xo[2])

LEMMA OutTRow ==
    ASSUME NEW m \in Nat, NEW h \in Nat, NEW s \in 0 .. 3, NEW a \in Nat, NEW b \in Nat
    PROVE  4 * m * h + s * m + a + b = (4 * h + s) * m + (a + b)
<1> DEFINE p == m * h
           q == s * m
<1>1. p \in Nat /\ q \in Nat
  OBVIOUS
<1>2. (4 * h + s) * m = 4 * p + q /\ 4 * m * h = 4 * p
  OBVIOUS
<1> HIDE DEF p
<1>3. 4 * m * h + q + a + b = 4 * p + q + (a + b)
  <2> HIDE DEF q
  <2> QED
    BY <1>1, <1>2
<1> QED
  BY <1>2, <1>3

\* The transposition reads, for row r of group g and activation row i, what was written for row s
\* of group h and activation row a + b.
SameOutT(m, h, s, a, b, g, r, i) ==
    /\ {m, h, s, a, b, g, r, i} \subseteq Nat
    /\ a + b < m /\ i < m /\ r < 4 /\ s < 4
    /\ 4 * m * h + s * m + a + b = (4 * g + r) * m + i

LEMMA OutTCell ==
    ASSUME NEW m, NEW g, NEW h, NEW r, NEW s, NEW i, NEW a, NEW b, SameOutT(m, h, s, a, b, g, r, i)
    PROVE  g = h /\ r = s /\ a + b = i
<1>1. /\ m \in Nat /\ h \in Nat /\ a \in Nat /\ b \in Nat /\ g \in Nat /\ i \in Nat /\ r \in 0 .. 3 /\ s \in 0 .. 3
      /\ a + b < m /\ i < m /\ 4 * m * h + s * m + a + b = (4 * g + r) * m + i
  BY DEF SameOutT
<1>2. 4 * m * h + s * m + a + b = (4 * h + s) * m + (a + b)
  BY <1>1, OutTRow
<1> DEFINE x == 4 * h + s
           y == 4 * g + r
           c == a + b
<1>3. x \in Nat /\ y \in Nat /\ c \in 0 .. m - 1 /\ i \in 0 .. m - 1
  BY <1>1
<1>4. x * m + c = y * m + i
  BY <1>1, <1>2
<1> HIDE DEF x, y, c
<1>5. x = y /\ c = i
  BY <1>1, <1>3, <1>4, RowMajor
<1> QED
  BY <1>1, <1>5 DEF x, y, c

OutTAt(m, n, g, r, i) == {q \in OutT(m, n) : q.out = (4 * g + r) * m + i}

SmmlaCell(m, n, g, r, i) == {Write(p.by, i * n + 4 * g + r, p.w, p.x) : p \in OutTAt(m, n, g, r, i)}

LEMMA OutTIs ==
    ASSUME NEW m, NEW n
    PROVE  OutT(m, n) = {OutTWrite(m, g, r, xo) : g \in 0 .. n \div 4 - 1, r \in 0 .. 3, xo \in Paired(m)}
  BY DEF OutT, OutTWrite

LEMMA SmmlaCells ==
    ASSUME NEW m, NEW n
    PROVE  MatmulR4Smmla(m, n) =
               UNION {SmmlaCell(m, n, g, r, i) : g \in 0 .. n \div 4 - 1, r \in 0 .. 3, i \in 0 .. m - 1}
  BY DEF MatmulR4Smmla, SmmlaCell, OutTAt

LEMMA SmmlaIs ==
    ASSUME NEW m \in Nat, NEW n \in Nat, NEW d \in Nat, n \div 4 = d
    PROVE  /\ \A p \in MatmulR4Smmla(m, n) : \E g \in 0 .. d - 1, r \in 0 .. 3, xo \in Paired(m) : p = SmmlaWrite(n, g, r, xo)
           /\ \A g \in 0 .. d - 1, r \in 0 .. 3, xo \in Paired(m) : SmmlaWrite(n, g, r, xo) \in MatmulR4Smmla(m, n)
<1> DEFINE plan == MatmulR4Smmla(m, n)
           s == [xo \in Paired(m) |-> xo[1] + xo[2]]
<1> HIDE DEF plan
<1>1. OutT(m, n) = {OutTWrite(m, g, r, xo) : g \in 0 .. d - 1, r \in 0 .. 3, xo \in Paired(m)}
  BY OutTIs
<1>2. plan = UNION {SmmlaCell(m, n, g, r, i) : g \in 0 .. d - 1, r \in 0 .. 3, i \in 0 .. m - 1}
  BY SmmlaCells DEF plan
<1>3. ASSUME NEW xo \in Paired(m) PROVE xo[1] \in Nat /\ xo[2] \in Nat /\ xo[1] + xo[2] \in 0 .. m - 1
  <2>1. \A t \in StepsThenOnes(2, m) : s[t] = t[1] + t[2]
    BY PairedIs
  <2> HIDE DEF s
  <2>2. Numbers(s, StepsThenOnes(2, m), 0, m) /\ \A t \in StepsThenOnes(2, m) : t[1] \in Nat /\ t[2] \in Nat
    BY <2>1, StepsThenOnesNumber
  <2>3. xo \in StepsThenOnes(2, m)
    BY PairedIs
  <2> QED
    BY <2>1, <2>2, <2>3 DEF Numbers
<1>4. ASSUME NEW p \in plan
      PROVE  \E g \in 0 .. d - 1, r \in 0 .. 3, xo \in Paired(m) : p = SmmlaWrite(n, g, r, xo)
  <2>1. PICK g \in 0 .. d - 1, r \in 0 .. 3, i \in 0 .. m - 1 : p \in SmmlaCell(m, n, g, r, i)
    BY <1>2
  <2>2. PICK q \in OutTAt(m, n, g, r, i) : p = Write(q.by, i * n + 4 * g + r, q.w, q.x)
    BY <2>1 DEF SmmlaCell
  <2>3. q \in OutT(m, n) /\ q.out = (4 * g + r) * m + i
    BY DEF OutTAt
  <2>4. PICK h \in 0 .. d - 1, t \in 0 .. 3, xo \in Paired(m) : q = OutTWrite(m, h, t, xo)
    BY <1>1, <2>3
  <2>5. /\ q.by = <<h, xo>> /\ q.out = 4 * m * h + t * m + xo[1] + xo[2]
        /\ q.w = 4 * h + t /\ q.x = xo[1] + xo[2]
    BY <2>4, WriteIs DEF OutTWrite
  <2>6. g = h /\ r = t /\ xo[1] + xo[2] = i
    <3>1. g \in Nat /\ h \in Nat
      OBVIOUS
    <3>2. 4 * m * h + t * m + xo[1] + xo[2] = (4 * g + r) * m + i
      BY <2>3, <2>5
    <3> DEFINE a == xo[1]
               b == xo[2]
    <3>3. a \in Nat /\ b \in Nat /\ a + b \in 0 .. m - 1
      BY <1>3
    <3>4. 4 * m * h + t * m + a + b = (4 * g + r) * m + i
      BY <3>2
    <3> HIDE DEF a, b
    <3>5. {m, h, t, a, b, g, r, i} \subseteq Nat
      BY <3>1, <3>3
    <3>6. SameOutT(m, h, t, a, b, g, r, i)
      BY <3>3, <3>4, <3>5 DEF SameOutT
    <3>7. g = h /\ r = t /\ a + b = i
      BY <3>6, OutTCell
    <3> QED
      BY <3>7 DEF a, b
  <2>7. p = SmmlaWrite(n, g, r, xo)
    BY <2>2, <2>5, <2>6 DEF SmmlaWrite
  <2> QED
    BY <2>7
<1>5. ASSUME NEW g \in 0 .. d - 1, NEW r \in 0 .. 3, NEW xo \in Paired(m) PROVE SmmlaWrite(n, g, r, xo) \in plan
  <2> DEFINE i == xo[1] + xo[2]
             q == OutTWrite(m, g, r, xo)
  <2>1. i \in 0 .. m - 1 /\ xo[1] \in Nat /\ xo[2] \in Nat
    BY <1>3
  <2>2. /\ q.by = <<g, xo>> /\ q.out = 4 * m * g + r * m + xo[1] + xo[2]
        /\ q.w = 4 * g + r /\ q.x = i
    BY WriteIs DEF OutTWrite
  <2>3. q \in OutT(m, n)
    BY <1>1
  <2> HIDE DEF q
  <2>4. q.out = (4 * g + r) * m + i
    <3>1. g \in Nat
      OBVIOUS
    <3> QED
      BY <2>1, <2>2, <3>1, OutTRow
  <2> HIDE DEF i
  <2>5. q \in OutTAt(m, n, g, r, i)
    BY <2>3, <2>4 DEF OutTAt
  <2>6. Write(q.by, i * n + 4 * g + r, q.w, q.x) \in SmmlaCell(m, n, g, r, i)
    BY <2>5 DEF SmmlaCell
  <2>7. Write(q.by, i * n + 4 * g + r, q.w, q.x) = SmmlaWrite(n, g, r, xo)
    BY <2>2 DEF SmmlaWrite, i
  <2> QED
    BY <1>2, <2>1, <2>6, <2>7
<1> QED
  BY <1>4, <1>5 DEF plan

LEMMA R4SmmlaWrites ==
    ASSUME NEW m \in Nat, NEW n \in Nat, n % 4 = 0
    PROVE  WritesEachOnce(MatmulR4Smmla(m, n), m, n)
<1> DEFINE d == n \div 4
           I == (0 .. d - 1) \X (0 .. 3)
           K == StepsThenOnes(2, m)
           v == [t \in I |-> 4 * t[1] + t[2]]
           u == [xo \in K |-> xo[1] + xo[2]]
           F == [tk \in I \X K |-> SmmlaWrite(n, tk[1][1], tk[1][2], tk[2])]
           plan == MatmulR4Smmla(m, n)
<1>1. d \in Nat /\ n = 4 * d
  OBVIOUS
<1>2. /\ \A p \in plan : \E g \in 0 .. d - 1, r \in 0 .. 3, xo \in K : p = SmmlaWrite(n, g, r, xo)
      /\ \A g \in 0 .. d - 1, r \in 0 .. 3, xo \in K : SmmlaWrite(n, g, r, xo) \in plan
  <2>1. K = Paired(m)
    BY PairedIs
  <2>2. n \div 4 = d
    OBVIOUS
  <2> HIDE DEF plan, d, K
  <2> QED
    BY <1>1, <2>1, <2>2, SmmlaIs DEF plan
<1> HIDE DEF plan, d, K
<1>3. ASSUME NEW t \in I, NEW xo \in K
      PROVE  F[<<t, xo>>] = SmmlaWrite(n, t[1], t[2], xo) /\ t[1] \in 0 .. d - 1 /\ t[2] \in 0 .. 3
  <2>1. F[<<t, xo>>] = SmmlaWrite(n, t[1], t[2], xo)
    OBVIOUS
  <2> QED
    BY <2>1, PairIs
<1>4. ASSUME NEW p \in plan PROVE \E t \in I, xo \in K : p = F[<<t, xo>>]
  <2>1. PICK g \in 0 .. d - 1, r \in 0 .. 3, xo \in K : p = SmmlaWrite(n, g, r, xo)
    BY <1>2
  <2>2. <<g, r>> \in I
    OBVIOUS
  <2>3. F[<<<<g, r>>, xo>>] = p
    BY <2>1, <2>2
  <2> QED
    BY <2>2, <2>3
<1>5. \A t \in I : v[t] = 4 * t[1] + t[2]
  OBVIOUS
<1>6. \A xo \in K : u[xo] = xo[1] + xo[2]
  OBVIOUS
<1>7. InGroups(v, I, d, 4)
  BY <1>5 DEF InGroups
<1>8. ASSUME NEW t \in I, NEW xo \in K PROVE F[<<t, xo>>] \in plan
  <2>1. F[<<t, xo>>] = SmmlaWrite(n, t[1], t[2], xo) /\ t[1] \in 0 .. d - 1 /\ t[2] \in 0 .. 3
    BY <1>3
  <2> HIDE DEF F, I
  <2> QED
    BY <1>2, <2>1
<1> HIDE DEF F, I, v, u
<1>9. Numbers(u, K, 0, m) /\ \A xo \in K : xo[1] \in Nat /\ xo[2] \in Nat
  BY <1>6, StepsThenOnesNumber DEF K
<1>10. ASSUME NEW t \in I, NEW xo \in K
       PROVE  F[<<t, xo>>].w = v[t] /\ F[<<t, xo>>].x = u[xo] /\ F[<<t, xo>>].out = u[xo] * n + v[t]
  <2> DEFINE c == (xo[1] + xo[2]) * n
  <2>a. t[1] \in 0 .. d - 1 /\ t[2] \in 0 .. 3
    BY <1>3
  <2>1. t[1] \in Nat /\ t[2] \in Nat
    BY <1>1, <2>a
  <2>2. F[<<t, xo>>] = Write(<<t[1], xo>>, c + 4 * t[1] + t[2], 4 * t[1] + t[2], xo[1] + xo[2])
    BY <1>3 DEF SmmlaWrite
  <2>3. c \in Nat
    BY <1>9
  <2> HIDE DEF c
  <2>4. v[t] = 4 * t[1] + t[2] /\ u[xo] = xo[1] + xo[2]
    BY <1>5, <1>6
  <2>5. c + 4 * t[1] + t[2] = c + v[t]
    BY <2>1, <2>3, <2>4
  <2>6. F[<<t, xo>>].w = v[t] /\ F[<<t, xo>>].x = u[xo] /\ F[<<t, xo>>].out = c + v[t]
    BY <2>2, <2>4, <2>5, WriteIs
  <2> QED
    BY <2>4, <2>6 DEF c
<1>11. IsBox(plan, n, F, v, I, u, K)
  BY <1>4, <1>8, <1>10 DEF IsBox
<1>12. Numbers(v, I, 0, n)
  BY <1>1, <1>7, GroupsNumber
<1> DEFINE ws == 0 .. n - 1
           xs == 0 .. m - 1
<1>14. ws = 0 .. n - 1 /\ xs = 0 .. m - 1
  OBVIOUS
<1> HIDE DEF ws, xs
<1>15. Fills(plan, n, ws, xs)
  BY <1>9, <1>11, <1>12, <1>14, BoxFills
<1>16. WritesEachOnce(plan, m, n)
  BY <1>15, CellByCell DEF ws, xs
<1> QED
  BY <1>16 DEF plan

\* Multiplication keeps the order.
LEMMA Ordered ==
    ASSUME NEW c \in Nat, NEW d \in Nat, NEW b \in Nat, c <= d
    PROVE  c * b <= d * b
<1>1. CASE c = d
  <2>1. c * b = d * b /\ c * b \in Nat
    BY <1>1
  <2> QED
    BY <2>1
<1>2. CASE c < d
  <2>1. c * b + b <= d * b
    BY <1>2, Apart
  <2>2. c * b \in Nat /\ d * b \in Nat
    OBVIOUS
  <2> QED
    BY <2>1, <2>2
<1> QED
  BY <1>1, <1>2

\* The number of chunks is the one number with those bounds.
LEMMA DivCeilIs ==
    ASSUME NEW a \in Nat, NEW b \in Nat \ {0}, NEW q \in Nat, a <= q * b, q * b < a + b
    PROVE  DivCeil(a, b) = q
<1> DEFINE e == DivCeil(a, b)
<1>1. e \in Nat /\ a <= e * b /\ e * b < a + b
  BY DivCeilBounds
<1> HIDE DEF e
<1>2. e * b \in Nat /\ q * b \in Nat
  BY <1>1
<1>3. ~(e < q)
  <2> SUFFICES ASSUME e < q PROVE FALSE
    OBVIOUS
  <2>1. e * b + b <= q * b
    BY <1>1, Apart
  <2> QED
    BY <2>1, <1>1, <1>2
<1>4. ~(q < e)
  <2> SUFFICES ASSUME q < e PROVE FALSE
    OBVIOUS
  <2>1. q * b + b <= e * b
    BY <1>1, Apart
  <2> QED
    BY <2>1, <1>1, <1>2
<1>5. e = q
  BY <1>1, <1>3, <1>4
<1> QED
  BY <1>5 DEF e

\* Blocks of b rows of n cells are as many as blocks of b rows.
LEMMA ChunksOfRows ==
    ASSUME NEW m \in Nat, NEW n \in Nat \ {0}, NEW b \in Nat \ {0}
    PROVE  Chunks(m * n, b * n) = Chunks(m, b)
<1> DEFINE e == DivCeil(m, b)
           f == e * b
<1>1. e \in Nat /\ m <= f /\ f < m + b
  BY DivCeilBounds
<1> HIDE DEF e
<1>2. f \in Nat /\ f <= m + b - 1 /\ m + b - 1 \in Nat
  BY <1>1
<1>3. f * n = e * (b * n)
  BY <1>1
<1> HIDE DEF f
<1>4. m * n <= f * n
  BY <1>1, <1>2, Ordered
<1>5. f * n + n <= (m + b) * n
  BY <1>1, <1>2, Apart
<1>6. (m + b) * n = m * n + b * n
  OBVIOUS
<1> DEFINE mn == m * n
           bn == b * n
<1>7. mn \in Nat /\ bn \in Nat /\ f * n \in Nat
  BY <1>2
<1>8. bn # 0
  <2>1. n <= bn
    <3>1. 1 * n <= b * n
      BY Ordered
    <3> QED
      BY <3>1
  <2> QED
    BY <2>1, <1>7
<1>9. mn <= e * bn /\ e * bn < mn + bn
  BY <1>3, <1>4, <1>5, <1>6, <1>7
<1> HIDE DEF mn, bn
<1>10. DivCeil(mn, bn) = e
  BY <1>1, <1>7, <1>8, <1>9, DivCeilIs
<1> QED
  BY <1>10 DEF Chunks, e, mn, bn

\* The rows of a block, by the cells of its slice.
LEMMA RowsOfBlock ==
    ASSUME NEW m \in Nat, NEW n \in Nat \ {0}, NEW b \in Nat \ {0}, NEW bi \in Chunks(m, b),
           NEW len, len = MinOf(b, m - bi * b)
    PROVE  Cardinality(Slice(m * n, b * n, bi)) \div n = len
<1> DEFINE a == bi * b
           mn == m * n
           bn == b * n
           an == bi * bn
           len2 == MinOf(bn, mn - an)
<1>1. bi \in Nat /\ a \in Nat /\ len \in Nat /\ a + len <= m
  BY SliceIs
<1>2. mn \in Nat /\ bn \in Nat \ {0}
  <2>1. 1 * n <= b * n
    BY Ordered
  <2> QED
    BY <2>1
<1>3. bi \in Chunks(mn, bn)
  BY ChunksOfRows
<1>4. an = a * n
  BY <1>1
<1> HIDE DEF mn, bn
<1>5. len2 \in Nat /\ Cardinality(Slice(mn, bn, bi)) = len2
  BY <1>2, <1>3, SliceIs
<1> HIDE DEF len2
<1>6. len2 = len * n
  <2>1. CASE b <= m - a
    <3>1. len = b
      BY <2>1, <1>1 DEF MinOf
    <3>2. a + b <= m /\ a + b \in Nat
      BY <2>1, <1>1
    <3>3. (a + b) * n <= m * n
      BY <3>2, Ordered
    <3>4. (a + b) * n = a * n + b * n
      BY <1>1
    <3>5. ~(mn - an < bn) /\ an \in Nat
      <4>1. a * n \in Nat
        BY <1>1
      <4>2. a * n + bn <= mn
        BY <3>3, <3>4 DEF mn, bn
      <4> HIDE DEF an
      <4> QED
        BY <4>1, <4>2, <1>2, <1>4
    <3>6. len2 = bn
      <4> HIDE DEF an
      <4> QED
        BY <3>5, <1>2 DEF len2, MinOf
    <3> QED
      BY <3>1, <3>6 DEF bn
  <2>2. CASE m - a < b
    <3>1. len = m - a
      BY <2>2, <1>1 DEF MinOf
    <3>2. a + len = m
      BY <3>1, <1>1
    <3>3. (a + len) * n = a * n + len * n
      BY <1>1
    <3>4. mn = an + len * n /\ an \in Nat /\ len * n \in Nat
      BY <3>2, <3>3, <1>1, <1>4 DEF mn
    <3>5. len * n + n <= b * n
      <4>1. len < b
        BY <2>2, <3>1
      <4> QED
        BY <4>1, <1>1, Apart
    <3> DEFINE c == len * n
    <3>6. c \in Nat /\ c < bn /\ mn = an + c /\ an \in Nat
      BY <3>4, <3>5, <1>2 DEF bn
    <3> HIDE DEF c, an
    <3>7. mn - an = c
      BY <3>6
    <3>8. len2 = c
      BY <3>6, <3>7, <1>2 DEF len2, MinOf
    <3> QED
      BY <3>8 DEF c
  <2> QED
    BY <2>1, <2>2, <1>1
<1>7. (len * n) \div n = len
  <2> DEFINE c == len * n
             q == c \div n
             r == c % n
  <2>1. c \in Nat /\ c = len * n + 0
    BY <1>1
  <2>2. q \in Nat /\ r \in 0 .. n - 1 /\ c = n * q + r
    <3>1. c \in Nat
      BY <2>1
    <3> HIDE DEF c
    <3> QED
      BY <3>1
  <2> HIDE DEF c, q, r
  <2>3. n * q = q * n
    BY <2>2
  <2>4. q * n + r = len * n + 0
    BY <2>1, <2>2, <2>3
  <2>5. q = len
    <3>1. n \in Nat /\ 0 \in 0 .. n - 1
      OBVIOUS
    <3> QED
      BY <1>1, <2>2, <2>4, <3>1, RowMajor
  <2> QED
    BY <2>5 DEF q, c
<1> QED
  BY <1>5, <1>6, <1>7 DEF mn, bn

\* matmul_nt_float: what a task writes of its block of rows.
FloatWrite(n, mblock, bi, r, j) ==
    Write(<<bi, r>>, bi * mblock * n + r * n + j, j, bi * mblock + r)

FloatTask(m, n, mblock, bi) ==
    {FloatWrite(n, mblock, bi, r, j) : r \in 0 .. Cardinality(Slice(m * n, mblock * n, bi)) \div n - 1, j \in 0 .. n - 1}

LEMMA FloatTasks ==
    ASSUME NEW m, NEW n, NEW mblock
    PROVE  MatmulFloatBlocks(m, n, mblock) = UNION {FloatTask(m, n, mblock, bi) : bi \in Chunks(m * n, mblock * n)}
  BY DEF MatmulFloatBlocks, FloatTask, FloatWrite

LEMMA FloatTaskFills ==
    ASSUME NEW m \in Nat, NEW n \in Nat \ {0}, NEW mblock \in Nat \ {0}, NEW bi \in Chunks(m, mblock)
    PROVE  Fills(FloatTask(m, n, mblock, bi), n, 0 .. n - 1, Slice(m, mblock, bi))
<1> DEFINE P == FloatTask(m, n, mblock, bi)
           a == bi * mblock
           len == MinOf(mblock, m - a)
           J == 0 .. n - 1
           R == 0 .. len - 1
           s == [r \in R |-> r]
           u == [r \in R |-> a + s[r]]
           v == [j \in J |-> j]
           F == [jr \in J \X R |-> FloatWrite(n, mblock, bi, jr[2], jr[1])]
<1>1. /\ a \in Nat /\ len \in Nat /\ Slice(m, mblock, bi) = a .. a + len - 1 /\ bi \in Nat
  BY SliceIs
<1>2. P = {FloatWrite(n, mblock, bi, r, j) : r \in R, j \in J}
  <2>1. Cardinality(Slice(m * n, mblock * n, bi)) \div n = len
    BY RowsOfBlock
  <2> HIDE DEF len
  <2> QED
    BY <2>1 DEF FloatTask
<1> HIDE DEF P, len
<1>3. ASSUME NEW j \in J, NEW r \in R PROVE F[<<j, r>>] = FloatWrite(n, mblock, bi, r, j)
  OBVIOUS
<1>4. Shifted(u, s, R, a)
  BY DEF Shifted
<1>5. \A r \in R : s[r] = r /\ u[r] = a + r
  OBVIOUS
<1>6. \A j \in J : v[j] = j
  OBVIOUS
<1>7. R \subseteq Nat /\ J \subseteq Nat
  OBVIOUS
<1>8. J = 0 .. n - 1 /\ R = 0 .. len - 1
  OBVIOUS
<1> HIDE DEF F, u, v, s, J, R
<1>9. ASSUME NEW p \in P PROVE \E j \in J, r \in R : p = F[<<j, r>>]
  BY <1>2, <1>3
<1>10. ASSUME NEW j \in J, NEW r \in R PROVE F[<<j, r>>] \in P
  BY <1>2, <1>3
<1>11. ASSUME NEW j \in J, NEW r \in R
       PROVE  F[<<j, r>>].w = v[j] /\ F[<<j, r>>].x = u[r] /\ F[<<j, r>>].out = u[r] * n + v[j]
  <2>1. j \in Nat /\ r \in Nat
    BY <1>7
  <2>2. F[<<j, r>>] = Write(<<bi, r>>, a * n + r * n + j, j, a + r)
    BY <1>3 DEF FloatWrite
  <2>3. v[j] = j /\ u[r] = a + r
    BY <1>5, <1>6
  <2> HIDE DEF a
  <2>4. a * n + r * n = (a + r) * n
    BY <1>1, <2>1
  <2> DEFINE c == a * n + r * n
  <2>5. F[<<j, r>>] = Write(<<bi, r>>, c + j, j, a + r) /\ c = (a + r) * n
    BY <2>2, <2>4
  <2> HIDE DEF c
  <2> QED
    BY <2>3, <2>5, WriteIs
<1>12. IsBox(P, n, F, v, J, u, R)
  BY <1>9, <1>10, <1>11 DEF IsBox
<1>13. Numbers(v, J, 0, n)
  BY <1>6, <1>8, RangeNumber
<1>14. Numbers(s, R, 0, len)
  <2>1. \A r \in R : s[r] = r
    BY <1>5
  <2> QED
    BY <2>1, <1>8, RangeNumber
<1> DEFINE hi == a + len
           ws == 0 .. n - 1
           xs == Slice(m, mblock, bi)
<1>15. a \in Nat /\ len \in Nat /\ hi \in Int /\ a + len - 1 = hi - 1 /\ a = a + 0 /\ hi = a + len
  BY <1>1
<1>16. ws = 0 .. n - 1 /\ xs = a .. hi - 1
  BY <1>1, <1>15
<1> HIDE DEF ws, xs, hi, a
<1>17. Numbers(u, R, a, hi)
  BY <1>4, <1>14, <1>15, NumbersFrom
<1>18. Fills(P, n, ws, xs)
  <2>1. 0 \in Int /\ n \in Int /\ a \in Int /\ hi \in Int
    BY <1>15
  <2> QED
    BY ONLY <1>12, <1>13, <1>16, <1>17, <2>1, BoxFills
<1> QED
  BY <1>18 DEF P, ws, xs

LEMMA FloatBlocksWrites ==
    ASSUME NEW m \in Nat, NEW n \in Nat \ {0}, NEW mblock \in Nat \ {0}
    PROVE  WritesEachOnce(MatmulFloatBlocks(m, n, mblock), m, n)
<1> DEFINE A == Chunks(m, mblock)
           B == {0}
           X == [bi \in A |-> Slice(m, mblock, bi)]
           W == [z \in B |-> 0 .. n - 1]
           F == [s \in A \X B |-> FloatTask(m, n, mblock, s[1])]
           plan == MatmulFloatBlocks(m, n, mblock)
<1>1. plan = UNION {FloatTask(m, n, mblock, bi) : bi \in A}
  BY FloatTasks, ChunksOfRows
<1> HIDE DEF plan
<1>2. \A p \in plan : \E bi \in A, z \in B : p \in F[<<bi, z>>]
  BY <1>1
<1>3. \A bi \in A, z \in B : F[<<bi, z>>] \subseteq plan
  BY <1>1
<1>4. \A bi \in A, z \in B : Fills(F[<<bi, z>>], n, W[z], X[bi])
  BY FloatTaskFills
<1>5. Divides(X, A, m)
  BY SlicesDivide
<1>6. Divides(W, B, n)
  BY OneDivides
<1> HIDE DEF F, W, X, A, B
<1>7. IsGrid(plan, n, F, X, A, W, B)
  BY <1>2, <1>3, <1>4 DEF IsGrid
<1>8. WritesEachOnce(plan, m, n)
  BY <1>5, <1>6, <1>7, FillsGrid
<1> QED
  BY <1>8 DEF plan

\* s numbers pairs of a start and a lane by their sums.
Lanes(s, I, a, b) ==
    /\ Numbers(s, I, a, b)
    /\ \A t \in I : t[1] \in Nat /\ t[2] \in Nat /\ s[t] = t[1] + t[2]

\* The tiles of the pairs I of columns and K of rows.
PutsOf(P, n, by, j0, I, K) ==
    /\ \A p \in P : \E t \in I, k \in K : p = Put(n, by, j0, t[1], t[2], k[1], k[2])
    /\ \A t \in I, k \in K : Put(n, by, j0, t[1], t[2], k[1], k[2]) \in P

LEMMA PutsFill ==
    ASSUME NEW n \in Nat, NEW j0 \in Nat, NEW by, NEW I, NEW K, NEW a \in Int, NEW b \in Int, NEW c \in Int, NEW d \in Int,
           NEW s, Lanes(s, I, a, b), NEW u, Lanes(u, K, c, d), NEW P, PutsOf(P, n, by, j0, I, K),
           NEW ws, ws = j0 + a .. j0 + b - 1, NEW xs, xs = c .. d - 1
    PROVE  Fills(P, n, ws, xs)
<1> DEFINE v == [t \in I |-> j0 + s[t]]
           F == [tk \in I \X K |-> Put(n, by, j0, tk[1][1], tk[1][2], tk[2][1], tk[2][2])]
           lo == j0 + a
           hi == j0 + b
<1>1. ASSUME NEW t \in I, NEW k \in K PROVE F[<<t, k>>] = Put(n, by, j0, t[1], t[2], k[1], k[2])
  OBVIOUS
<1>2. \A t \in I : v[t] = j0 + s[t]
  OBVIOUS
<1>3. Shifted(v, s, I, j0)
  BY DEF Shifted
<1>4. lo = j0 + a /\ hi = j0 + b /\ lo \in Int /\ hi \in Int /\ hi - 1 = j0 + b - 1
  OBVIOUS
<1>5. ws = lo .. hi - 1
  BY <1>4
<1> HIDE DEF v, F, lo, hi
<1>6. Numbers(v, I, lo, hi)
  BY <1>3, <1>4, NumbersFrom DEF Lanes
<1>7. ASSUME NEW p \in P PROVE \E t \in I, k \in K : p = F[<<t, k>>]
  BY <1>1 DEF PutsOf
<1>8. ASSUME NEW t \in I, NEW k \in K PROVE F[<<t, k>>] \in P
  BY <1>1 DEF PutsOf
<1>9. ASSUME NEW t \in I, NEW k \in K
      PROVE  F[<<t, k>>].w = v[t] /\ F[<<t, k>>].x = u[k] /\ F[<<t, k>>].out = u[k] * n + v[t]
  <2>1. t[1] \in Nat /\ t[2] \in Nat /\ s[t] = t[1] + t[2] /\ k[1] \in Nat /\ k[2] \in Nat /\ u[k] = k[1] + k[2]
    BY DEF Lanes
  <2> DEFINE e == (k[1] + k[2]) * n
  <2>2. F[<<t, k>>] = Write(<<by, t[1], k[1]>>, e + j0 + t[1] + t[2], j0 + t[1] + t[2], k[1] + k[2])
    BY <1>1 DEF Put
  <2>3. e \in Nat
    BY <2>1
  <2>4. e = u[k] * n
    BY <2>1
  <2> HIDE DEF e
  <2>5. v[t] = j0 + (t[1] + t[2])
    BY <1>2, <2>1
  <2>a. t[1] \in Nat /\ t[2] \in Nat
    BY <2>1
  <2>6. e + j0 + t[1] + t[2] = e + v[t] /\ j0 + t[1] + t[2] = v[t]
    BY <2>a, <2>3, <2>5
  <2>7. F[<<t, k>>].w = v[t] /\ F[<<t, k>>].x = k[1] + k[2] /\ F[<<t, k>>].out = e + v[t]
    BY <2>2, <2>6, WriteIs
  <2> QED
    BY <2>1, <2>4, <2>7
<1>10. IsBox(P, n, F, v, I, u, K)
  BY <1>7, <1>8, <1>9 DEF IsBox
<1>11. Numbers(u, K, c, d)
  BY DEF Lanes
<1>12. lo \in Int /\ hi \in Int /\ c \in Int /\ d \in Int
  BY <1>4
<1> QED
  BY <1>5, <1>6, <1>10, <1>11, <1>12, BoxFills

LEMMA StepsLanes ==
    ASSUME NEW lo \in Nat, NEW n \in Nat, lo <= n, NEW w \in Nat \ {0}, NEW I, I = Steps(lo, n, w)
    PROVE  \E s : Lanes(s, I, lo, Reached(lo, n, w))
<1> DEFINE s == [t \in Steps(lo, n, w) |-> t[1] + t[2]]
<1>1. \A t \in Steps(lo, n, w) : s[t] = t[1] + t[2]
  OBVIOUS
<1> HIDE DEF s
<1>2. /\ Numbers(s, Steps(lo, n, w), lo, Reached(lo, n, w))
      /\ \A t \in Steps(lo, n, w) : t[1] \in Nat /\ t[2] \in Nat
  BY <1>1, StepsReach
<1>3. Lanes(s, I, lo, Reached(lo, n, w))
  BY <1>1, <1>2 DEF Lanes
<1> QED
  BY <1>3

Ones(lo, hi) == {<<q, 0>> : q \in lo .. hi - 1}

LEMMA OnesLanes ==
    ASSUME NEW lo \in Nat, NEW hi \in Int
    PROVE  \E s : Lanes(s, Ones(lo, hi), lo, hi)
<1> DEFINE T == Ones(lo, hi)
           s == [t \in T |-> t[1] + t[2]]
<1>1. \A t \in T : s[t] = t[1] + t[2]
  OBVIOUS
<1>2. T = {<<q, 0>> : q \in lo .. hi - 1}
  BY DEF Ones
<1>3. \A t \in T : t[1] \in Nat /\ t[2] \in Nat
  BY <1>2
<1> HIDE DEF T, s
<1>4. Numbers(s, T, lo, hi)
  BY <1>1, <1>2, OnesNumber
<1>5. Lanes(s, T, lo, hi)
  BY <1>1, <1>3, <1>4 DEF Lanes
<1> QED
  BY <1>5 DEF T

\* The three loops over one panel: the whole tiles, the leftover weight rows, and the leftover
\* activation rows against every weight row.
LEMMA ThreeLoopsFill ==
    ASSUME NEW n \in Nat, NEW j0 \in Nat, NEW rows \in Nat, NEW p0 \in Nat, NEW p1 \in Nat, p0 <= p1,
           NEW a, NEW b, NEW c, NEW P, NEW Q, NEW R,
           PutsOf(P, n, a, j0, Steps(0, rows, 4), Steps(p0, p1, 4)),
           PutsOf(Q, n, b, j0, Ones(Reached(0, rows, 4), rows), Steps(p0, p1, 4)),
           PutsOf(R, n, c, j0, Ones(0, rows), Ones(Reached(p0, p1, 4), p1))
    PROVE  Fills(P \cup Q \cup R, n, j0 .. j0 + rows - 1, p0 .. p1 - 1)
<1> DEFINE I == Steps(0, rows, 4)
           K == Steps(p0, p1, 4)
           f == Reached(0, rows, 4)
           q1 == Reached(p0, p1, 4)
           ws1 == j0 + 0 .. j0 + f - 1
           ws2 == j0 + f .. j0 + rows - 1
           ws == j0 + 0 .. j0 + rows - 1
           xs1 == p0 .. q1 - 1
           xs2 == q1 .. p1 - 1
<1>0. 0 <= rows /\ 0 \in Nat /\ 4 \in Nat \ {0} /\ rows \in Int /\ p0 \in Int /\ p1 \in Int
  OBVIOUS
<1>1. f \in 0 .. rows
  <2> DEFINE s == [t \in I |-> t[1] + t[2]]
  <2>1. \A t \in I : s[t] = t[1] + t[2]
    OBVIOUS
  <2> HIDE DEF s
  <2> QED
    BY <1>0, <2>1, StepsReach
<1>2. q1 \in p0 .. p1
  <2> DEFINE s == [t \in K |-> t[1] + t[2]]
  <2>1. \A t \in K : s[t] = t[1] + t[2]
    OBVIOUS
  <2> HIDE DEF s
  <2> QED
    BY <1>0, <2>1, StepsReach
<1>3. PICK s1 : Lanes(s1, I, 0, f)
  BY <1>0, StepsLanes
<1>4. PICK u1 : Lanes(u1, K, p0, q1)
  BY <1>0, StepsLanes
<1> HIDE DEF I, K, f, q1
<1>5. f \in Nat /\ f \in Int /\ q1 \in Nat /\ q1 \in Int
  BY <1>1, <1>2
<1>6. PICK s2 : Lanes(s2, Ones(f, rows), f, rows)
  BY <1>5, OnesLanes
<1>7. PICK s3 : Lanes(s3, Ones(0, rows), 0, rows)
  BY <1>0, OnesLanes
<1>8. PICK u2 : Lanes(u2, Ones(q1, p1), q1, p1)
  BY <1>5, OnesLanes
<1>9. /\ PutsOf(P, n, a, j0, I, K) /\ PutsOf(Q, n, b, j0, Ones(f, rows), K)
      /\ PutsOf(R, n, c, j0, Ones(0, rows), Ones(q1, p1))
  BY DEF I, K, f, q1
<1>10. ws1 = j0 + 0 .. j0 + f - 1 /\ ws2 = j0 + f .. j0 + rows - 1 /\ ws = j0 + 0 .. j0 + rows - 1
  OBVIOUS
<1>11. xs1 = p0 .. q1 - 1 /\ xs2 = q1 .. p1 - 1
  OBVIOUS
<1>12. ws1 \cup ws2 = ws /\ ws1 \cap ws2 = {} /\ ws = j0 .. j0 + rows - 1
  BY <1>1
<1>13. xs1 \cup xs2 = p0 .. p1 - 1 /\ xs1 \cap xs2 = {}
  BY <1>2
<1> HIDE DEF ws1, ws2, ws, xs1, xs2
<1>14. Fills(P, n, ws1, xs1)
  <2>1. PutsOf(P, n, a, j0, I, K) /\ ws1 = j0 + 0 .. j0 + f - 1 /\ 0 \in Int
    BY <1>9, <1>10
  <2> QED
    BY <1>0, <1>3, <1>4, <1>5, <1>11, <2>1, PutsFill
<1>15. Fills(Q, n, ws2, xs1)
  BY <1>0, <1>4, <1>5, <1>6, <1>9, <1>10, <1>11, PutsFill
<1>16. Fills(R, n, ws, xs2)
  BY <1>0, <1>5, <1>7, <1>8, <1>9, <1>10, <1>11, PutsFill
<1>17. Fills(P \cup Q, n, ws, xs1)
  BY <1>12, <1>14, <1>15, FillsBeside
<1>18. Fills(P \cup Q \cup R, n, ws, xs1 \cup xs2)
  BY <1>13, <1>16, <1>17, FillsBelow
<1> QED
  BY <1>12, <1>13, <1>18

\* The panels of a task: whole tiles and leftovers, all of its columns against all of its rows.
LEMMA Q8TilesFill ==
    ASSUME NEW n \in Nat, NEW ci, NEW j0 \in Nat, NEW rows \in Nat, NEW p0 \in Nat, NEW p1 \in Nat, p0 <= p1
    PROVE  Fills(Q8Tiles(n, ci, j0, rows, p0, p1), n, j0 .. j0 + rows - 1, p0 .. p1 - 1)
<1> DEFINE rows4 == Floor4(rows)
           q1 == p0 + Floor4(p1 - p0)
           SJ == StepBy(0, rows4, 4)
           SI == StepBy(p0, q1, 4)
           I == Steps(0, rows, 4)
           K == Steps(p0, p1, 4)
           P == {Put(n, <<ci, p0, 1>>, j0, jl, l, i, ri) : jl \in SJ, l \in 0 .. 3, i \in SI, ri \in 0 .. 3}
           Q == {Put(n, <<ci, p0, 2>>, j0, jl, 0, i, ri) : jl \in rows4 .. rows - 1, i \in SI, ri \in 0 .. 3}
           R == {Put(n, <<ci, p0, 3>>, j0, jl, 0, i, 0) : jl \in 0 .. rows - 1, i \in q1 .. p1 - 1}
<1>1. Q8Tiles(n, ci, j0, rows, p0, p1) = P \cup Q \cup R
  BY DEF Q8Tiles
<1>2. rows4 = Reached(0, rows, 4) /\ q1 = Reached(p0, p1, 4)
  BY DEF Reached, Floor4
<1>3. I = SJ \X (0 .. 3) /\ K = SI \X (0 .. 3)
  BY <1>2 DEF Steps, Reached
<1> HIDE DEF SJ, SI, rows4, q1, I, K
<1>4. ASSUME NEW t \in I PROVE t[1] \in SJ /\ t[2] \in 0 .. 3
  BY <1>3, PairIs
<1>5. ASSUME NEW k \in K PROVE k[1] \in SI /\ k[2] \in 0 .. 3
  BY <1>3, PairIs
<1>6. ASSUME NEW jl \in SJ, NEW l \in 0 .. 3 PROVE <<jl, l>> \in I /\ <<jl, l>>[1] = jl /\ <<jl, l>>[2] = l
  BY <1>3
<1>7. ASSUME NEW i \in SI, NEW ri \in 0 .. 3 PROVE <<i, ri>> \in K /\ <<i, ri>>[1] = i /\ <<i, ri>>[2] = ri
  BY <1>3
<1>8. PutsOf(P, n, <<ci, p0, 1>>, j0, I, K)
  <2>1. ASSUME NEW p \in P PROVE \E t \in I, k \in K : p = Put(n, <<ci, p0, 1>>, j0, t[1], t[2], k[1], k[2])
    <3>1. PICK jl \in SJ, l \in 0 .. 3, i \in SI, ri \in 0 .. 3 : p = Put(n, <<ci, p0, 1>>, j0, jl, l, i, ri)
      OBVIOUS
    <3> DEFINE t == <<jl, l>>
               k == <<i, ri>>
    <3> HIDE DEF P
    <3>2. t \in I /\ t[1] = jl /\ t[2] = l
      BY <1>6
    <3>3. k \in K /\ k[1] = i /\ k[2] = ri
      BY <1>7
    <3> HIDE DEF t, k
    <3> QED
      BY <3>1, <3>2, <3>3
  <2>2. ASSUME NEW t \in I, NEW k \in K PROVE Put(n, <<ci, p0, 1>>, j0, t[1], t[2], k[1], k[2]) \in P
    BY <1>4, <1>5
  <2> HIDE DEF P
  <2> QED
    BY <2>1, <2>2 DEF PutsOf
<1>9. PutsOf(Q, n, <<ci, p0, 2>>, j0, Ones(rows4, rows), K)
  <2>1. ASSUME NEW p \in Q
        PROVE  \E t \in Ones(rows4, rows), k \in K : p = Put(n, <<ci, p0, 2>>, j0, t[1], t[2], k[1], k[2])
    <3>1. PICK jl \in rows4 .. rows - 1, i \in SI, ri \in 0 .. 3 : p = Put(n, <<ci, p0, 2>>, j0, jl, 0, i, ri)
      OBVIOUS
    <3> DEFINE t == <<jl, 0>>
               k == <<i, ri>>
    <3> HIDE DEF Q
    <3>2. t \in Ones(rows4, rows) /\ t[1] = jl /\ t[2] = 0
      BY DEF Ones
    <3>3. k \in K /\ k[1] = i /\ k[2] = ri
      BY <1>7
    <3> HIDE DEF t, k
    <3> QED
      BY <3>1, <3>2, <3>3
  <2>2. ASSUME NEW t \in Ones(rows4, rows), NEW k \in K
        PROVE  Put(n, <<ci, p0, 2>>, j0, t[1], t[2], k[1], k[2]) \in Q
    <3>1. t[1] \in rows4 .. rows - 1 /\ t[2] = 0
      BY DEF Ones
    <3> QED
      BY <1>5, <3>1
  <2> HIDE DEF Q
  <2> QED
    BY <2>1, <2>2 DEF PutsOf
<1>10. PutsOf(R, n, <<ci, p0, 3>>, j0, Ones(0, rows), Ones(q1, p1))
  <2>1. ASSUME NEW p \in R
        PROVE  \E t \in Ones(0, rows), k \in Ones(q1, p1) : p = Put(n, <<ci, p0, 3>>, j0, t[1], t[2], k[1], k[2])
    <3>1. PICK jl \in 0 .. rows - 1, i \in q1 .. p1 - 1 : p = Put(n, <<ci, p0, 3>>, j0, jl, 0, i, 0)
      OBVIOUS
    <3>2. <<jl, 0>> \in Ones(0, rows) /\ <<jl, 0>>[1] = jl /\ <<jl, 0>>[2] = 0
      BY DEF Ones
    <3>3. <<i, 0>> \in Ones(q1, p1) /\ <<i, 0>>[1] = i /\ <<i, 0>>[2] = 0
      BY DEF Ones
    <3> QED
      BY <3>1, <3>2, <3>3
  <2>2. ASSUME NEW t \in Ones(0, rows), NEW k \in Ones(q1, p1)
        PROVE  Put(n, <<ci, p0, 3>>, j0, t[1], t[2], k[1], k[2]) \in R
    <3>1. t[1] \in 0 .. rows - 1 /\ t[2] = 0 /\ k[1] \in q1 .. p1 - 1 /\ k[2] = 0
      BY DEF Ones
    <3> QED
      BY <3>1
  <2> HIDE DEF R
  <2> QED
    BY <2>1, <2>2 DEF PutsOf
<1> HIDE DEF P, Q, R
<1>11. Fills(P \cup Q \cup R, n, j0 .. j0 + rows - 1, p0 .. p1 - 1)
  <2>1. /\ PutsOf(P, n, <<ci, p0, 1>>, j0, Steps(0, rows, 4), Steps(p0, p1, 4))
        /\ PutsOf(Q, n, <<ci, p0, 2>>, j0, Ones(Reached(0, rows, 4), rows), Steps(p0, p1, 4))
        /\ PutsOf(R, n, <<ci, p0, 3>>, j0, Ones(0, rows), Ones(Reached(p0, p1, 4), p1))
    BY <1>2, <1>8, <1>9, <1>10 DEF I, K
  <2> QED
    BY <2>1, ThreeLoopsFill
<1> QED
  BY <1>1, <1>11

\* The starts of the panels.
LEMMA PanelsDivide ==
    ASSUME NEW m \in Nat, NEW panel \in Nat \ {0}, NEW A, A = StepBy(0, m, panel), NEW X,
           \A p0 \in A : X[p0] = p0 .. MinOf(p0 + panel, m) - 1
    PROVE  Divides(X, A, m) /\ \A p0 \in A : p0 \in Nat /\ MinOf(p0 + panel, m) \in Nat /\ p0 <= MinOf(p0 + panel, m)
<1> DEFINE C == Chunks(m, panel)
           Y == [q \in C |-> Slice(m, panel, q)]
<1>1. Divides(Y, C, m)
  <2>1. \A q \in C : Y[q] = Slice(m, panel, q)
    OBVIOUS
  <2> HIDE DEF Y
  <2> QED
    BY <2>1, SlicesDivide
<1>2. A = {0 + panel * q : q \in C}
  <2>1. MaxOf(m - 0, 0) = m
    BY DEF MaxOf
  <2> QED
    BY <2>1 DEF StepBy, Chunks
<1>3. ASSUME NEW q \in C
      PROVE  /\ 0 + panel * q = q * panel /\ q * panel \in Nat /\ q * panel \in A /\ X[q * panel] = Y[q]
             /\ q \in Nat /\ MinOf(q * panel + panel, m) \in Nat /\ q * panel <= MinOf(q * panel + panel, m)
  <2> DEFINE a == q * panel
             len == MinOf(panel, m - a)
  <2>1. q \in Nat /\ a \in Nat /\ len \in Nat /\ a + len = MinOf(a + panel, m)
    BY SliceIs
  <2>2. 0 + panel * q = a
    BY <2>1
  <2>3. a \in A
    BY <1>2, <2>2
  <2>4. Y[q] = a .. MinOf(a + panel, m) - 1
    BY DEF Slice
  <2> HIDE DEF len, a
  <2>5. X[a] = Y[q]
    BY <2>3, <2>4
  <2>6. MinOf(a + panel, m) \in Nat /\ a <= MinOf(a + panel, m)
    BY <2>1
  <2> QED
    BY <2>1, <2>2, <2>3, <2>5, <2>6 DEF a
<1>4. ASSUME NEW p0 \in A PROVE \E q \in C : p0 = q * panel
  BY <1>2, <1>3
<1> HIDE DEF Y, C
<1>5. ASSUME NEW p0 \in A PROVE X[p0] \subseteq 0 .. m - 1
  <2>1. PICK q \in C : p0 = q * panel
    BY <1>4
  <2> QED
    BY <1>1, <1>3, <2>1 DEF Divides
<1>6. ASSUME NEW j \in 0 .. m - 1 PROVE \E p0 \in A : j \in X[p0]
  <2>1. PICK q \in C : j \in Y[q]
    BY <1>1 DEF Divides
  <2> QED
    BY <1>3, <2>1
<1>7. ASSUME NEW a \in A, NEW b \in A, NEW j \in 0 .. m - 1, j \in X[a], j \in X[b] PROVE a = b
  <2>1. PICK q \in C : a = q * panel
    BY <1>4
  <2>2. PICK r \in C : b = r * panel
    BY <1>4
  <2>3. j \in Y[q] /\ j \in Y[r]
    BY <1>3, <1>7, <2>1, <2>2
  <2>4. q = r
    BY <1>1, <2>3 DEF Divides
  <2> QED
    BY <2>1, <2>2, <2>4
<1>8. Divides(X, A, m)
  BY <1>5, <1>6, <1>7 DEF Divides
<1> QED
  BY <1>3, <1>4, <1>8

LEMMA Q8BlockedWrites ==
    ASSUME NEW m \in Nat, NEW n \in Nat, NEW wchunk \in Nat \ {0}, NEW panel \in Nat \ {0}
    PROVE  WritesEachOnce(MatmulQ8Blocked(m, n, wchunk, panel), m, n)
<1> DEFINE A == StepBy(0, m, panel)
           B == Chunks(n, wchunk)
           X == [p0 \in A |-> p0 .. MinOf(p0 + panel, m) - 1]
           W == [ci \in B |-> Slice(n, wchunk, ci)]
           Part(p0, ci) == Q8Tiles(n, ci, ci * wchunk, MinOf(wchunk, n - ci * wchunk), p0, MinOf(p0 + panel, m))
           F == [s \in A \X B |-> Part(s[1], s[2])]
           plan == MatmulQ8Blocked(m, n, wchunk, panel)
<1>1. plan = UNION {Part(p0, ci) : ci \in B, p0 \in A}
  BY DEF MatmulQ8Blocked
<1>2. \A p0 \in A : X[p0] = p0 .. MinOf(p0 + panel, m) - 1
  OBVIOUS
<1> HIDE DEF plan, A, X
<1>3. Divides(X, A, m) /\ \A p0 \in A : p0 \in Nat /\ MinOf(p0 + panel, m) \in Nat /\ p0 <= MinOf(p0 + panel, m)
  BY <1>2, PanelsDivide DEF A
<1>4. ASSUME NEW p0 \in A, NEW ci \in B PROVE Fills(Part(p0, ci), n, Slice(n, wchunk, ci), X[p0])
  <2> DEFINE a == ci * wchunk
             len == MinOf(wchunk, n - a)
             p1 == MinOf(p0 + panel, m)
  <2>1. a \in Nat /\ len \in Nat /\ Slice(n, wchunk, ci) = a .. a + len - 1
    BY SliceIs
  <2>2. p0 \in Nat /\ p1 \in Nat /\ p0 <= p1 /\ X[p0] = p0 .. p1 - 1
    BY <1>2, <1>3
  <2>3. Part(p0, ci) = Q8Tiles(n, ci, a, len, p0, p1)
    OBVIOUS
  <2> HIDE DEF a, len, p1, Part
  <2>4. Fills(Q8Tiles(n, ci, a, len, p0, p1), n, a .. a + len - 1, p0 .. p1 - 1)
    BY <2>1, <2>2, Q8TilesFill
  <2> QED
    BY <2>1, <2>2, <2>3, <2>4
<1> HIDE DEF Part
<1>5. \A p \in plan : \E p0 \in A, ci \in B : p \in F[<<p0, ci>>]
  BY <1>1
<1>6. \A p0 \in A, ci \in B : F[<<p0, ci>>] \subseteq plan
  BY <1>1
<1>7. \A p0 \in A, ci \in B : Fills(F[<<p0, ci>>], n, W[ci], X[p0])
  BY <1>4
<1>8. Divides(W, B, n)
  BY SlicesDivide
<1> HIDE DEF F, W, B
<1>9. IsGrid(plan, n, F, X, A, W, B)
  BY <1>5, <1>6, <1>7 DEF IsGrid
<1>10. WritesEachOnce(plan, m, n)
  BY <1>3, <1>8, <1>9, FillsGrid
<1> QED
  BY <1>10 DEF plan

\* One write for each row and column, in single steps.
SinglesOf(z, n, a, b, c, d) == {Write(<<z, j, i>>, i * n + j, j, i) : i \in c .. d - 1, j \in a .. b - 1}

LEMMA SinglesFill ==
    ASSUME NEW z, NEW n \in Nat, NEW a \in Nat, NEW b \in Nat, NEW c \in Nat, NEW d \in Nat
    PROVE  Fills(SinglesOf(z, n, a, b, c, d), n, a .. b - 1, c .. d - 1)
<1> DEFINE S == SinglesOf(z, n, a, b, c, d)
<1> HIDE DEF S
<1>1. ASSUME NEW p \in S
      PROVE  \E i \in c .. d - 1, j \in a .. b - 1 : /\ p = Write(<<z, j, i>>, i * n + j, j, i)
                                                    /\ p.out = i * n + j /\ p.w = j /\ p.x = i
  <2>1. PICK i \in c .. d - 1, j \in a .. b - 1 : p = Write(<<z, j, i>>, i * n + j, j, i)
    BY DEF S, SinglesOf
  <2> QED
    BY <2>1, WriteIs
<1>2. ASSUME NEW i \in c .. d - 1, NEW j \in a .. b - 1 PROVE \E p \in S : p.w = j /\ p.x = i
  <2> DEFINE p == Write(<<z, j, i>>, i * n + j, j, i)
  <2>1. p \in S
    BY DEF S, SinglesOf
  <2>2. p.w = j /\ p.x = i
    BY WriteIs
  <2> HIDE DEF p
  <2> QED
    BY <2>1, <2>2
<1>3. ASSUME NEW p \in S PROVE p.w \in a .. b - 1 /\ p.x \in c .. d - 1 /\ p.out = p.x * n + p.w
  BY <1>1, <1>3
<1>4. ASSUME NEW p \in S, NEW q \in S, p.x = q.x, p.w = q.w PROVE p = q
  <2>1. PICK i \in c .. d - 1, j \in a .. b - 1 : p = Write(<<z, j, i>>, i * n + j, j, i) /\ p.w = j /\ p.x = i
    BY <1>1
  <2>2. PICK k \in c .. d - 1, l \in a .. b - 1 : q = Write(<<z, l, k>>, k * n + l, l, k) /\ q.w = l /\ q.x = k
    BY <1>1
  <2>3. i = k /\ j = l
    BY <1>4, <2>1, <2>2
  <2> QED
    BY <2>1, <2>2, <2>3
<1>5. Fills(S, n, a .. b - 1, c .. d - 1)
  BY <1>2, <1>3, <1>4 DEF Fills
<1> QED
  BY <1>5 DEF S

\* The serial kernel: the same loops over all columns and rows, in another order.
LEMMA Q8SerialWrites ==
    ASSUME NEW m \in Nat, NEW n \in Nat
    PROVE  WritesEachOnce(Q8GemmSerial(m, n), m, n)
<1> DEFINE m4 == Floor4(m)
           n4 == Floor4(n)
           SJ == StepBy(0, n4, 4)
           SI == StepBy(0, m4, 4)
           I == Steps(0, n, 4)
           K == Steps(0, m, 4)
           P == {Write(<<1, j, i>>, (i + ri) * n + j + l, j + l, i + ri) : j \in SJ, l \in 0 .. 3, i \in SI, ri \in 0 .. 3}
           Q == {Write(<<2, j, i>>, i * n + j, j, i) : i \in m4 .. m - 1, j \in 0 .. n - 1}
           R == {Write(<<3, j, i>>, i * n + j, j, i) : i \in 0 .. m4 - 1, j \in n4 .. n - 1}
<1>1. Q8GemmSerial(m, n) = P \cup Q \cup R
  BY DEF Q8GemmSerial
<1>2. n4 = Reached(0, n, 4) /\ m4 = Reached(0, m, 4) /\ n4 \in 0 .. n /\ m4 \in 0 .. m
  <2>1. n4 = Reached(0, n, 4) /\ m4 = Reached(0, m, 4)
    BY DEF Reached, Floor4
  <2>2. n4 \in Nat /\ n4 <= n /\ m4 \in Nat /\ m4 <= m
    BY FloorIs
  <2> QED
    BY <2>1, <2>2
<1>3. I = SJ \X (0 .. 3) /\ K = SI \X (0 .. 3)
  BY <1>2 DEF Steps, Reached
<1>4. PICK s : Lanes(s, I, 0, n4)
  BY <1>2, StepsLanes
<1>5. PICK u : Lanes(u, K, 0, m4)
  BY <1>2, StepsLanes
<1> HIDE DEF SJ, SI, m4, n4, I, K
<1>6. ASSUME NEW t \in I PROVE t[1] \in SJ /\ t[2] \in 0 .. 3
  BY <1>3, PairIs
<1>7. ASSUME NEW k \in K PROVE k[1] \in SI /\ k[2] \in 0 .. 3
  BY <1>3, PairIs
<1>8. ASSUME NEW jl \in SJ, NEW l \in 0 .. 3 PROVE <<jl, l>> \in I /\ <<jl, l>>[1] = jl /\ <<jl, l>>[2] = l
  BY <1>3
<1>9. ASSUME NEW i \in SI, NEW ri \in 0 .. 3 PROVE <<i, ri>> \in K /\ <<i, ri>>[1] = i /\ <<i, ri>>[2] = ri
  BY <1>3
<1> HIDE DEF P, Q, R
<1>10. Fills(P, n, 0 .. n4 - 1, 0 .. m4 - 1)
  <2> DEFINE W(j, l, i, ri) == Write(<<1, j, i>>, (i + ri) * n + j + l, j + l, i + ri)
             F == [tk \in I \X K |-> W(tk[1][1], tk[1][2], tk[2][1], tk[2][2])]
  <2>1. P = {W(j, l, i, ri) : j \in SJ, l \in 0 .. 3, i \in SI, ri \in 0 .. 3}
    BY DEF P
  <2>2. ASSUME NEW t \in I, NEW k \in K PROVE F[<<t, k>>] = W(t[1], t[2], k[1], k[2])
    OBVIOUS
  <2> HIDE DEF F, W
  <2>3. ASSUME NEW p \in P PROVE \E t \in I, k \in K : p = F[<<t, k>>]
    <3>1. PICK jl \in SJ, l \in 0 .. 3, i \in SI, ri \in 0 .. 3 : p = W(jl, l, i, ri)
      BY <2>1
    <3> DEFINE t == <<jl, l>>
               k == <<i, ri>>
    <3>2. t \in I /\ t[1] = jl /\ t[2] = l
      BY <1>8
    <3>3. k \in K /\ k[1] = i /\ k[2] = ri
      BY <1>9
    <3> HIDE DEF t, k
    <3> QED
      BY <2>2, <3>1, <3>2, <3>3
  <2>4. ASSUME NEW t \in I, NEW k \in K PROVE F[<<t, k>>] \in P
    BY <1>6, <1>7, <2>1, <2>2
  <2>5. ASSUME NEW t \in I, NEW k \in K
        PROVE  F[<<t, k>>].w = s[t] /\ F[<<t, k>>].x = u[k] /\ F[<<t, k>>].out = u[k] * n + s[t]
    <3> DEFINE e == (k[1] + k[2]) * n
    <3>1. t[1] \in Nat /\ t[2] \in Nat /\ s[t] = t[1] + t[2]
      BY <1>4 DEF Lanes
    <3>2. k[1] \in Nat /\ k[2] \in Nat /\ u[k] = k[1] + k[2]
      BY <1>5 DEF Lanes
    <3>3. F[<<t, k>>] = Write(<<1, t[1], k[1]>>, e + t[1] + t[2], t[1] + t[2], k[1] + k[2])
      BY <2>2 DEF W
    <3>4. e \in Nat /\ e = u[k] * n
      BY <3>2
    <3> HIDE DEF e
    <3>5. e + t[1] + t[2] = e + s[t]
      BY <3>1, <3>4
    <3>6. F[<<t, k>>].w = t[1] + t[2] /\ F[<<t, k>>].x = k[1] + k[2] /\ F[<<t, k>>].out = e + s[t]
      BY <3>3, <3>5, WriteIs
    <3> QED
      BY <3>1, <3>2, <3>4, <3>6
  <2>6. IsBox(P, n, F, s, I, u, K)
    BY <2>3, <2>4, <2>5 DEF IsBox
  <2>7. Numbers(s, I, 0, n4) /\ Numbers(u, K, 0, m4)
    BY <1>4, <1>5 DEF Lanes
  <2> DEFINE ws == 0 .. n4 - 1
             xs == 0 .. m4 - 1
  <2>8. ws = 0 .. n4 - 1 /\ xs = 0 .. m4 - 1
    OBVIOUS
  <2> HIDE DEF ws, xs
  <2>9. 0 \in Int /\ n4 \in Int /\ m4 \in Int
    BY <1>2
  <2>10. Fills(P, n, ws, xs)
    BY ONLY <2>6, <2>7, <2>8, <2>9, BoxFills
  <2> QED
    BY <2>10 DEF ws, xs
<1>12. Fills(Q, n, 0 .. n - 1, m4 .. m - 1)
  <2>1. Q = SinglesOf(2, n, 0, n, m4, m)
    BY DEF Q, SinglesOf
  <2>2. 0 \in Nat /\ m4 \in Nat
    BY <1>2
  <2> QED
    BY <2>1, <2>2, SinglesFill
<1>13. Fills(R, n, n4 .. n - 1, 0 .. m4 - 1)
  <2>1. R = SinglesOf(3, n, n4, n, 0, m4)
    BY DEF R, SinglesOf
  <2>2. 0 \in Nat /\ m4 \in Nat /\ n4 \in Nat
    BY <1>2
  <2> QED
    BY <2>1, <2>2, SinglesFill
<1> DEFINE ws1 == 0 .. n4 - 1
           ws2 == n4 .. n - 1
           ws == 0 .. n - 1
           xs1 == 0 .. m4 - 1
           xs2 == m4 .. m - 1
           xs == 0 .. m - 1
<1>14. ws1 \cup ws2 = ws /\ ws1 \cap ws2 = {}
  BY <1>2
<1>15. xs1 \cup xs2 = xs /\ xs1 \cap xs2 = {}
  BY <1>2
<1>16. Fills(P, n, ws1, xs1) /\ Fills(Q, n, ws, xs2) /\ Fills(R, n, ws2, xs1)
  BY <1>10, <1>12, <1>13
<1> HIDE DEF ws1, ws2, ws, xs1, xs2, xs
<1>17. Fills(P \cup R, n, ws, xs1)
  BY <1>14, <1>16, FillsBeside
<1>18. Fills((P \cup R) \cup Q, n, ws, xs)
  BY <1>15, <1>16, <1>17, FillsBelow
<1>19. (P \cup R) \cup Q = P \cup Q \cup R
  OBVIOUS
<1>20. WritesEachOnce(P \cup Q \cup R, m, n)
  BY <1>18, <1>19, CellByCell DEF ws, xs
<1> QED
  BY <1>1, <1>20

-----------------------------------------------------------------------------
(* The dot products, the chunk sizes, and a whole call.                    *)

\* Every element of a vector is multiplied once, whatever its length.
LEMMA DotsVisit ==
    ASSUME NEW n \in Nat, NEW visits \in {dot_f32_neon_fast(n), dot_f32_avx2(n), dot_f32_x_f16_neon(n)}
    PROVE  VisitsEachOnce(visits, n)
<1>1. ASSUME NEW lo \in Nat, lo <= n, NEW w \in Nat \ {0}, NEW v, \A t \in Steps(lo, n, w) : v[t] = t[1] + t[2]
      PROVE  Numbers(v, Steps(lo, n, w), lo, Reached(lo, n, w)) /\ Reached(lo, n, w) \in lo .. n
  BY <1>1, StepsReach
<1>2. ASSUME NEW lo \in Nat, lo <= n PROVE Reached(lo, n, 1) = n
  <2>1. (n - lo) \div 1 = n - lo
    BY <1>2
  <2> QED
    BY <1>2, <2>1 DEF Reached
<1>3. ASSUME NEW v, NEW S, NEW T, NEW f \in Nat, f <= n, Numbers(v, S, 0, f), Numbers(v, T, f, n)
      PROVE  Numbers(v, S \cup T, 0, n)
  <2>1. 0 \in Int /\ f \in Int /\ n \in Int /\ 0 <= f
    OBVIOUS
  <2> QED
    BY <1>3, <2>1, NumbersOn
<1>4. ASSUME NEW w \in Nat \ {0}, NEW v, \A t \in Steps(0, n, w) \cup Steps(Reached(0, n, w), n, 1) : v[t] = t[1] + t[2]
      PROVE  Numbers(v, Steps(0, n, w) \cup Steps(Reached(0, n, w), n, 1), 0, n)
  <2> DEFINE f == Reached(0, n, w)
  <2>1. Numbers(v, Steps(0, n, w), 0, f) /\ f \in 0 .. n
    BY <1>1, <1>4
  <2> HIDE DEF f
  <2>2. f \in Nat /\ f <= n
    BY <2>1
  <2>3. \A t \in Steps(f, n, 1) : v[t] = t[1] + t[2]
    BY <1>4 DEF f
  <2>4. Numbers(v, Steps(f, n, 1), f, n)
    BY <1>1, <1>2, <2>2, <2>3
  <2>5. Numbers(v, Steps(0, n, w) \cup Steps(f, n, 1), 0, n)
    BY <1>3, <2>1, <2>2, <2>4
  <2> QED
    BY <2>5 DEF f
<1> DEFINE v == [t \in visits |-> t[1] + t[2]]
<1>5. \A t \in visits : v[t] = t[1] + t[2]
  OBVIOUS
<1> HIDE DEF v
<1>6. Numbers(v, visits, 0, n)
  <2>1. CASE visits = dot_f32_neon_fast(n)
    <3> DEFINE f == Reached(0, n, 16)
               g == Reached(f, n, 4)
    <3>1. visits = (Steps(0, n, 16) \cup Steps(f, n, 4)) \cup Steps(g, n, 1)
      BY <2>1 DEF dot_f32_neon_fast
    <3>2. Numbers(v, Steps(0, n, 16), 0, f) /\ f \in 0 .. n
      BY <1>1, <1>5, <3>1
    <3> HIDE DEF f
    <3>3. f \in Nat /\ f <= n
      BY <3>2
    <3>4. Numbers(v, Steps(f, n, 4), f, g) /\ g \in f .. n
      BY <1>1, <1>5, <3>1, <3>3
    <3> HIDE DEF g
    <3>5. g \in Nat /\ g <= n /\ f <= g
      BY <3>3, <3>4
    <3>6. Numbers(v, Steps(g, n, 1), g, n)
      BY <1>1, <1>2, <1>5, <3>1, <3>5
    <3>7. Numbers(v, Steps(0, n, 16) \cup Steps(f, n, 4), 0, g)
      <4>1. 0 \in Int /\ f \in Int /\ g \in Int /\ 0 <= f
        BY <3>3, <3>5
      <4> QED
        BY <3>2, <3>4, <3>5, <4>1, NumbersOn
    <3> QED
      BY <1>3, <3>1, <3>5, <3>6, <3>7
  <2>2. CASE visits = dot_f32_avx2(n)
    <3>1. visits = Steps(0, n, 8) \cup Steps(Reached(0, n, 8), n, 1)
      BY <2>2 DEF dot_f32_avx2
    <3> QED
      BY <1>4, <1>5, <3>1
  <2>3. CASE visits = dot_f32_x_f16_neon(n)
    <3>1. visits = Steps(0, n, 4) \cup Steps(Reached(0, n, 4), n, 1)
      BY <2>3 DEF dot_f32_x_f16_neon
    <3> QED
      BY <1>4, <1>5, <3>1
  <2> QED
    BY <2>1, <2>2, <2>3
<1>7. \A t \in visits : v[t] \in 0 .. n - 1
  BY <1>6 DEF Numbers
<1>8. \A j \in 0 .. n - 1 : \E t \in visits : v[t] = j
  BY <1>6 DEF Numbers
<1>9. \A t, u \in visits : v[t] = v[u] => t = u
  BY <1>6 DEF Numbers
<1>10. {t[1] + t[2] : t \in visits} = 0 .. n - 1
  BY <1>5, <1>7, <1>8
<1>11. \A t, u \in visits : t[1] + t[2] = u[1] + u[2] => t = u
  BY <1>5, <1>9
<1> QED
  BY <1>10, <1>11 DEF VisitsEachOnce

\* No chunk, panel or block is empty.
LEMMA ChunkIsPositive ==
    ASSUME NEW n \in Nat, NEW eff \in Nat, NEW rayon \in Nat, NEW ncpus \in Nat \ {0}, NEW tpc \in Nat
    PROVE  GemvChunk(n, eff, rayon, ncpus, tpc) \in Nat \ {0}
<1>1. \A a \in Nat : MaxOf(a, 16) \in Nat \ {0}
  BY DEF MaxOf
<1>2. \A a \in Nat \ {0} : MinOf(a, 512) \in Nat \ {0}
  BY DEF MinOf
<1>3. \A d \in Nat \ {0} : n \div d \in Nat
  OBVIOUS
<1>4. MaxOf(eff, 1) \in Nat \ {0}
  BY DEF MaxOf
<1>5. ncpus * 4 \in Nat \ {0}
  OBVIOUS
<1>6. tpc >= 1 => ncpus * tpc \in Nat \ {0}
  <2> SUFFICES ASSUME tpc >= 1 PROVE ncpus * tpc \in Nat \ {0}
    OBVIOUS
  <2>1. 1 * ncpus <= tpc * ncpus
    BY Ordered
  <2>2. tpc * ncpus = ncpus * tpc /\ ncpus * tpc \in Nat
    OBVIOUS
  <2> QED
    BY <2>1, <2>2
<1>7. CASE eff < rayon
  <2> DEFINE d == MaxOf(eff, 1)
  <2>1. GemvChunk(n, eff, rayon, ncpus, tpc) = MaxOf(n \div d, 16)
    BY <1>7 DEF GemvChunk
  <2>2. d \in Nat \ {0}
    BY <1>4
  <2> HIDE DEF d
  <2> QED
    BY <1>1, <1>3, <2>1, <2>2
<1>8. CASE ~(eff < rayon) /\ tpc >= 1
  <2> DEFINE d == ncpus * tpc
  <2>1. GemvChunk(n, eff, rayon, ncpus, tpc) = MaxOf(n \div d, 16)
    BY <1>8 DEF GemvChunk
  <2>2. d \in Nat \ {0}
    BY <1>6, <1>8
  <2> HIDE DEF d
  <2> QED
    BY <1>1, <1>3, <2>1, <2>2
<1>9. CASE ~(eff < rayon) /\ ~(tpc >= 1)
  <2> DEFINE d == ncpus * 4
             a == MaxOf(n \div d, 16)
  <2>1. GemvChunk(n, eff, rayon, ncpus, tpc) = MinOf(a, 512)
    BY <1>9 DEF GemvChunk
  <2>2. d \in Nat \ {0}
    BY <1>5
  <2> HIDE DEF d
  <2>3. a \in Nat \ {0}
    BY <1>1, <1>3, <2>2
  <2> HIDE DEF a
  <2> QED
    BY <1>2, <2>1, <2>3
<1> QED
  BY <1>7, <1>8, <1>9

LEMMA WChunkIsPositive ==
    ASSUME NEW n \in Nat, NEW tasks \in Nat \ {0}
    PROVE  WChunk(n, tasks) \in Nat \ {0}
<1>1. DivCeil(n, tasks) \in Nat
  BY DivCeilBounds
<1> DEFINE d == DivCeil(n, tasks)
<1>2. d \in Nat /\ 4 \in Nat \ {0}
  BY <1>1
<1>3. WChunk(n, tasks) = MaxOf(4 * DivCeil(d, 4), 4)
  BY DEF WChunk
<1> HIDE DEF d
<1> DEFINE e == DivCeil(d, 4)
<1>4. e \in Nat
  BY <1>2, DivCeilBounds
<1>5. WChunk(n, tasks) = MaxOf(4 * e, 4)
  BY <1>3
<1> HIDE DEF e
<1> QED
  BY <1>4, <1>5 DEF MaxOf

LEMMA PanelIsPositive ==
    ASSUME NEW bytes \in Nat, NEW k \in Nat \ {0}
    PROVE  Panel(bytes, k) \in Nat \ {0}
<1> DEFINE a == bytes \div k
           b == MaxOf(a, 4)
<1>1. a \in Nat
  OBVIOUS
<1> HIDE DEF a
<1>2. b \in Nat /\ b >= 4
  BY <1>1 DEF MaxOf
<1> HIDE DEF b
<1>3. Floor4(b) \in Nat /\ b < Floor4(b) + 4
  BY <1>2, FloorIs
<1>4. Floor4(b) \in Nat \ {0}
  BY <1>2, <1>3
<1> QED
  BY <1>4 DEF Panel, a, b

LEMMA MBlockIsPositive ==
    ASSUME NEW m \in Nat \ {0}, NEW threads \in Nat \ {0}, NEW split \in BOOLEAN
    PROVE  MBlock(m, threads, split) \in Nat \ {0}
<1>1. DivCeil(m, threads) \in Nat
  BY DivCeilBounds
<1>2. MaxOf(DivCeil(m, threads), 4) \in Nat \ {0}
  BY <1>1 DEF MaxOf
<1> QED
  BY <1>2 DEF MBlock

\* A function that may choose between plans writes each cell once when each of them does.
LEMMA EveryPlan ==
    ASSUME NEW m, NEW n, NEW a, WritesEachOnce(a, m, n)
    PROVE  AllWriteEachOnce(<<a>>, m, n) /\ \A b : WritesEachOnce(b, m, n) => AllWriteEachOnce(<<a, b>>, m, n)
  BY DEF AllWriteEachOnce

LEMMA PlansAppended ==
    ASSUME NEW m, NEW n, NEW S, NEW s \in Seq(S), NEW p \in S, NEW when \in BOOLEAN,
           AllWriteEachOnce(s, m, n), when => WritesEachOnce(p, m, n)
    PROVE  AllWriteEachOnce(s \o (IF when THEN <<p>> ELSE <<>>), m, n)
<1>1. CASE ~when
  BY <1>1, ConcatEmptySeq
<1>2. CASE when
  <2>1. <<p>> \in Seq(S) /\ Len(<<p>>) = 1 /\ <<p>>[1] = p
    OBVIOUS
  <2> DEFINE t == <<p>>
             u == s \o t
  <2> HIDE DEF t
  <2>2. /\ u \in Seq(S) /\ Len(u) = Len(s) + 1
        /\ \A i \in 1 .. Len(s) + 1 : u[i] = IF i <= Len(s) THEN s[i] ELSE t[i - Len(s)]
    BY <2>1, ConcatProperties DEF t
  <2>3. Len(s) \in Nat /\ DOMAIN s = 1 .. Len(s) /\ DOMAIN u = 1 .. Len(s) + 1
    BY <2>2
  <2>4. \A i \in 1 .. Len(s) : u[i] = s[i]
    BY <2>2, <2>3
  <2>5. u[Len(s) + 1] = p
    <3>1. Len(s) + 1 \in 1 .. Len(s) + 1 /\ ~(Len(s) + 1 <= Len(s)) /\ Len(s) + 1 - Len(s) = 1
      BY <2>3
    <3> QED
      BY <2>1, <2>2, <3>1 DEF t
  <2> HIDE DEF u
  <2>6. \A i \in DOMAIN u : WritesEachOnce(u[i], m, n)
    BY <1>2, <2>3, <2>4, <2>5 DEF AllWriteEachOnce
  <2> QED
    BY <1>2, <2>6 DEF AllWriteEachOnce, u, t
<1> QED
  BY <1>1, <1>2

\* Whatever the shape of the call and the machine that makes it, each plan its function may
\* choose writes every cell of the output once, with its own product, and each dot product
\* visits every element once.
LEMMA EveryCallWritesOnce ==
    ASSUME NEW c \in MatmulCalls
    PROVE  CallWritesOnce(c)
<1> DEFINE m == c.m
           n == c.n
           k == c.k
           chunk == GemvChunk(n, c.eff, c.rayon, c.ncpus, c.tpc)
           wchunk == WChunk(n, c.tasks)
           panel == Panel(c.bytes, k)
           mblock == MBlock(m, c.threads, c.large)
<1>1. /\ m \in Nat \ {0} /\ n \in Nat \ {0} /\ k \in Nat \ {0}
      /\ c.eff \in Nat /\ c.rayon \in Nat /\ c.ncpus \in Nat \ {0} /\ c.tpc \in Nat
      /\ c.tasks \in Nat \ {0} /\ c.bytes \in Nat /\ c.threads \in Nat \ {0} /\ c.large \in BOOLEAN
  BY CallAssumption
<1>2. m \in Nat /\ n \in Nat /\ k \in Nat
  BY <1>1
<1>3. chunk \in Nat \ {0}
  BY <1>1, <1>2, ChunkIsPositive
<1>4. wchunk \in Nat \ {0}
  BY <1>1, <1>2, WChunkIsPositive
<1>5. panel \in Nat \ {0}
  BY <1>1, PanelIsPositive
<1>6. mblock \in Nat \ {0}
  BY <1>1, MBlockIsPositive
<1>7. CallWritesOnce(c) <=>
        /\ SlicesPartition(n, chunk)
        /\ AllWriteEachOnce(matmul_nt_q4_0(m, n, chunk), m, n)
        /\ AllWriteEachOnce(matmul_nt_q5_k(m, n, chunk), m, n)
        /\ AllWriteEachOnce(matmul_nt_q6_k(m, n, chunk), m, n)
        /\ AllWriteEachOnce(matmul_nt_q4_k(m, n, chunk), m, n)
        /\ AllWriteEachOnce(matmul_nt_q8_0(m, n, chunk, wchunk, panel), m, n)
        /\ AllWriteEachOnce(matmul_nt_float(m, n, chunk, mblock), m, n)
        /\ WritesEachOnce(Q8GemmSerial(m, n), m, n)
        /\ n % 4 = 0 => /\ AllWriteEachOnce(matmul_nt_q4_k_r4(m, n, chunk), m, n)
                        /\ AllWriteEachOnce(matmul_nt_q6_k_r4(m, n, chunk), m, n)
        /\ \A visits \in {dot_f32_neon_fast(k), dot_f32_avx2(k), dot_f32_x_f16_neon(k)} : VisitsEachOnce(visits, k)
  BY DEF CallWritesOnce
<1> HIDE DEF m, n, k, chunk, wchunk, panel, mblock
<1>8. SlicesPartition(n, chunk)
  BY <1>2, <1>3, SlicesPartitionTheorem
<1>9. WritesEachOnce(GemvParallel(m, n, chunk), m, n)
  BY <1>2, <1>3, GemvParallelTheorem
<1>10. /\ AllWriteEachOnce(matmul_nt_q4_0(m, n, chunk), m, n)
       /\ AllWriteEachOnce(matmul_nt_q5_k(m, n, chunk), m, n)
       /\ AllWriteEachOnce(matmul_nt_q6_k(m, n, chunk), m, n)
  BY <1>9, EveryPlan DEF matmul_nt_q4_0, matmul_nt_q5_k, matmul_nt_q6_k
<1>11. AllWriteEachOnce(matmul_nt_q4_k(m, n, chunk), m, n)
  <2>1. WritesEachOnce(MatmulQ4K(m, n, chunk), m, n)
    BY <1>2, <1>3, Q4KWrites
  <2> QED
    BY <1>9, <2>1, EveryPlan DEF matmul_nt_q4_k
<1>12. AllWriteEachOnce(matmul_nt_q8_0(m, n, chunk, wchunk, panel), m, n)
  <2> DEFINE a == GemvParallel(m, n, chunk)
             b == MatmulQ8Blocked(m, n, wchunk, panel)
  <2>1. WritesEachOnce(b, m, n)
    BY <1>2, <1>4, <1>5, Q8BlockedWrites
  <2>2. matmul_nt_q8_0(m, n, chunk, wchunk, panel) = <<a>> \o (IF m >= 8 THEN <<b>> ELSE <<>>)
    BY DEF matmul_nt_q8_0
  <2>3. WritesEachOnce(a, m, n)
    BY <1>9
  <2> HIDE DEF a, b
  <2>4. AllWriteEachOnce(<<a>>, m, n)
    BY <2>3, EveryPlan
  <2>5. <<a>> \in Seq({a, b}) /\ b \in {a, b} /\ (m >= 8) \in BOOLEAN
    OBVIOUS
  <2> QED
    BY ONLY <2>1, <2>2, <2>4, <2>5, PlansAppended
<1>13. AllWriteEachOnce(matmul_nt_float(m, n, chunk, mblock), m, n)
  <2> DEFINE a == MatmulFloatBlocks(m, n, mblock)
             b == GemvParallel(m, n, chunk)
             single == m = 1
  <2>0. n \in Nat \ {0}
    BY <1>1 DEF n
  <2>1. WritesEachOnce(a, m, n)
    BY <1>2, <1>6, <2>0, FloatBlocksWrites
  <2>2. matmul_nt_float(m, n, chunk, mblock) = <<a>> \o (IF single THEN <<b>> ELSE <<>>)
    BY DEF matmul_nt_float
  <2>3. WritesEachOnce(b, m, n)
    BY <1>9
  <2> HIDE DEF a, b
  <2>4. AllWriteEachOnce(<<a>>, m, n)
    BY <2>1, EveryPlan
  <2>5. <<a>> \in Seq({a, b}) /\ b \in {a, b} /\ single \in BOOLEAN
    OBVIOUS
  <2> HIDE DEF single
  <2>6. AllWriteEachOnce(<<a>> \o (IF single THEN <<b>> ELSE <<>>), m, n)
    BY ONLY <2>3, <2>4, <2>5, PlansAppended
  <2> QED
    BY <2>2, <2>6
<1>14. WritesEachOnce(Q8GemmSerial(m, n), m, n)
  BY <1>2, Q8SerialWrites
<1>15. ASSUME n % 4 = 0
       PROVE  /\ AllWriteEachOnce(matmul_nt_q4_k_r4(m, n, chunk), m, n)
              /\ AllWriteEachOnce(matmul_nt_q6_k_r4(m, n, chunk), m, n)
  <2> DEFINE a == MatmulR4Rows(m, n, chunk)
             b == MatmulR4Fallback(m, n)
             d == MatmulR4Smmla(m, n)
  <2>1. WritesEachOnce(a, m, n)
    <3>1. chunk \in Nat
      BY <1>3
    <3> QED
      BY <1>2, <1>15, <3>1, R4RowsWrites
  <2>2. WritesEachOnce(b, m, n)
    BY <1>2, <1>15, R4FallbackWrites
  <2>3. WritesEachOnce(d, m, n)
    BY <1>2, <1>15, R4SmmlaWrites
  <2>4. /\ matmul_nt_q4_k_r4(m, n, chunk) = <<a, b>> \o (IF m >= 2 THEN <<d>> ELSE <<>>)
        /\ matmul_nt_q6_k_r4(m, n, chunk) = <<a, b>> \o (IF m >= 2 THEN <<d>> ELSE <<>>)
    BY DEF matmul_nt_q4_k_r4, matmul_nt_q6_k_r4
  <2> HIDE DEF a, b, d
  <2>5. AllWriteEachOnce(<<a, b>> \o (IF m >= 2 THEN <<d>> ELSE <<>>), m, n)
    <3>1. AllWriteEachOnce(<<a, b>>, m, n)
      BY <2>1, <2>2, EveryPlan
    <3>2. <<a, b>> \in Seq({a, b, d}) /\ d \in {a, b, d} /\ (m >= 2) \in BOOLEAN
      OBVIOUS
    <3> QED
      BY ONLY <2>3, <3>1, <3>2, PlansAppended
  <2> QED
    BY <2>4, <2>5
<1>16. \A visits \in {dot_f32_neon_fast(k), dot_f32_avx2(k), dot_f32_x_f16_neon(k)} : VisitsEachOnce(visits, k)
  BY <1>2, DotsVisit
<1> QED
  BY <1>7, <1>8, <1>10, <1>11, <1>12, <1>13, <1>14, <1>15, <1>16

\* PlansWriteEachCellOnce holds for any calls, of any shapes on any machine.
THEOREM EveryPlanWritesOnce == AllSpec => []PlansWriteEachCellOnce
<1>1. PlansWriteEachCellOnce
  BY EveryCallWritesOnce DEF PlansWriteEachCellOnce
<1> QED
  BY <1>1, PTL

-----------------------------------------------------------------------------
(* EngineChoice. The engine is the one asked for, for memories and models  *)
(* of every size.                                                          *)

\* The types of a binary and of a model.
Machine(b) ==
    /\ b.mac \in BOOLEAN /\ b.arm \in BOOLEAN /\ b.mlx \in BOOLEAN /\ b.wgpu \in BOOLEAN /\ b.adapter \in BOOLEAN
    /\ b.ram \in Nat

Model(m) ==
    /\ m.arch \in Archs /\ m.gguf \in BOOLEAN /\ m.moe \in BOOLEAN
    /\ m.headDim \in Nat /\ m.layers \in Nat /\ m.bytes \in Nat

\* n layers, not all of them, fit beside the reserve with half as much again.
LayersFit(b, m, n) == n < m.layers /\ 3 * n * (m.bytes \div m.layers) <= 2 * (b.ram - RESERVE)

\* What compute_backend_split may answer: what was asked for (wgpu is the CPU here); for Auto Metal only where there is
\* one, and layers on it, with the CPU behind, only as many as fit.
SplitIs(b, m, asked, s) ==
    /\ s = Split(s.kind, s.gpuLayers, s.fallback) /\ s.fallback \in BOOLEAN /\ s.gpuLayers \in Nat
    /\ asked # "auto" => (s.kind = asked \/ (asked = "wgpu" /\ s.kind = "cpu")) /\ s.gpuLayers = 0
    /\ asked = "auto" => s.kind = "cpu" \/ (s.kind = "metal" /\ MlxAvailable(b))
    /\ s.gpuLayers > 0 => s.kind = "metal" /\ LayersFit(b, m, s.gpuLayers)

LEMMA PlainSplit ==
    ASSUME NEW b, NEW m, NEW asked, NEW to,
           asked # "auto" => to = asked \/ (asked = "wgpu" /\ to = "cpu"),
           asked = "auto" => to = "cpu" \/ (to = "metal" /\ MlxAvailable(b))
    PROVE  SplitIs(b, m, asked, Split(to, 0, FALSE))
  BY DEF SplitIs, Split

\* The layers that fit the budget, by the size of one.
LEMMA FittingLayers ==
    ASSUME NEW b, Machine(b), NEW m, Model(m), RESERVE \in Nat, m.layers > 0, NEW per, per = m.bytes \div m.layers,
           per # 0, NEW n, n = MinOf2((2 * Budget_(b)) \div (3 * per), m.layers - 1)
    PROVE  n \in Nat /\ (n > 0 => LayersFit(b, m, n))
<1> DEFINE c == 2 * Budget_(b)
           d == 3 * per
           q == c \div d
<1>0. m.layers \in Nat \ {0} /\ m.bytes \in Nat /\ b.ram \in Nat
  BY DEF Machine, Model
<1>1. per \in Nat \ {0}
  BY <1>0
<1>2. Budget_(b) \in Nat /\ (Budget_(b) > 0 => Budget_(b) = b.ram - RESERVE)
  BY <1>0 DEF Budget_
<1>3. c \in Nat /\ (c > 0 => c = 2 * (b.ram - RESERVE))
  BY <1>0, <1>2
<1>4. d \in Nat \ {0}
  BY <1>1
<1>5. n = MinOf2(q, m.layers - 1)
  OBVIOUS
<1> HIDE DEF c
<1>6. q \in Nat /\ d * q <= c
  <2> HIDE DEF d
  <2> QED
    BY <1>3, <1>4
<1>7. q = 0 \/ c > 0
  <2>1. c = 0 => q = 0
    <3> HIDE DEF d
    <3> QED
      BY <1>4
  <2> QED
    BY <1>3, <2>1
<1> HIDE DEF q
<1>8. n \in Nat /\ n <= q /\ n < m.layers
  BY <1>0, <1>5, <1>6 DEF MinOf2
<1>9. ASSUME n > 0 PROVE 3 * n * per <= 2 * (b.ram - RESERVE)
  <2>1. c = 2 * (b.ram - RESERVE)
    BY <1>3, <1>6, <1>7, <1>8, <1>9
  <2>2. n * d <= q * d
    BY <1>4, <1>6, <1>8, Ordered
  <2>3. q * d = d * q /\ n * d = 3 * n * per
    <3>1. q * d = d * q
      BY <1>4, <1>6
    <3>2. n * d = 3 * n * per
      BY <1>1, <1>8
    <3> QED
      BY <3>1, <3>2
  <2>4. n * d \in Nat /\ q * d \in Nat
    BY <1>4, <1>6, <1>8
  <2> HIDE DEF d
  <2>5. n * d <= c
    BY <1>3, <1>6, <2>2, <2>3, <2>4
  <2> QED
    BY <2>1, <2>3, <2>5
<1> QED
  BY <1>8, <1>9 DEF LayersFit

LEMMA BackendSplitIs ==
    ASSUME NEW b, Machine(b), NEW m, Model(m), RESERVE \in Nat, NEW asked \in BackendKinds
    PROVE  SplitIs(b, m, asked, ComputeBackendSplit(b, m, asked))
<1> DEFINE per == m.bytes \div m.layers
           n == MinOf2((2 * Budget_(b)) \div (3 * per), m.layers - 1)
           whole == b.ram = 0 \/ (3 * m.bytes) \div 2 <= Budget_(b)
           none == m.layers = 0 \/ m.bytes = 0 \/ m.bytes >= b.ram
           most == n >= m.layers \div 4
           s == ComputeBackendSplit(b, m, asked)
<1>1. s = IF asked # "auto" THEN Split(asked, 0, FALSE)
          ELSE IF ~MlxAvailable(b) THEN Split("cpu", 0, FALSE)
          ELSE IF whole THEN Split("metal", 0, FALSE)
          ELSE IF none THEN Split("cpu", 0, FALSE)
          ELSE IF per = 0 THEN Split("metal", 0, FALSE)
          ELSE IF most THEN Split("metal", n, TRUE)
          ELSE Split("cpu", 0, FALSE)
  BY DEF ComputeBackendSplit
<1>2. m.layers \in Nat
  BY DEF Model
<1>3. ~none /\ per # 0 => n \in Nat /\ (n > 0 => LayersFit(b, m, n))
  BY <1>2, FittingLayers
<1> HIDE DEF per, n, whole, none, most, s
<1>4. CASE s = Split("metal", n, TRUE) /\ asked = "auto" /\ MlxAvailable(b) /\ ~none /\ per # 0
  <2>1. s.kind = "metal" /\ s.gpuLayers = n /\ s.fallback = TRUE
    BY <1>4 DEF Split
  <2>2. s = Split(s.kind, s.gpuLayers, s.fallback)
    BY <1>4, <2>1
  <2>3. s.gpuLayers \in Nat /\ (s.gpuLayers > 0 => LayersFit(b, m, s.gpuLayers))
    BY <1>3, <1>4, <2>1
  <2> QED
    BY <1>4, <2>1, <2>2, <2>3 DEF SplitIs, s
<1>5. CASE s = Split("metal", n, TRUE) => ~(asked = "auto" /\ MlxAvailable(b) /\ ~none /\ per # 0)
  <2>1. \/ asked # "auto" /\ s = Split(asked, 0, FALSE)
        \/ asked = "auto" /\ s = Split("cpu", 0, FALSE)
        \/ asked = "auto" /\ MlxAvailable(b) /\ s = Split("metal", 0, FALSE)
    BY <1>1, <1>5
  <2> QED
    BY <2>1, PlainSplit DEF s
<1> QED
  BY <1>4, <1>5 DEF s

LEMMA PhiSplitIs ==
    ASSUME NEW b, Machine(b), NEW m, Model(m), RESERVE \in Nat, NEW asked \in BackendKinds
    PROVE  /\ SplitIs(b, m, asked, ComputePhiBackendSplit(b, m, asked))
           /\ MlxAvailable(b) /\ ~MlxSdpaSupportedHeadDim(m.headDim) /\ asked # "metal"
                => ComputePhiBackendSplit(b, m, asked).kind \notin {"metal", "auto"}
<1>1. SplitIs(b, m, asked, ComputeBackendSplit(b, m, asked))
  BY BackendSplitIs
<1> DEFINE s == ComputePhiBackendSplit(b, m, asked)
<1>2. CASE asked = "cpu"
  <2>1. s = Split("cpu", 0, FALSE)
    BY <1>2 DEF ComputePhiBackendSplit
  <2> QED
    BY <1>2, <2>1, PlainSplit DEF Split
<1>3. CASE asked # "cpu" /\ MlxAvailable(b) /\ ~MlxSdpaSupportedHeadDim(m.headDim)
  <2>1. s = Split(IF asked = "metal" THEN "metal" ELSE "cpu", 0, FALSE)
    BY <1>3 DEF ComputePhiBackendSplit
  <2> QED
    <3> DEFINE to == IF asked = "metal" THEN "metal" ELSE "cpu"
    <3>1. asked # "auto" => to = asked \/ (asked = "wgpu" /\ to = "cpu")
      BY <1>3 DEF BackendKinds
    <3>2. asked = "auto" => to = "cpu"
      OBVIOUS
    <3>3. s.kind = to /\ (asked # "metal" => to = "cpu")
      BY <2>1 DEF Split
    <3> HIDE DEF to
    <3>4. SplitIs(b, m, asked, Split(to, 0, FALSE))
      BY <3>1, <3>2, PlainSplit
    <3>5. s = Split(to, 0, FALSE)
      BY <2>1 DEF to
    <3> QED
      BY <3>3, <3>4, <3>5
<1>4. CASE asked # "cpu" /\ ~(MlxAvailable(b) /\ ~MlxSdpaSupportedHeadDim(m.headDim))
  <2>1. (asked = "auto" /\ s = Split("cpu", 0, FALSE)) \/ s = ComputeBackendSplit(b, m, asked)
    BY <1>4 DEF ComputePhiBackendSplit
  <2> QED
    BY <1>1, <1>4, <2>1, PlainSplit
<1> QED
  BY <1>2, <1>3, <1>4

\* What the CPU engine may be built as: on the CPU where that or wgpu was asked for, on Metal (or
\* not at all) where Metal was, and on something for Auto.
EngineIs(b, m, asked, e) ==
    /\ e = Error \/ e = On("cpu") \/ (e.first = "metal" /\ MlxAvailable(b))
    /\ e.gpuLayers > 0 => e.first = "metal" /\ e.rest = "cpu" /\ LayersFit(b, m, e.gpuLayers)
    /\ asked \in {"cpu", "wgpu"} => e = On("cpu")
    /\ asked = "metal" => e = Error \/ e = On("metal")
    /\ asked = "auto" => e # Error

LEMMA EngineFields ==
    /\ \A d, n, r : Engine(d, n, r).first = d /\ Engine(d, n, r).gpuLayers = n /\ Engine(d, n, r).rest = r
    /\ \A d : On(d).first = d /\ On(d).gpuLayers = 0 /\ On(d).rest = d
    /\ Error.first = "error" /\ Error.gpuLayers = 0 /\ Error = On("error")
  BY DEF Engine, On, Error

\* The CPU engine of a split.
LEMMA BuiltEngine ==
    ASSUME NEW b, NEW m, NEW asked \in BackendKinds, NEW s, SplitIs(b, m, asked, s), NEW device,
           s.kind \in {"cpu", "wgpu"} => device = "cpu",
           s.kind = "metal" => (device = "metal" /\ MlxAvailable(b)) \/ (device = "error" /\ asked = "metal")
    PROVE  EngineIs(b, m, asked, Build(device, s))
<1> DEFINE e == Build(device, s)
<1>1. s.kind \in {"cpu", "wgpu", "metal"} /\ s.gpuLayers \in Nat
  BY DEF SplitIs, BackendKinds
<1>2. e = IF device = "error" THEN Error
          ELSE IF s.fallback /\ s.gpuLayers > 0 THEN Engine(device, s.gpuLayers, "cpu") ELSE On(device)
  BY DEF Build
<1> HIDE DEF e
<1>3. CASE device = "error"
  <2>1. asked = "metal" /\ e = Error
    BY <1>1, <1>2, <1>3
  <2> QED
    BY <2>1, EngineFields DEF EngineIs, e
<1>4. CASE device # "error" /\ e = On(device)
  <2>1. device = "cpu" \/ (device = "metal" /\ MlxAvailable(b))
    BY <1>1, <1>4
  <2>2. asked \in {"cpu", "wgpu"} => device = "cpu"
    BY <1>1 DEF SplitIs
  <2>3. asked = "metal" => device = "metal"
    BY <1>1, <1>4 DEF SplitIs
  <2> QED
    BY <1>4, <2>1, <2>2, <2>3, EngineFields DEF EngineIs, e
<1>5. CASE device # "error" /\ e # On(device)
  <2>1. s.gpuLayers > 0 /\ e = Engine(device, s.gpuLayers, "cpu")
    BY <1>2, <1>5
  <2>2. s.kind = "metal" /\ LayersFit(b, m, s.gpuLayers) /\ asked = "auto"
    BY <1>1, <2>1 DEF SplitIs
  <2>3. device = "metal" /\ MlxAvailable(b)
    BY <1>5, <2>2
  <2>4. e.first = "metal" /\ e.gpuLayers = s.gpuLayers /\ e.rest = "cpu"
    BY <2>1, <2>3, EngineFields
  <2> QED
    BY <2>2, <2>3, <2>4, EngineFields DEF EngineIs, e
<1> QED
  BY <1>3, <1>4, <1>5

LEMMA DeviceOfKind ==
    ASSUME NEW b
    PROVE  /\ FromKind(b, "cpu") = "cpu" /\ FromKind(b, "wgpu") = "cpu"
           /\ FromKind(b, "metal") = IF MlxAvailable(b) THEN "metal" ELSE "error"
  BY DEF FromKind, FromKindWithModelBytes

LEMMA LlamaForwardIs ==
    ASSUME NEW b, Machine(b), NEW m, Model(m), RESERVE \in Nat, NEW asked \in BackendKinds
    PROVE  EngineIs(b, m, asked, LlamaForward(b, m, asked))
<1> DEFINE s == ComputeBackendSplit(b, m, asked)
           device == FromKind(b, s.kind)
<1>1. LlamaForward(b, m, asked) = Build(device, s)
  BY DEF LlamaForward
<1>2. SplitIs(b, m, asked, s)
  BY BackendSplitIs
<1> HIDE DEF s
<1>3. /\ s.kind \in {"cpu", "wgpu"} => device = "cpu"
      /\ s.kind = "metal" => (device = "metal" /\ MlxAvailable(b)) \/ (device = "error" /\ ~MlxAvailable(b))
  BY DeviceOfKind
<1>4. s.kind = "metal" => asked = "metal" \/ MlxAvailable(b)
  BY <1>2 DEF SplitIs
<1> HIDE DEF device
<1> QED
  BY <1>1, <1>2, <1>3, <1>4, BuiltEngine

LEMMA PhiForwardIs ==
    ASSUME NEW b, Machine(b), NEW m, Model(m), RESERVE \in Nat, NEW asked \in BackendKinds
    PROVE  /\ EngineIs(b, m, asked, PhiForward(b, m, asked))
           /\ ~MlxSdpaSupportedHeadDim(m.headDim) => PhiForward(b, m, asked).first # "metal"
<1> DEFINE s == ComputePhiBackendSplit(b, m, asked)
           device == FromKindWithHeadDim(b, s.kind, m.headDim)
           bare == MlxAvailable(b) /\ ~MlxSdpaSupportedHeadDim(m.headDim)
<1>1. PhiForward(b, m, asked) = Build(device, s)
  BY DEF PhiForward
<1>2. SplitIs(b, m, asked, s) /\ (bare /\ asked # "metal" => s.kind \notin {"metal", "auto"})
  BY PhiSplitIs
<1> HIDE DEF s
<1>3. s.kind \in {"cpu", "wgpu", "metal"}
  BY <1>2 DEF SplitIs, BackendKinds
<1>4. device = IF bare /\ s.kind = "metal" THEN "error" ELSE FromKind(b, s.kind)
  BY <1>3 DEF FromKindWithHeadDim
<1>5. s.kind \in {"cpu", "wgpu"} => device = "cpu"
  BY <1>4, DeviceOfKind
<1>6. s.kind = "metal" => (device = "metal" /\ MlxAvailable(b) /\ ~bare) \/ (device = "error" /\ (bare \/ ~MlxAvailable(b)))
  BY <1>4, DeviceOfKind
<1>7. s.kind = "metal" => asked = "metal" \/ (MlxAvailable(b) /\ ~bare)
  BY <1>2 DEF SplitIs
<1>8. EngineIs(b, m, asked, Build(device, s))
  <2> HIDE DEF device, bare
  <2> QED
    BY <1>2, <1>5, <1>6, <1>7, BuiltEngine
<1>9. ASSUME ~MlxSdpaSupportedHeadDim(m.headDim) PROVE Build(device, s).first # "metal"
  <2>1. device \in {"cpu", "error"}
    BY <1>3, <1>5, <1>6, <1>9
  <2> HIDE DEF device
  <2> QED
    BY <2>1, EngineFields DEF Build
<1> QED
  BY <1>1, <1>8, <1>9

\* What is asked for and what e must be then.
Answers(b, m, asked, e) ==
    /\ e.gpuLayers > 0 => e.first = "metal" /\ e.rest = "cpu" /\ LayersFit(b, m, e.gpuLayers)
    /\ asked = "cpu" => e = IF Loadable(m) THEN On("cpu") ELSE Error
    /\ asked = "metal" => e.first \in {"metal", "mlx", "error"} \/ Degrades(m, asked)
    /\ asked = "wgpu" => e.first \in {"wgpu", "error"} \/ Degrades(m, asked)
    /\ BackendUnavailable(b, asked) => e = Error \/ Degrades(m, asked)
    /\ asked = "auto" /\ Loadable(m) => (e = Error <=> Misrouted(b, m))
    /\ m.moe /\ m.arch \in LlamaFamily => e \in {On("cpu"), Error}
    /\ m.arch = "Phi" /\ ~MlxSdpaSupportedHeadDim(m.headDim) => e.first # "metal"

LEMMA AnsweredAsAsked ==
    ASSUME NEW b, Machine(b), NEW m, Model(m), RESERVE \in Nat, NEW asked \in BackendKinds
    PROVE  Answers(b, m, asked, FromWeightPaths(b, m, asked))
<1> DEFINE e == FromWeightPaths(b, m, asked)
           mlx == UseMlxEngine(b, asked)
           wgpu == UseWgpuEngine(b, asked)
<1>1. /\ mlx <=> asked \in {"metal", "auto"} /\ MlxAvailable(b)
      /\ wgpu <=> asked = "wgpu" \/ (asked = "auto" /\ WgpuAvailable(b))
  BY DEF UseMlxEngine, UseWgpuEngine
<1>2. BackendUnavailable(b, asked) => \/ asked = "metal" /\ ~MlxAvailable(b)
                                      \/ asked = "wgpu" /\ ~WgpuAvailable(b)
  BY DEF BackendUnavailable
<1>3. m.arch \in Archs /\ m.gguf \in BOOLEAN /\ m.moe \in BOOLEAN
  BY DEF Model
<1>4. \/ m.arch \in LlamaFamily /\ m.moe /\ e = BuildMoeCpu(b, m, asked)
      \/ m.arch \in LlamaFamily /\ ~m.moe /\ mlx /\ e = On("mlx")
      \/ m.arch \in LlamaFamily /\ ~m.moe /\ ~mlx /\ wgpu /\ e = BuildWgpu(b, m)
      \/ m.arch \in LlamaFamily /\ ~m.moe /\ (mlx \/ ~wgpu) /\ e = LlamaForward(b, m, asked)
      \/ m.arch = "Phi" /\ e = PhiForward(b, m, asked)
      \/ m.arch = "Gemma3" /\ ~m.gguf /\ e = On("cpu")
      \/ ~Loadable(m) /\ m.arch \notin LlamaFamily \cup {"Phi"} /\ e = Error
  <2>1. CASE m.arch \in LlamaFamily
    <3>1. m.arch \notin {"Phi", "Gemma3"}
      BY <2>1 DEF LlamaFamily
    <3>2. CASE m.gguf
      <4>1. e = FromGgufWeights(b, m, asked)
        BY <3>2 DEF FromWeightPaths
      <4> QED
        BY <1>3, <2>1, <3>1, <4>1 DEF FromGgufWeights
    <3>3. CASE ~m.gguf
      BY <1>3, <2>1, <3>1, <3>3 DEF FromWeightPaths
    <3> QED
      BY <3>2, <3>3
  <2>2. CASE m.arch = "Phi"
    <3>1. m.arch \notin LlamaFamily
      BY <2>2 DEF LlamaFamily
    <3> QED
      BY <1>3, <2>2, <3>1 DEF FromWeightPaths, FromGgufWeights
  <2>3. CASE m.arch \in {"Gemma3", "Other"}
    <3>1. m.arch \notin LlamaFamily /\ m.arch # "Phi"
      BY <2>3 DEF LlamaFamily
    <3>2. CASE m.gguf
      <4>1. e = Error
        BY <2>3, <3>1, <3>2 DEF FromWeightPaths, FromGgufWeights
      <4> QED
        BY <2>3, <3>1, <3>2, <4>1 DEF Loadable
    <3>3. CASE ~m.gguf
      <4>1. e = IF m.arch = "Gemma3" THEN On("cpu") ELSE Error
        BY <2>3, <3>1, <3>3 DEF FromWeightPaths
      <4> QED
        BY <2>3, <3>1, <3>3, <4>1 DEF Loadable
    <3> QED
      BY <3>2, <3>3
  <2> QED
    BY <1>3, <2>1, <2>2, <2>3 DEF Archs, LlamaFamily
<1> HIDE DEF e, mlx, wgpu
<1>5. m.arch \in LlamaFamily => Loadable(m) /\ ~Degrades(m, asked) /\ m.arch # "Phi"
  BY DEF Loadable, Degrades, LlamaFamily
<1>6. asked \in {"cpu", "metal", "wgpu", "auto"}
  BY DEF BackendKinds
<1>7. CASE m.arch \in LlamaFamily /\ m.moe /\ e = BuildMoeCpu(b, m, asked)
  <2>1. LlamaForward(b, m, "cpu") = On("cpu")
    <3>1. EngineIs(b, m, "cpu", LlamaForward(b, m, "cpu"))
      BY LlamaForwardIs DEF BackendKinds
    <3> QED
      BY <3>1 DEF EngineIs
  <2>2. e = IF asked \in {"metal", "wgpu"} THEN Error ELSE On("cpu")
    BY <1>7, <2>1 DEF BuildMoeCpu
  <2>3. ~Misrouted(b, m)
    BY <1>7 DEF Misrouted
  <2> QED
    BY <1>2, <1>5, <1>6, <1>7, <2>2, <2>3, EngineFields DEF Answers, e
<1>8. CASE m.arch \in LlamaFamily /\ ~m.moe /\ mlx /\ e = On("mlx")
  <2>1. ~Misrouted(b, m)
    BY <1>1, <1>8 DEF Misrouted
  <2> QED
    BY <1>1, <1>2, <1>5, <1>6, <1>8, <2>1, EngineFields DEF Answers, e
<1>9. CASE m.arch \in LlamaFamily /\ ~m.moe /\ ~mlx /\ wgpu /\ e = BuildWgpu(b, m)
  <2>1. e = IF WgpuAvailable(b) /\ m.arch \in {"Llama", "Qwen", "Mixtral"} THEN On("wgpu") ELSE Error
    BY <1>9 DEF BuildWgpu
  <2>2. asked = "auto" => (e = Error <=> Misrouted(b, m))
    BY <1>1, <1>9, <2>1, EngineFields DEF Misrouted, LlamaFamily
  <2> QED
    BY <1>1, <1>2, <1>5, <1>6, <1>9, <2>1, <2>2, EngineFields DEF Answers, e
<1>10. CASE m.arch \in LlamaFamily /\ ~m.moe /\ (mlx \/ ~wgpu) /\ e = LlamaForward(b, m, asked)
  <2>1. EngineIs(b, m, asked, e)
    BY <1>10, LlamaForwardIs
  <2>2. ~Misrouted(b, m) \/ asked # "auto"
    BY <1>1, <1>10 DEF Misrouted
  <2>3. asked # "wgpu"
    BY <1>1, <1>10
  <2> QED
    BY <1>2, <1>5, <1>6, <1>10, <2>1, <2>2, <2>3, EngineFields DEF Answers, EngineIs, e
<1>11. CASE m.arch = "Phi" /\ e = PhiForward(b, m, asked)
  <2>1. EngineIs(b, m, asked, e) /\ (~MlxSdpaSupportedHeadDim(m.headDim) => e.first # "metal")
    BY <1>11, PhiForwardIs
  <2>2. Loadable(m) /\ ~Misrouted(b, m) /\ (asked = "wgpu" => Degrades(m, asked)) /\ m.arch \notin LlamaFamily
    BY <1>11 DEF Loadable, Misrouted, Degrades, LlamaFamily
  <2> QED
    BY <1>2, <1>6, <1>11, <2>1, <2>2, EngineFields DEF Answers, EngineIs, e
<1>12. CASE m.arch = "Gemma3" /\ ~m.gguf /\ e = On("cpu")
  <2>1. Loadable(m) /\ ~Misrouted(b, m) /\ Degrades(m, asked) /\ m.arch \notin LlamaFamily
    BY <1>12 DEF Loadable, Misrouted, Degrades, LlamaFamily
  <2> QED
    BY <1>6, <1>12, <2>1, EngineFields DEF Answers, e
<1>13. CASE ~Loadable(m) /\ m.arch \notin LlamaFamily \cup {"Phi"} /\ e = Error
  BY <1>6, <1>13, EngineFields DEF Answers, e
<1> QED
  BY <1>4, <1>7, <1>8, <1>9, <1>10, <1>11, <1>12, <1>13

LEMMA EveryChoice ==
    ASSUME NEW b \in Binaries, NEW m \in EngineModels, NEW asked \in BackendKinds
    PROVE  RunsAsAsked(b, m, asked)
<1>1. Machine(b) /\ Model(m) /\ RESERVE \in Nat
  BY ChoiceAssumption DEF Machine, Model
<1>2. Answers(b, m, asked, FromWeightPaths(b, m, asked))
  BY <1>1, AnsweredAsAsked
<1>3. WhisperWantsWgpu(b, asked) => asked = "wgpu" \/ WgpuAvailable(b)
  BY DEF WhisperWantsWgpu
<1> QED
  BY <1>2, <1>3 DEF RunsAsAsked, Answers, LayersFit

\* EngineIsAsAsked holds for machines and models of every size.
THEOREM EveryEngineIsAsAsked == AllSpec => []EngineIsAsAsked
<1>1. EngineIsAsAsked
  BY EveryChoice DEF EngineIsAsAsked
<1> QED
  BY <1>1, PTL

-----------------------------------------------------------------------------
(* WorkgroupReduce. The sums the lanes of a workgroup read, for any power  *)
(* of two lanes, any row and any number of keys.                           *)

\* The strides of the tree: 0 after the last round.
Powers == CHOOSE P \in SUBSET (1 .. WGSIZE) : WGSIZE \in P /\ \A n \in P : n = 1 \/ \E h \in P : n = 2 * h

Strides == {0} \cup {n \in Powers : 2 * n \in Powers}

\* How many cells still count when the stride has come down to n.
Width(n) == IF n = 0 THEN 1 ELSE 2 * n

\* The addends of pass p that cell l holds when m cells count.
Part(p, l, m) == SetToBag({<<p, k>> : k \in {j \in Lane : j % m = l}})

\* The phase between two barriers that lane l is in, or will be in after the barrier it waits at.
Place(l) ==
    CASE lanes[l].pc = "barrier" -> lanes[l].next
      [] lanes[l].pc = "add" -> "reduce"
      [] lanes[l].pc = "done" -> IF kernel = "attention" THEN "divide" ELSE "reduce"
      [] OTHER -> lanes[l].pc

PlaceNames == {"start", "put", "reduce", "accumulate", "divide"}

Phase(l) == <<Place(l), lanes[l].pass, lanes[l].s>>

\* What comes after a phase is the same for all lanes.
NextPhase(ph) ==
    CASE ph[1] = "start" -> <<"put", ph[2], ph[3]>>
      [] ph[1] = "put" -> <<"reduce", ph[2], WGSIZE \div 2>>
      [] ph[1] = "reduce" /\ ph[3] # 0 -> <<"reduce", ph[2], ph[3] \div 2>>
      [] ph[1] = "reduce" /\ ph[3] = 0 /\ kernel = "attention" -> <<"accumulate", ph[2], 0>>
      [] ph[1] = "reduce" /\ ph[3] = 0 /\ kernel # "attention" /\ ph[2] < Passes -> <<"put", ph[2] + 1, 0>>
      [] ph[1] = "accumulate" /\ ph[2] < Passes -> <<"put", ph[2] + 1, 0>>
      [] ph[1] = "accumulate" /\ ph[2] >= Passes -> <<"divide", ph[2], 0>>
      [] OTHER -> <<"over", ph[2], ph[3]>>

\* Lanes are in the same phase or in consecutive ones, and who is past a barrier knows that
\* everyone has reached it.
LockStep ==
    \A l, o \in Lane :
        /\ lanes[l].bar <= lanes[o].bar + 1
        /\ lanes[l].pc # "barrier" => lanes[l].bar <= lanes[o].bar
        /\ lanes[o].bar = lanes[l].bar => Phase(o) = Phase(l)
        /\ lanes[o].bar = lanes[l].bar + 1 => Phase(o) = NextPhase(Phase(l))

\* Every lane keeps its own cell: among those that count it has its part of the sum, and if it
\* dropped out in the last round, what another lane may still be loading.
CellOf(l) ==
    LET w == Width(lanes[l].s)
        p == lanes[l].pass
    IN  /\ Place(l) = "reduce" =>
             /\ l < w => partial[l] = Part(p, l, w)
             /\ w <= l /\ l < 2 * w => partial[l] = Part(p, l, 2 * w)
        /\ kernel # "attention" /\ Place(l) = "put" /\ p > 1 /\ l = 0 => partial[l] = FullSum(p - 1)

\* A lane with its fields spelled out.
LaneOf(place, next, pass, n, reg, read, out, bar) ==
    [pc |-> place, next |-> next, pass |-> pass, s |-> n, reg |-> reg, read |-> read, out |-> out, bar |-> bar]

Fielded(ln) == ln = LaneOf(ln.pc, ln.next, ln.pass, ln.s, ln.reg, ln.read, ln.out, ln.bar)

LaneType(l) ==
    /\ Fielded(lanes[l])
    /\ lanes[l].pc \in PlaceNames \cup {"barrier", "add", "done"} /\ lanes[l].next \in PlaceNames
    /\ lanes[l].pass \in 1 .. Passes
    /\ lanes[l].s \in Strides
    /\ lanes[l].bar \in Nat

\* What goes with a place.
LaneAt(l) ==
    /\ kernel # "attention" => Place(l) \in {"put", "reduce"}
    /\ Place(l) # "reduce" => lanes[l].s = 0
    /\ Place(l) = "start" => lanes[l].pass = 1
    /\ Place(l) = "divide" => lanes[l].pass = Passes
    /\ lanes[l].pc = "done" => lanes[l].pass = Passes /\ lanes[l].s = 0
    /\ lanes[l].pc = "add" => /\ 0 < lanes[l].s /\ l < lanes[l].s
                              /\ lanes[l].reg = Part(lanes[l].pass, l + lanes[l].s, 2 * lanes[l].s)

\* How many keys the accumulator of lane l has seen, and how many sh_*.
Added(l) == IF Place(l) \in {"start", "divide"} THEN (IF Place(l) = "start" THEN 0 ELSE lanes[l].pass)
            ELSE lanes[l].pass - 1

Scored == IF Place(0) = "start" THEN 0
          ELSE IF Place(0) \in {"put", "reduce"} THEN lanes[0].pass - 1 ELSE lanes[0].pass

ShAt(n) == IF n = 0 THEN NoKeys
           ELSE [m |-> 1 .. n, l |-> 1 .. n, p |-> <<FullSum(n), 1 .. n>>, corr |-> <<1 .. n - 1, 1 .. n>>]

SumsUpTo(n) == [p \in 1 .. n |-> FullSum(p)]

\* What a lane has read and computed.
LaneHas(l) ==
    IF kernel = "attention"
    THEN /\ lanes[l].out = [keys |-> 1 .. Added(l), rel |-> 1 .. Added(l)]
         /\ lanes[l].pc = "done" => lanes[l].read = <<1 .. PASSES>>
    ELSE lanes[l].read = SumsUpTo(IF lanes[l].pc = "done" THEN lanes[l].pass ELSE lanes[l].pass - 1)

LaneInv(l) == LaneType(l) /\ LaneAt(l) /\ CellOf(l) /\ LaneHas(l)

RedShape == /\ kernel \in Kernels
            /\ partial = [l \in Lane |-> partial[l]] /\ lanes = [l \in Lane |-> lanes[l]]

RedInv == RedShape /\ LockStep /\ (\A l \in Lane : LaneInv(l)) /\ (kernel = "attention" => sh = ShAt(Scored))

LEMMA PowersAre ==
    /\ WGSIZE \in Powers /\ Powers \subseteq 1 .. WGSIZE
    /\ \A n \in Powers : n = 1 \/ \E h \in Powers : n = 2 * h
  BY ReduceAssumption DEF Powers

LEMMA StridesAre ==
    /\ WGSIZE \in Nat \ {0} /\ 0 \in Strides
    /\ WGSIZE \div 2 \in Strides /\ Width(WGSIZE \div 2) = WGSIZE
    /\ \A n \in Strides : /\ n \in Nat /\ 2 * n <= WGSIZE
                          /\ n \div 2 \in Strides
                          /\ n # 0 => Width(n \div 2) = n
<1>1. \A n \in Powers : /\ n \in Nat \ {0} /\ n <= WGSIZE /\ n \div 2 \in Nat
                        /\ n \div 2 = 0 => n = 1
                        /\ n \div 2 # 0 => n \div 2 \in Powers /\ 2 * (n \div 2) = n
  <2> SUFFICES ASSUME NEW n \in Powers
               PROVE  /\ n \in Nat \ {0} /\ n <= WGSIZE /\ n \div 2 \in Nat
                      /\ n \div 2 = 0 => n = 1
                      /\ n \div 2 # 0 => n \div 2 \in Powers /\ 2 * (n \div 2) = n
    OBVIOUS
  <2>1. n \in Nat \ {0} /\ n <= WGSIZE /\ WGSIZE \in Nat
    BY PowersAre, ReduceAssumption
  <2>2. CASE n = 1
    BY <2>1, <2>2
  <2>3. CASE \E h \in Powers : n = 2 * h
    <3>1. PICK h \in Powers : n = 2 * h
      BY <2>3
    <3>2. h \in Nat
      BY PowersAre
    <3>3. n \div 2 = h
      BY <3>1, <3>2
    <3> QED
      BY <2>1, <3>1, <3>2, <3>3
  <2> QED
    BY <2>2, <2>3, PowersAre
<1>2. \A n \in Powers : n \div 2 \in Strides /\ Width(n \div 2) = n
  <2> SUFFICES ASSUME NEW n \in Powers PROVE n \div 2 \in Strides /\ Width(n \div 2) = n
    OBVIOUS
  <2>1. CASE n \div 2 = 0
    BY <1>1, <2>1 DEF Strides, Width
  <2>2. CASE n \div 2 # 0
    BY <1>1, <2>2 DEF Strides, Width
  <2> QED
    BY <2>1, <2>2
<1>3. \A n \in Strides : n = 0 \/ (n \in Powers /\ 2 * n \in Powers)
  BY DEF Strides
<1>4. 0 \div 2 = 0 /\ 0 \in Strides
  BY DEF Strides
<1>5. WGSIZE \in Nat \ {0}
  BY <1>1, PowersAre
<1>6. \A n \in Strides : n \in Nat /\ 2 * n <= WGSIZE
  BY <1>1, <1>3, <1>5
<1>7. \A n \in Strides : n \div 2 \in Strides /\ (n # 0 => Width(n \div 2) = n)
  BY <1>2, <1>3, <1>4
<1> QED
  BY <1>2, <1>4, <1>5, <1>6, <1>7, PowersAre

\* A remainder is known by its range.
LEMMA RemainderIs ==
    ASSUME NEW m \in Nat \ {0}, NEW k \in Nat, NEW q \in Nat, NEW r \in Nat, r < m, k = m * q + r
    PROVE  k % m = r
<1> DEFINE a == k \div m
           b == k % m
<1>1. a \in Int /\ b \in 0 .. m - 1 /\ k = m * a + b
  OBVIOUS
<1> HIDE DEF a, b
<1>2. m * (a - q) = r - b
  BY <1>1
<1>3. a = q
  <2>1. CASE a >= q + 1
    <3>1. m * (a - q) >= m * 1
      BY <1>1, <2>1
    <3> QED
      BY <1>1, <1>2, <3>1
  <2>2. CASE a + 1 <= q
    <3>1. m * (q - a) >= m * 1
      BY <1>1, <2>2
    <3>2. m * (q - a) = b - r
      BY <1>1
    <3> QED
      BY <1>1, <3>1, <3>2
  <2> QED
    BY <1>1, <2>1, <2>2
<1> QED
  BY <1>1, <1>3 DEF b

LEMMA Division ==
    ASSUME NEW m \in Nat \ {0}, NEW k \in Nat
    PROVE  k \div m \in Nat /\ k % m \in Nat /\ k % m < m /\ k = m * (k \div m) + (k % m)
<1> DEFINE a == k \div m
           b == k % m
<1>1. a \in Int /\ b \in 0 .. m - 1 /\ k = m * a + b
  OBVIOUS
<1> HIDE DEF a, b
<1>2. CASE a + 1 <= 0
  <2>1. m * (0 - a) >= m * 1
    BY <1>1, <1>2
  <2>2. m * (0 - a) = b - k
    BY <1>1
  <2> QED
    BY <1>1, <2>1, <2>2
<1>3. a \in Nat
  BY <1>1, <1>2
<1> QED
  BY <1>1, <1>3 DEF a, b

LEMMA HalvedRemainder ==
    ASSUME NEW n \in Nat \ {0}, NEW k \in Nat, NEW l \in Nat, l < n
    PROVE  k % n = l <=> (k % (2 * n) = l \/ k % (2 * n) = l + n)
<1> DEFINE q == k \div (2 * n)
           r == k % (2 * n)
<1>1. 2 * n \in Nat \ {0}
  OBVIOUS
<1>2. q \in Nat /\ r \in Nat /\ r < 2 * n /\ k = (2 * n) * q + r
  BY <1>1, Division
<1> HIDE DEF q, r
<1>3. CASE r < n
  <2>1. k = n * (2 * q) + r /\ 2 * q \in Nat
    BY <1>2
  <2>2. k % n = r
    BY <1>2, <1>3, <2>1, RemainderIs
  <2> QED
    BY <1>2, <1>3, <2>2 DEF r
<1>4. CASE n <= r
  <2>1. k = n * (2 * q + 1) + (r - n) /\ 2 * q + 1 \in Nat /\ r - n \in Nat /\ r - n < n
    BY <1>2, <1>4
  <2>2. k % n = r - n
    BY <2>1, RemainderIs
  <2> QED
    BY <1>2, <1>4, <2>2 DEF r
<1> QED
  BY <1>2, <1>3, <1>4

\* One round of the tree: a cell and the one a stride above it make the cell of the next round.
LEMMA PartsAdd ==
    ASSUME NEW p, NEW n \in Nat \ {0}, NEW l \in Nat, l < n
    PROVE  Part(p, l, 2 * n) (+) Part(p, l + n, 2 * n) = Part(p, l, n)
<1> DEFINE A == {j \in Lane : j % (2 * n) = l}
           B == {j \in Lane : j % (2 * n) = l + n}
           C == {j \in Lane : j % n = l}
           At(X) == {<<p, k>> : k \in X}
<1>1. C = A \cup B /\ A \cap B = {}
  <2>1. \A j \in Lane : j \in Nat
    BY StridesAre DEF Lane
  <2>2. \A j \in Lane : j % n = l <=> (j % (2 * n) = l \/ j % (2 * n) = l + n)
    BY <2>1, HalvedRemainder
  <2>3. l # l + n
    OBVIOUS
  <2> QED
    BY <2>2, <2>3
<1> HIDE DEF A, B, C
<1>2. At(C) = At(A) \cup At(B) /\ At(A) \cap At(B) = {}
  BY <1>1
<1> HIDE DEF At
<1>3. SetToBag(At(A)) (+) SetToBag(At(B)) = SetToBag(At(C))
  BY <1>2 DEF SetToBag, (+)
<1> QED
  BY <1>3 DEF Part, A, B, C, At

LEMMA PartsAre ==
    ASSUME NEW p
    PROVE  /\ Part(p, 0, 1) = FullSum(p)
           /\ \A l \in Lane : Part(p, l, WGSIZE) = Own(p, l)
<1>0. \A j \in Lane : j \in Nat /\ j < WGSIZE
  BY StridesAre DEF Lane
<1>1. {j \in Lane : j % 1 = 0} = Lane
  <2>1. \A j \in Lane : j % 1 = 0
    BY <1>0
  <2> QED
    BY <2>1
<1>2. \A l \in Lane : {j \in Lane : j % WGSIZE = l} = {l}
  <2>1. \A j \in Lane : j % WGSIZE = j
    <3> TAKE j \in Lane
    <3>1. j = WGSIZE * 0 + j
      BY <1>0, StridesAre
    <3> QED
      BY <1>0, <3>1, StridesAre, RemainderIs
  <2> QED
    BY <2>1
<1>3. Part(p, 0, 1) = FullSum(p)
  BY <1>1 DEF Part, FullSum
<1>4. \A l \in Lane : Part(p, l, WGSIZE) = Own(p, l)
  <2> TAKE l \in Lane
  <2>1. {<<p, k>> : k \in {j \in Lane : j % WGSIZE = l}} = {<<p, l>>}
    BY <1>2
  <2> QED
    BY <2>1 DEF Part, Own
<1> QED
  BY <1>3, <1>4

LEMMA OneMoreSum ==
    ASSUME NEW n \in Nat
    PROVE  Append(SumsUpTo(n), FullSum(n + 1)) = SumsUpTo(n + 1)
<1> DEFINE S == {FullSum(p) : p \in Nat}
           s == SumsUpTo(n)
           t == Append(s, FullSum(n + 1))
<1>1. \A i \in 1 .. n : s[i] \in S
  BY DEF SumsUpTo
<1>2. s \in Seq(S) /\ Len(s) = n /\ FullSum(n + 1) \in S
  <2>1. s \in [1 .. n -> S] /\ DOMAIN s = 1 .. n
    BY DEF SumsUpTo
  <2>2. s \in Seq(S)
    BY <2>1, SeqDef
  <2>3. n + 1 \in Nat
    OBVIOUS
  <2> QED
    BY <2>1, <2>2, <2>3, LenProperties
<1>3. /\ t \in Seq(S) /\ Len(t) = n + 1 /\ t[n + 1] = FullSum(n + 1)
      /\ \A i \in 1 .. n : t[i] = s[i]
  BY <1>2, AppendProperties
<1>4. t = [i \in 1 .. n + 1 |-> t[i]]
  BY <1>3, LenProperties
<1>5. \A i \in 1 .. n : s[i] = FullSum(i)
  BY DEF SumsUpTo
<1> HIDE DEF t, s
<1>6. \A i \in 1 .. n + 1 : t[i] = FullSum(i)
  <2> TAKE i \in 1 .. n + 1
  <2>1. i \in 1 .. n \/ i = n + 1
    OBVIOUS
  <2> QED
    BY <1>3, <1>5, <2>1
<1>7. t = [i \in 1 .. n + 1 |-> FullSum(i)]
  BY <1>4, <1>6
<1> QED
  BY <1>7 DEF SumsUpTo, t, s

-----------------------------------------------------------------------------

\* A lane with one field set.
SetPc(ln, x) == [ln EXCEPT !.pc = x]
SetNext(ln, x) == [ln EXCEPT !.next = x]
SetPass(ln, x) == [ln EXCEPT !.pass = x]
SetS(ln, x) == [ln EXCEPT !.s = x]
SetReg(ln, x) == [ln EXCEPT !.reg = x]
SetRead(ln, x) == [ln EXCEPT !.read = x]
SetOut(ln, x) == [ln EXCEPT !.out = x]
SetBar(ln, x) == [ln EXCEPT !.bar = x]

LEMMA LaneOfSet ==
    ASSUME NEW place, NEW next, NEW pass, NEW n, NEW reg, NEW read, NEW out, NEW bar, NEW x
    PROVE  /\ SetPc(LaneOf(place, next, pass, n, reg, read, out, bar), x)
                = LaneOf(x, next, pass, n, reg, read, out, bar)
           /\ SetNext(LaneOf(place, next, pass, n, reg, read, out, bar), x)
                = LaneOf(place, x, pass, n, reg, read, out, bar)
           /\ SetPass(LaneOf(place, next, pass, n, reg, read, out, bar), x)
                = LaneOf(place, next, x, n, reg, read, out, bar)
           /\ SetS(LaneOf(place, next, pass, n, reg, read, out, bar), x)
                = LaneOf(place, next, pass, x, reg, read, out, bar)
           /\ SetReg(LaneOf(place, next, pass, n, reg, read, out, bar), x)
                = LaneOf(place, next, pass, n, x, read, out, bar)
           /\ SetRead(LaneOf(place, next, pass, n, reg, read, out, bar), x)
                = LaneOf(place, next, pass, n, reg, x, out, bar)
           /\ SetOut(LaneOf(place, next, pass, n, reg, read, out, bar), x)
                = LaneOf(place, next, pass, n, reg, read, x, bar)
           /\ SetBar(LaneOf(place, next, pass, n, reg, read, out, bar), x)
                = LaneOf(place, next, pass, n, reg, read, out, x)
<1>1. SetPc(LaneOf(place, next, pass, n, reg, read, out, bar), x)
         = LaneOf(x, next, pass, n, reg, read, out, bar)
  BY DEF LaneOf, SetPc
<1>2. SetNext(LaneOf(place, next, pass, n, reg, read, out, bar), x)
         = LaneOf(place, x, pass, n, reg, read, out, bar)
  BY DEF LaneOf, SetNext
<1>3. SetPass(LaneOf(place, next, pass, n, reg, read, out, bar), x)
         = LaneOf(place, next, x, n, reg, read, out, bar)
  BY DEF LaneOf, SetPass
<1>4. SetS(LaneOf(place, next, pass, n, reg, read, out, bar), x)
         = LaneOf(place, next, pass, x, reg, read, out, bar)
  BY DEF LaneOf, SetS
<1>5. SetReg(LaneOf(place, next, pass, n, reg, read, out, bar), x)
         = LaneOf(place, next, pass, n, x, read, out, bar)
  BY DEF LaneOf, SetReg
<1>6. SetRead(LaneOf(place, next, pass, n, reg, read, out, bar), x)
         = LaneOf(place, next, pass, n, reg, x, out, bar)
  BY DEF LaneOf, SetRead
<1>7. SetOut(LaneOf(place, next, pass, n, reg, read, out, bar), x)
         = LaneOf(place, next, pass, n, reg, read, x, bar)
  BY DEF LaneOf, SetOut
<1>8. SetBar(LaneOf(place, next, pass, n, reg, read, out, bar), x)
         = LaneOf(place, next, pass, n, reg, read, out, x)
  BY DEF LaneOf, SetBar
<1> QED
  BY ONLY <1>1, <1>2, <1>3, <1>4, <1>5, <1>6, <1>7, <1>8

LEMMA FieldSet ==
    ASSUME NEW ln, Fielded(ln), NEW x
    PROVE  /\ SetPc(ln, x) = LaneOf(x, ln.next, ln.pass, ln.s, ln.reg, ln.read, ln.out, ln.bar)
           /\ SetNext(ln, x) = LaneOf(ln.pc, x, ln.pass, ln.s, ln.reg, ln.read, ln.out, ln.bar)
           /\ SetPass(ln, x) = LaneOf(ln.pc, ln.next, x, ln.s, ln.reg, ln.read, ln.out, ln.bar)
           /\ SetS(ln, x) = LaneOf(ln.pc, ln.next, ln.pass, x, ln.reg, ln.read, ln.out, ln.bar)
           /\ SetReg(ln, x) = LaneOf(ln.pc, ln.next, ln.pass, ln.s, x, ln.read, ln.out, ln.bar)
           /\ SetRead(ln, x) = LaneOf(ln.pc, ln.next, ln.pass, ln.s, ln.reg, x, ln.out, ln.bar)
           /\ SetOut(ln, x) = LaneOf(ln.pc, ln.next, ln.pass, ln.s, ln.reg, ln.read, x, ln.bar)
           /\ SetBar(ln, x) = LaneOf(ln.pc, ln.next, ln.pass, ln.s, ln.reg, ln.read, ln.out, x)
  BY LaneOfSet DEF Fielded

LEMMA ArrivalIs ==
    ASSUME NEW place, NEW next, NEW pass, NEW n, NEW reg, NEW read, NEW out, NEW bar, NEW x
    PROVE  AtBarrier(LaneOf(place, next, pass, n, reg, read, out, bar), x)
              = LaneOf("barrier", x, pass, n, reg, read, out, bar + 1)
<1> DEFINE ln == LaneOf(place, next, pass, n, reg, read, out, bar)
<1>1. AtBarrier(ln, x) = SetBar(SetNext(SetPc(ln, "barrier"), x), ln.bar + 1)
  BY DEF AtBarrier, SetBar, SetNext, SetPc
<1>2. ln.bar = bar
  BY DEF LaneOf
<1> QED
  BY <1>1, <1>2, LaneOfSet

\* Only lane l steps, and how, field by field.
Moves(l) ==
    /\ lanes' = [o \in Lane |-> lanes'[o]]
    /\ \A o \in Lane : o # l => lanes'[o] = lanes[o]
    /\ Fielded(lanes'[l])

Becomes(l, place, next, pass, n, reg, read, out, bar) ==
    lanes' = [lanes EXCEPT ![l] = LaneOf(place, next, pass, n, reg, read, out, bar)]

LEMMA OneLane ==
    ASSUME RedShape, NEW l \in Lane, NEW place, NEW next, NEW pass, NEW n, NEW reg, NEW read, NEW out, NEW bar,
           Becomes(l, place, next, pass, n, reg, read, out, bar)
    PROVE  /\ Moves(l)
           /\ lanes'[l].pc = place /\ lanes'[l].next = next /\ lanes'[l].pass = pass /\ lanes'[l].s = n
           /\ lanes'[l].reg = reg /\ lanes'[l].read = read /\ lanes'[l].out = out /\ lanes'[l].bar = bar
<1>1. lanes = [o \in Lane |-> lanes[o]]
  BY DEF RedShape
<1>2. /\ lanes' = [o \in Lane |-> lanes'[o]]
      /\ \A o \in Lane : o # l => lanes'[o] = lanes[o]
      /\ lanes'[l] = LaneOf(place, next, pass, n, reg, read, out, bar)
  BY <1>1 DEF Becomes
<1>3. /\ lanes'[l].pc = place /\ lanes'[l].next = next /\ lanes'[l].pass = pass /\ lanes'[l].s = n
      /\ lanes'[l].reg = reg /\ lanes'[l].read = read /\ lanes'[l].out = out /\ lanes'[l].bar = bar
  BY <1>2 DEF LaneOf
<1> QED
  BY <1>2, <1>3 DEF Moves, Fielded

\* A lane that does not reach a barrier stays in its phase.
LEMMA LaneStays ==
    ASSUME LockStep, kernel' = kernel, NEW l \in Lane,
           \A o \in Lane : o # l => lanes'[o] = lanes[o],
           \A o \in Lane : lanes[o].bar \in Nat,
           lanes'[l].bar = lanes[l].bar, Phase(l)' = Phase(l),
           lanes'[l].pc # "barrier", \A o \in Lane : lanes[l].bar <= lanes[o].bar
    PROVE  LockStep'
<1>1. \A o \in Lane : Phase(o)' = Phase(o)
  <2> TAKE o \in Lane
  <2>1. CASE o # l
    BY <2>1 DEF Phase, Place
  <2> QED
    BY <2>1
<1>2. \A ph : NextPhase(ph)' = NextPhase(ph)
  BY DEF NextPhase, Passes
<1>3. \A o \in Lane : /\ lanes'[o].bar = lanes[o].bar
                      /\ lanes'[o].pc # "barrier" => o = l \/ lanes[o].pc # "barrier"
  OBVIOUS
<1>4. \A a, b \in Lane :
        /\ lanes'[a].bar <= lanes'[b].bar + 1
        /\ lanes'[a].pc # "barrier" => lanes'[a].bar <= lanes'[b].bar
        /\ lanes'[b].bar = lanes'[a].bar => Phase(b)' = Phase(a)'
        /\ lanes'[b].bar = lanes'[a].bar + 1 => Phase(b)' = NextPhase(Phase(a))
  BY <1>1, <1>3 DEF LockStep
<1>5. \A a \in Lane : NextPhase(Phase(a))' = NextPhase(Phase(a))
  BY <1>1 DEF NextPhase, Passes
<1> QED
  BY <1>4, <1>5 DEF LockStep

\* A lane that reaches a barrier goes from its phase to the next.
LEMMA LaneArrives ==
    ASSUME LockStep, kernel' = kernel, NEW l \in Lane,
           \A o \in Lane : o # l => lanes'[o] = lanes[o],
           \A o \in Lane : lanes[o].bar \in Nat,
           lanes[l].pc # "barrier", lanes'[l].pc = "barrier",
           lanes'[l].bar = lanes[l].bar + 1, Phase(l)' = NextPhase(Phase(l))
    PROVE  LockStep'
<1>1. \A o \in Lane : o # l => Phase(o)' = Phase(o) /\ NextPhase(Phase(o))' = NextPhase(Phase(o))
  <2> SUFFICES ASSUME NEW o \in Lane, o # l
               PROVE  Phase(o)' = Phase(o) /\ NextPhase(Phase(o))' = NextPhase(Phase(o))
    OBVIOUS
  <2>1. Phase(o)' = Phase(o)
    BY DEF Phase, Place
  <2> QED
    BY <2>1 DEF NextPhase, Passes
<1>2. \A o \in Lane : lanes[l].bar <= lanes[o].bar /\ lanes[o].bar <= lanes[l].bar + 1
  BY DEF LockStep
<1> SUFFICES ASSUME NEW a \in Lane, NEW b \in Lane
             PROVE  /\ lanes'[a].bar <= lanes'[b].bar + 1
                    /\ lanes'[a].pc # "barrier" => lanes'[a].bar <= lanes'[b].bar
                    /\ lanes'[b].bar = lanes'[a].bar => Phase(b)' = Phase(a)'
                    /\ lanes'[b].bar = lanes'[a].bar + 1 => Phase(b)' = NextPhase(Phase(a))'
  BY DEF LockStep
<1>3. CASE a # l /\ b # l
  BY <1>1, <1>3 DEF LockStep
<1>4. CASE a = l /\ b = l
  BY <1>4
<1>5. CASE a = l /\ b # l
  <2>1. lanes'[b].bar \in Nat /\ lanes[l].bar \in Nat
    BY <1>5
  <2>2. lanes'[b].bar = lanes'[a].bar => Phase(b)' = Phase(a)'
    BY <1>1, <1>5 DEF LockStep
  <2> QED
    BY <1>2, <1>5, <2>1, <2>2
<1>6. CASE a # l /\ b = l
  <2>1. lanes'[a].bar \in Nat /\ lanes[l].bar \in Nat
    BY <1>6
  <2>2. lanes'[b].bar = lanes'[a].bar => Phase(b)' = Phase(a)'
    BY <1>1, <1>6 DEF LockStep
  <2>3. lanes'[b].bar = lanes'[a].bar + 1 => Phase(b)' = NextPhase(Phase(a))'
    BY <1>1, <1>6, <2>1 DEF LockStep
  <2> QED
    BY <1>2, <1>6, <2>1, <2>2, <2>3
<1> QED
  BY <1>3, <1>4, <1>5, <1>6

\* What the others hold is theirs.
LEMMA OthersKeepTheirs ==
    ASSUME NEW o \in Lane, LaneInv(o), kernel' = kernel, lanes'[o] = lanes[o], partial'[o] = partial[o]
    PROVE  LaneInv(o)'
<1>1. Place(o)' = Place(o)
  BY DEF Place
<1>2. LaneType(o)'
  BY DEF LaneInv, LaneType, Passes
<1>3. LaneAt(o)'
  BY <1>1 DEF LaneInv, LaneAt, Passes
<1>4. CellOf(o)'
  BY <1>1 DEF LaneInv, CellOf
<1>5. LaneHas(o)'
  BY <1>1 DEF LaneInv, LaneHas, Added
<1> QED
  BY <1>2, <1>3, <1>4, <1>5 DEF LaneInv

LEMMA ScoreKept ==
    ASSUME 0 \in Lane, kernel' = kernel, sh' = sh, NEW l \in Lane, Moves(l), l = 0 => Scored' = Scored,
           kernel = "attention" => sh = ShAt(Scored)
    PROVE  kernel' = "attention" => sh' = ShAt(Scored)'
<1>1. Scored' = Scored
  BY DEF Scored, Place, Moves
<1> QED
  BY <1>1 DEF ShAt

LEMMA StepKeeps ==
    ASSUME RedInv, kernel' = kernel, NEW l \in Lane, Moves(l),
           partial' = [o \in Lane |-> partial'[o]], \A o \in Lane : o # l => partial'[o] = partial[o],
           LockStep', LaneInv(l)',
           kernel' = "attention" => sh' = ShAt(Scored)'
    PROVE  RedInv'
<1>1. \A o \in Lane : LaneInv(o)'
  <2> TAKE o \in Lane
  <2>1. CASE o = l
    BY <2>1
  <2>2. CASE o # l
    BY <2>2, OthersKeepTheirs DEF RedInv, Moves
  <2> QED
    BY <2>1, <2>2
<1>2. RedShape'
  BY DEF RedInv, RedShape, Moves
<1> QED
  BY <1>1, <1>2 DEF RedInv

LEMMA InvFacts ==
    ASSUME RedInv, NEW l \in Lane
    PROVE  /\ RedShape /\ LockStep /\ LaneInv(l)
           /\ \A o \in Lane : lanes[o].bar \in Nat
           /\ partial = [o \in Lane |-> partial[o]]
           /\ l \in Nat /\ l < WGSIZE /\ 0 \in Lane
           /\ lanes[l].pc # "barrier" => \A o \in Lane : lanes[l].bar <= lanes[o].bar
           /\ kernel = "attention" => sh = ShAt(Scored)
           /\ lanes[l].pass \in 1 .. Passes /\ lanes[l].s \in Nat /\ lanes[l].s \in Strides
<1>1. l \in Nat /\ l < WGSIZE /\ 0 \in Lane
  BY StridesAre DEF Lane
<1>2. RedShape /\ LockStep /\ LaneInv(l) /\ (\A o \in Lane : lanes[o].bar \in Nat)
  BY DEF RedInv, LaneInv, LaneType
<1>3. lanes[l].pass \in 1 .. Passes /\ lanes[l].s \in Strides
  BY <1>2 DEF LaneInv, LaneType
<1> QED
  BY <1>1, <1>2, <1>3, StridesAre DEF RedShape, LockStep, RedInv

\* Where lane o is, seen from a lane l that is past its barrier.
LEMMA InStep ==
    ASSUME RedInv, NEW l \in Lane, NEW o \in Lane, lanes[l].pc # "barrier"
    PROVE  \/ lanes[o].bar = lanes[l].bar /\ Phase(o) = Phase(l)
           \/ lanes[o].bar = lanes[l].bar + 1 /\ Phase(o) = NextPhase(Phase(l))
<1>1. lanes[l].bar <= lanes[o].bar /\ lanes[o].bar <= lanes[l].bar + 1
  BY InvFacts DEF LockStep
<1>2. lanes[l].bar \in Nat /\ lanes[o].bar \in Nat
  BY InvFacts
<1>3. lanes[o].bar = lanes[l].bar \/ lanes[o].bar = lanes[l].bar + 1
  BY <1>1, <1>2
<1> QED
  BY <1>3, InvFacts DEF LockStep

LEMMA PlaceIsName == ASSUME RedInv, NEW l \in Lane PROVE Place(l) \in PlaceNames
  BY InvFacts DEF LaneInv, LaneType, Place, PlaceNames

LEMMA PassBarrierKeeps == ASSUME RedInv, NEW l \in Lane, PassBarrier(l) PROVE RedInv'
<1>1. /\ RedShape /\ LockStep /\ LaneInv(l) /\ (\A o \in Lane : lanes[o].bar \in Nat)
      /\ l \in Nat /\ l < WGSIZE /\ 0 \in Lane /\ partial = [o \in Lane |-> partial[o]]
      /\ lanes[l].pass \in 1 .. Passes /\ lanes[l].s \in Nat /\ lanes[l].s \in Strides
      /\ Fielded(lanes[l])
  BY InvFacts DEF LaneInv, LaneType
<1>2. /\ lanes[l].pc = "barrier" /\ (\A o \in Lane : lanes[o].bar >= lanes[l].bar)
      /\ kernel' = kernel /\ partial' = partial /\ sh' = sh
  BY DEF PassBarrier, AtPc
<1>3. Becomes(l, lanes[l].next, lanes[l].next, lanes[l].pass, lanes[l].s, lanes[l].reg, lanes[l].read,
              lanes[l].out, lanes[l].bar)
  <2>1. lanes' = [lanes EXCEPT ![l] = SetPc(lanes[l], lanes[l].next)]
    BY DEF PassBarrier, SetLane, SetPc
  <2>2. SetPc(lanes[l], lanes[l].next) = LaneOf(lanes[l].next, lanes[l].next, lanes[l].pass,
                                                        lanes[l].s, lanes[l].reg, lanes[l].read,
                                                        lanes[l].out, lanes[l].bar)
    BY <1>1, FieldSet
  <2> QED
    BY <2>1, <2>2 DEF Becomes
<1>4. /\ Moves(l)
      /\ lanes'[l].pc = lanes[l].next /\ lanes'[l].next = lanes[l].next
      /\ lanes'[l].pass = lanes[l].pass /\ lanes'[l].s = lanes[l].s
      /\ lanes'[l].reg = lanes[l].reg /\ lanes'[l].read = lanes[l].read /\ lanes'[l].out = lanes[l].out
      /\ lanes'[l].bar = lanes[l].bar
  BY <1>1, <1>3, OneLane
<1>5. Place(l) = lanes[l].next /\ Place(l)' = lanes[l].next /\ lanes[l].next \in PlaceNames
  BY <1>1, <1>2, <1>4 DEF Place, LaneInv, LaneType, PlaceNames
<1>6. LockStep'
  <2>1. Phase(l)' = Phase(l)
    BY <1>4, <1>5 DEF Phase
  <2>2. lanes'[l].pc # "barrier"
    BY <1>4, <1>5 DEF PlaceNames
  <2>3. \A o \in Lane : lanes[l].bar <= lanes[o].bar
    BY <1>1, <1>2
  <2> QED
    BY <1>1, <1>2, <1>4, <2>1, <2>2, <2>3, LaneStays DEF Moves
<1>7. LaneInv(l)'
  <2>0. lanes'[l].pc \notin {"add", "done", "barrier"} /\ lanes[l].pc \notin {"add", "done"}
    BY <1>2, <1>4, <1>5 DEF PlaceNames
  <2>1. LaneType(l)'
    BY <1>1, <1>2, <1>4, <1>5 DEF LaneInv, LaneType, Passes, Moves
  <2>2. LaneAt(l)'
    BY <1>1, <1>2, <1>4, <1>5, <2>0 DEF LaneInv, LaneAt, Passes
  <2>3. CellOf(l)'
    BY <1>1, <1>2, <1>4, <1>5 DEF LaneInv, CellOf
  <2>4. LaneHas(l)'
    BY <1>1, <1>2, <1>4, <1>5, <2>0 DEF LaneInv, LaneHas, Added
  <2> QED
    BY <2>1, <2>2, <2>3, <2>4 DEF LaneInv
<1>8. kernel' = "attention" => sh' = ShAt(Scored)'
  <2>1. l = 0 => Scored' = Scored
    BY <1>2, <1>4, <1>5 DEF Scored
  <2> QED
    BY <1>1, <1>2, <1>4, <2>1, InvFacts, ScoreKept
<1>9. partial' = [o \in Lane |-> partial'[o]] /\ \A o \in Lane : o # l => partial'[o] = partial[o]
  BY <1>1, <1>2
<1> QED
  BY <1>1, <1>2, <1>4, <1>6, <1>7, <1>8, <1>9, StepKeeps

LEMMA StorePartialKeeps == ASSUME RedInv, NEW l \in Lane, StorePartial(l) PROVE RedInv'
<1>1. /\ RedShape /\ LockStep /\ LaneInv(l) /\ (\A o \in Lane : lanes[o].bar \in Nat)
      /\ l \in Nat /\ l < WGSIZE /\ 0 \in Lane /\ partial = [o \in Lane |-> partial[o]]
      /\ lanes[l].pass \in 1 .. Passes /\ lanes[l].s \in Nat /\ lanes[l].s \in Strides
      /\ Fielded(lanes[l])
  BY InvFacts DEF LaneInv, LaneType
<1>2. /\ lanes[l].pc = "put" /\ kernel' = kernel /\ sh' = sh
      /\ partial' = [partial EXCEPT ![l] = Own(lanes[l].pass, l)]
  BY DEF StorePartial, AtPc
<1>3. Becomes(l, "barrier", "reduce", lanes[l].pass, WGSIZE \div 2, lanes[l].reg, lanes[l].read,
              lanes[l].out, lanes[l].bar + 1)
  <2>1. lanes' = [lanes EXCEPT ![l] = AtBarrier(SetS(lanes[l], WGSIZE \div 2), "reduce")]
    BY DEF StorePartial, SetLane, SetS
  <2>2. SetS(lanes[l], WGSIZE \div 2) = LaneOf(lanes[l].pc, lanes[l].next, lanes[l].pass,
                                                       WGSIZE \div 2, lanes[l].reg, lanes[l].read,
                                                       lanes[l].out, lanes[l].bar)
    BY <1>1, FieldSet
  <2>3. AtBarrier(SetS(lanes[l], WGSIZE \div 2), "reduce")
           = LaneOf("barrier", "reduce", lanes[l].pass, WGSIZE \div 2, lanes[l].reg, lanes[l].read,
                    lanes[l].out, lanes[l].bar + 1)
    BY <2>2, ArrivalIs
  <2> QED
    BY <2>1, <2>3 DEF Becomes
<1>4. /\ Moves(l)
      /\ lanes'[l].pc = "barrier" /\ lanes'[l].next = "reduce" /\ lanes'[l].pass = lanes[l].pass
      /\ lanes'[l].s = WGSIZE \div 2
      /\ lanes'[l].reg = lanes[l].reg /\ lanes'[l].read = lanes[l].read /\ lanes'[l].out = lanes[l].out
      /\ lanes'[l].bar = lanes[l].bar + 1
  BY <1>1, <1>3, OneLane
<1>5. Place(l) = "put" /\ Place(l)' = "reduce"
  BY <1>2, <1>4 DEF Place
<1>6. LockStep'
  <2>1. Phase(l)' = NextPhase(Phase(l))
    BY <1>1, <1>2, <1>4, <1>5 DEF Phase, NextPhase
  <2> QED
    BY <1>1, <1>2, <1>4, <2>1, LaneArrives DEF Moves
<1>7. LaneInv(l)'
  <2>1. LaneType(l)'
    BY <1>1, <1>2, <1>4, StridesAre DEF LaneInv, LaneType, Passes, PlaceNames, Moves
  <2>2. LaneAt(l)'
    BY <1>1, <1>2, <1>4, <1>5 DEF LaneInv, LaneAt, Passes
  <2>3. CellOf(l)'
    <3>1. partial'[l] = Part(lanes[l].pass, l, WGSIZE)
      BY <1>1, <1>2, PartsAre
    <3> QED
      BY <1>1, <1>4, <1>5, <3>1, StridesAre DEF CellOf
  <2>4. LaneHas(l)'
    BY <1>1, <1>2, <1>4, <1>5 DEF LaneInv, LaneHas, Added
  <2> QED
    BY <2>1, <2>2, <2>3, <2>4 DEF LaneInv
<1>8. kernel' = "attention" => sh' = ShAt(Scored)'
  <2>1. l = 0 => Scored' = Scored
    BY <1>2, <1>4, <1>5 DEF Scored
  <2> QED
    BY <1>1, <1>2, <1>4, <2>1, InvFacts, ScoreKept
<1>9. partial' = [o \in Lane |-> partial'[o]] /\ \A o \in Lane : o # l => partial'[o] = partial[o]
  BY <1>1, <1>2
<1> QED
  BY <1>1, <1>2, <1>4, <1>6, <1>7, <1>8, <1>9, StepKeeps

\* What a lane adds is what the lane a stride above it had, though that may have gone on by now.
LEMMA AddendIs ==
    ASSUME RedInv, NEW l \in Lane, lanes[l].pc = "reduce", l < lanes[l].s
    PROVE  partial[l + lanes[l].s] = Part(lanes[l].pass, l + lanes[l].s, 2 * lanes[l].s)
<1> DEFINE n == lanes[l].s
           o == l + n
<1>1. /\ l \in Nat /\ l < n /\ n \in Nat /\ 2 * n <= WGSIZE /\ n \div 2 \in Strides /\ Width(n \div 2) = n
      /\ WGSIZE \in Nat
  BY InvFacts, StridesAre
<1>2. o \in Lane /\ n <= o /\ o < 2 * n
  BY <1>1 DEF Lane
<1>3. Phase(l) = <<"reduce", lanes[l].pass, n>> /\ n # 0
  BY <1>1 DEF Phase, Place
<1>4. NextPhase(Phase(l)) = <<"reduce", lanes[l].pass, n \div 2>>
  BY <1>3 DEF NextPhase
<1>5. CellOf(o)
  BY <1>2, InvFacts DEF LaneInv
<1>6. CASE Phase(o) = Phase(l)
  <2>1. Place(o) = "reduce" /\ lanes[o].pass = lanes[l].pass /\ lanes[o].s = n
    BY <1>3, <1>6 DEF Phase
  <2>2. Width(n) = 2 * n
    BY <1>3 DEF Width
  <2> HIDE DEF n, o
  <2> QED
    BY <1>2, <1>5, <2>1, <2>2 DEF CellOf, n, o
<1>7. CASE Phase(o) = NextPhase(Phase(l))
  <2>1. Place(o) = "reduce" /\ lanes[o].pass = lanes[l].pass /\ lanes[o].s = n \div 2
    BY <1>4, <1>7 DEF Phase
  <2> QED
    BY <1>1, <1>2, <1>5, <2>1 DEF CellOf
<1> QED
  BY <1>2, <1>6, <1>7, InStep

LEMMA LoadAddendKeeps == ASSUME RedInv, NEW l \in Lane, LoadAddend(l) PROVE RedInv'
<1>1. /\ RedShape /\ LockStep /\ LaneInv(l) /\ (\A o \in Lane : lanes[o].bar \in Nat)
      /\ l \in Nat /\ l < WGSIZE /\ 0 \in Lane /\ partial = [o \in Lane |-> partial[o]]
      /\ lanes[l].pass \in 1 .. Passes /\ lanes[l].s \in Nat /\ lanes[l].s \in Strides
      /\ Fielded(lanes[l])
  BY InvFacts DEF LaneInv, LaneType
<1>2. /\ lanes[l].pc = "reduce" /\ l < lanes[l].s
      /\ kernel' = kernel /\ partial' = partial /\ sh' = sh
  BY DEF LoadAddend, AtPc
<1>3. Becomes(l, "add", lanes[l].next, lanes[l].pass, lanes[l].s, partial[l + lanes[l].s],
              lanes[l].read, lanes[l].out, lanes[l].bar)
  <2>1. lanes' = [lanes EXCEPT ![l] = SetReg(SetPc(lanes[l], "add"), partial[l + lanes[l].s])]
    BY DEF LoadAddend, SetLane, SetPc, SetReg
  <2>2. SetPc(lanes[l], "add") = LaneOf("add", lanes[l].next, lanes[l].pass, lanes[l].s,
                                                lanes[l].reg, lanes[l].read, lanes[l].out, lanes[l].bar)
    BY <1>1, FieldSet
  <2>3. SetReg(SetPc(lanes[l], "add"), partial[l + lanes[l].s])
           = LaneOf("add", lanes[l].next, lanes[l].pass, lanes[l].s, partial[l + lanes[l].s],
                    lanes[l].read, lanes[l].out, lanes[l].bar)
    BY <2>2, LaneOfSet
  <2> QED
    BY <2>1, <2>3 DEF Becomes
<1>4. /\ Moves(l)
      /\ lanes'[l].pc = "add" /\ lanes'[l].next = lanes[l].next /\ lanes'[l].pass = lanes[l].pass
      /\ lanes'[l].s = lanes[l].s
      /\ lanes'[l].reg = partial[l + lanes[l].s] /\ lanes'[l].read = lanes[l].read
      /\ lanes'[l].out = lanes[l].out /\ lanes'[l].bar = lanes[l].bar
  BY <1>1, <1>3, OneLane
<1>5. Place(l) = "reduce" /\ Place(l)' = "reduce"
  BY <1>2, <1>4 DEF Place
<1>6. LockStep'
  <2>1. Phase(l)' = Phase(l)
    BY <1>4, <1>5 DEF Phase
  <2>2. \A o \in Lane : lanes[l].bar <= lanes[o].bar
    BY <1>2, InvFacts
  <2> QED
    BY <1>1, <1>2, <1>4, <2>1, <2>2, LaneStays DEF Moves
<1>7. LaneInv(l)'
  <2>1. LaneType(l)'
    BY <1>1, <1>2, <1>4 DEF LaneInv, LaneType, Passes, Moves
  <2>2. LaneAt(l)'
    <3>1. lanes'[l].reg = Part(lanes[l].pass, l + lanes[l].s, 2 * lanes[l].s)
      BY <1>2, <1>4, AddendIs
    <3>2. 0 < lanes[l].s
      BY <1>1, <1>2
    <3> QED
      BY <1>1, <1>2, <1>4, <1>5, <3>1, <3>2 DEF LaneInv, LaneAt, Passes
  <2>3. CellOf(l)'
    BY <1>1, <1>2, <1>4, <1>5 DEF LaneInv, CellOf
  <2>4. LaneHas(l)'
    BY <1>1, <1>2, <1>4, <1>5 DEF LaneInv, LaneHas, Added
  <2> QED
    BY <2>1, <2>2, <2>3, <2>4 DEF LaneInv
<1>8. kernel' = "attention" => sh' = ShAt(Scored)'
  <2>1. l = 0 => Scored' = Scored
    BY <1>2, <1>4, <1>5 DEF Scored
  <2> QED
    BY <1>1, <1>2, <1>4, <2>1, InvFacts, ScoreKept
<1>9. partial' = [o \in Lane |-> partial'[o]] /\ \A o \in Lane : o # l => partial'[o] = partial[o]
  BY <1>1, <1>2
<1> QED
  BY <1>1, <1>2, <1>4, <1>6, <1>7, <1>8, <1>9, StepKeeps

LEMMA AddKeeps == ASSUME RedInv, NEW l \in Lane, Add(l) PROVE RedInv'
<1>1. /\ RedShape /\ LockStep /\ LaneInv(l) /\ (\A o \in Lane : lanes[o].bar \in Nat)
      /\ l \in Nat /\ l < WGSIZE /\ 0 \in Lane /\ partial = [o \in Lane |-> partial[o]]
      /\ lanes[l].pass \in 1 .. Passes /\ lanes[l].s \in Nat /\ lanes[l].s \in Strides
      /\ Fielded(lanes[l])
  BY InvFacts DEF LaneInv, LaneType
<1>2. /\ lanes[l].pc = "add" /\ kernel' = kernel /\ sh' = sh
      /\ partial' = [partial EXCEPT ![l] = partial[l] (+) lanes[l].reg]
      /\ 0 < lanes[l].s /\ l < lanes[l].s
      /\ lanes[l].reg = Part(lanes[l].pass, l + lanes[l].s, 2 * lanes[l].s)
  BY <1>1 DEF Add, AtPc, LaneInv, LaneAt
<1>3. Becomes(l, "barrier", "reduce", lanes[l].pass, lanes[l].s \div 2, lanes[l].reg, lanes[l].read,
              lanes[l].out, lanes[l].bar + 1)
  <2>1. lanes' = [lanes EXCEPT ![l] = AtBarrier(SetS(lanes[l], lanes[l].s \div 2), "reduce")]
    BY DEF Add, SetLane, SetS
  <2>2. SetS(lanes[l], lanes[l].s \div 2) = LaneOf(lanes[l].pc, lanes[l].next, lanes[l].pass,
                                                           lanes[l].s \div 2, lanes[l].reg,
                                                           lanes[l].read, lanes[l].out, lanes[l].bar)
    BY <1>1, FieldSet
  <2>3. AtBarrier(SetS(lanes[l], lanes[l].s \div 2), "reduce")
           = LaneOf("barrier", "reduce", lanes[l].pass, lanes[l].s \div 2, lanes[l].reg, lanes[l].read,
                    lanes[l].out, lanes[l].bar + 1)
    BY <2>2, ArrivalIs
  <2> QED
    BY <2>1, <2>3 DEF Becomes
<1>4. /\ Moves(l)
      /\ lanes'[l].pc = "barrier" /\ lanes'[l].next = "reduce" /\ lanes'[l].pass = lanes[l].pass
      /\ lanes'[l].s = lanes[l].s \div 2
      /\ lanes'[l].reg = lanes[l].reg /\ lanes'[l].read = lanes[l].read /\ lanes'[l].out = lanes[l].out
      /\ lanes'[l].bar = lanes[l].bar + 1
  BY <1>1, <1>3, OneLane
<1>5. Place(l) = "reduce" /\ Place(l)' = "reduce"
  BY <1>2, <1>4 DEF Place
<1>6. LockStep'
  <2>1. Phase(l)' = NextPhase(Phase(l))
    BY <1>1, <1>2, <1>4, <1>5 DEF Phase, NextPhase
  <2> QED
    BY <1>1, <1>2, <1>4, <2>1, LaneArrives DEF Moves
<1>7. LaneInv(l)'
  <2>1. LaneType(l)'
    BY <1>1, <1>2, <1>4, StridesAre DEF LaneInv, LaneType, Passes, PlaceNames, Moves
  <2>2. LaneAt(l)'
    BY <1>1, <1>2, <1>4, <1>5 DEF LaneInv, LaneAt, Passes
  <2>3. CellOf(l)'
    <3>1. partial[l] = Part(lanes[l].pass, l, 2 * lanes[l].s)
      <4>1. Width(lanes[l].s) = 2 * lanes[l].s /\ l < 2 * lanes[l].s
        BY <1>1, <1>2 DEF Width
      <4> QED
        BY <1>1, <1>5, <4>1 DEF LaneInv, CellOf
    <3>2. partial'[l] = partial[l] (+) lanes[l].reg
      BY <1>1, <1>2
    <3>3. partial'[l] = Part(lanes[l].pass, l, lanes[l].s)
      BY <1>1, <1>2, <3>1, <3>2, PartsAdd
    <3>4. Width(lanes'[l].s) = lanes[l].s
      BY <1>1, <1>2, <1>4, StridesAre
    <3> QED
      BY <1>1, <1>2, <1>4, <1>5, <3>3, <3>4 DEF CellOf, Width
  <2>4. LaneHas(l)'
    BY <1>1, <1>2, <1>4, <1>5 DEF LaneInv, LaneHas, Added
  <2> QED
    BY <2>1, <2>2, <2>3, <2>4 DEF LaneInv
<1>8. kernel' = "attention" => sh' = ShAt(Scored)'
  <2>1. l = 0 => Scored' = Scored
    BY <1>2, <1>4, <1>5 DEF Scored
  <2> QED
    BY <1>1, <1>2, <1>4, <2>1, InvFacts, ScoreKept
<1>9. partial' = [o \in Lane |-> partial'[o]] /\ \A o \in Lane : o # l => partial'[o] = partial[o]
  BY <1>1, <1>2
<1> QED
  BY <1>1, <1>2, <1>4, <1>6, <1>7, <1>8, <1>9, StepKeeps

LEMMA SkipAddKeeps == ASSUME RedInv, NEW l \in Lane, SkipAdd(l) PROVE RedInv'
<1>1. /\ RedShape /\ LockStep /\ LaneInv(l) /\ (\A o \in Lane : lanes[o].bar \in Nat)
      /\ l \in Nat /\ l < WGSIZE /\ 0 \in Lane /\ partial = [o \in Lane |-> partial[o]]
      /\ lanes[l].pass \in 1 .. Passes /\ lanes[l].s \in Nat /\ lanes[l].s \in Strides
      /\ Fielded(lanes[l])
  BY InvFacts DEF LaneInv, LaneType
<1>2. /\ lanes[l].pc = "reduce" /\ kernel' = kernel /\ sh' = sh /\ partial' = partial
      /\ 0 < lanes[l].s /\ lanes[l].s <= l
  BY DEF SkipAdd, AtPc
<1>3. Becomes(l, "barrier", "reduce", lanes[l].pass, lanes[l].s \div 2, lanes[l].reg, lanes[l].read,
              lanes[l].out, lanes[l].bar + 1)
  <2>1. lanes' = [lanes EXCEPT ![l] = AtBarrier(SetS(lanes[l], lanes[l].s \div 2), "reduce")]
    BY DEF SkipAdd, SetLane, SetS
  <2>2. SetS(lanes[l], lanes[l].s \div 2) = LaneOf(lanes[l].pc, lanes[l].next, lanes[l].pass,
                                                           lanes[l].s \div 2, lanes[l].reg,
                                                           lanes[l].read, lanes[l].out, lanes[l].bar)
    BY <1>1, FieldSet
  <2>3. AtBarrier(SetS(lanes[l], lanes[l].s \div 2), "reduce")
           = LaneOf("barrier", "reduce", lanes[l].pass, lanes[l].s \div 2, lanes[l].reg, lanes[l].read,
                    lanes[l].out, lanes[l].bar + 1)
    BY <2>2, ArrivalIs
  <2> QED
    BY <2>1, <2>3 DEF Becomes
<1>4. /\ Moves(l)
      /\ lanes'[l].pc = "barrier" /\ lanes'[l].next = "reduce" /\ lanes'[l].pass = lanes[l].pass
      /\ lanes'[l].s = lanes[l].s \div 2
      /\ lanes'[l].reg = lanes[l].reg /\ lanes'[l].read = lanes[l].read /\ lanes'[l].out = lanes[l].out
      /\ lanes'[l].bar = lanes[l].bar + 1
  BY <1>1, <1>3, OneLane
<1>5. Place(l) = "reduce" /\ Place(l)' = "reduce"
  BY <1>2, <1>4 DEF Place
<1>6. LockStep'
  <2>1. Phase(l)' = NextPhase(Phase(l))
    BY <1>1, <1>2, <1>4, <1>5 DEF Phase, NextPhase
  <2> QED
    BY <1>1, <1>2, <1>4, <2>1, LaneArrives DEF Moves
<1>7. LaneInv(l)'
  <2>1. LaneType(l)'
    BY <1>1, <1>2, <1>4, StridesAre DEF LaneInv, LaneType, Passes, PlaceNames, Moves
  <2>2. LaneAt(l)'
    BY <1>1, <1>2, <1>4, <1>5 DEF LaneInv, LaneAt, Passes
  <2>3. CellOf(l)'
    <3>1. l < 2 * lanes[l].s => partial[l] = Part(lanes[l].pass, l, 2 * lanes[l].s)
      <4>1. Width(lanes[l].s) = 2 * lanes[l].s
        BY <1>2 DEF Width
      <4> QED
        BY <1>1, <1>5, <4>1 DEF LaneInv, CellOf
    <3>2. Width(lanes'[l].s) = lanes[l].s
      BY <1>1, <1>2, <1>4, StridesAre
    <3> QED
      BY <1>1, <1>2, <1>4, <1>5, <3>1, <3>2 DEF CellOf, Width
  <2>4. LaneHas(l)'
    BY <1>1, <1>2, <1>4, <1>5 DEF LaneInv, LaneHas, Added
  <2> QED
    BY <2>1, <2>2, <2>3, <2>4 DEF LaneInv
<1>8. kernel' = "attention" => sh' = ShAt(Scored)'
  <2>1. l = 0 => Scored' = Scored
    BY <1>2, <1>4, <1>5 DEF Scored
  <2> QED
    BY <1>1, <1>2, <1>4, <2>1, InvFacts, ScoreKept
<1>9. partial' = [o \in Lane |-> partial'[o]] /\ \A o \in Lane : o # l => partial'[o] = partial[o]
  BY <1>1, <1>2
<1> QED
  BY <1>1, <1>2, <1>4, <1>6, <1>7, <1>8, <1>9, StepKeeps

\* The sum of a pass is whole when the tree is done, and is still there for a lane that reads it late.
LEMMA SumIsWhole ==
    ASSUME RedInv, kernel # "attention", NEW l \in Lane, lanes[l].pc = "reduce", lanes[l].s = 0
    PROVE  partial[0] = FullSum(lanes[l].pass)
<1>1. 0 \in Lane /\ CellOf(0) /\ lanes[l].pass \in Nat \ {0} /\ Place(0) \in PlaceNames
  BY InvFacts, PlaceIsName DEF LaneInv
<1>2. Phase(l) = <<"reduce", lanes[l].pass, 0>>
  BY DEF Phase, Place
<1>3. CASE Phase(0) = Phase(l)
  <2>1. Place(0) = "reduce" /\ lanes[0].pass = lanes[l].pass /\ lanes[0].s = 0
    BY <1>2, <1>3 DEF Phase
  <2>2. partial[0] = Part(lanes[l].pass, 0, 1)
    BY <1>1, <2>1 DEF CellOf, Width
  <2> QED
    BY <2>2, PartsAre
<1>4. CASE Phase(0) = NextPhase(Phase(l))
  <2>1. Place(0) = "put" /\ lanes[0].pass = lanes[l].pass + 1
    <3>1. NextPhase(Phase(l)) = IF lanes[l].pass < Passes THEN <<"put", lanes[l].pass + 1, 0>>
                                ELSE <<"over", lanes[l].pass, 0>>
      BY <1>2 DEF NextPhase
    <3> QED
      BY <1>1, <1>4, <3>1 DEF Phase, PlaceNames
  <2> QED
    BY <1>1, <2>1 DEF CellOf
<1> QED
  BY <1>1, <1>3, <1>4, InStep

LEMMA ReadSumKeeps == ASSUME RedInv, NEW l \in Lane, ReadSum(l) PROVE RedInv'
<1>1. /\ RedShape /\ LockStep /\ LaneInv(l) /\ (\A o \in Lane : lanes[o].bar \in Nat)
      /\ l \in Nat /\ l < WGSIZE /\ 0 \in Lane /\ partial = [o \in Lane |-> partial[o]]
      /\ lanes[l].pass \in 1 .. Passes /\ lanes[l].s \in Nat /\ lanes[l].s \in Strides
      /\ Fielded(lanes[l])
  BY InvFacts DEF LaneInv, LaneType
<1>2. /\ lanes[l].pc = "reduce" /\ kernel' = kernel /\ sh' = sh /\ partial' = partial
      /\ lanes[l].s = 0 /\ kernel # "attention" /\ partial[0] = FullSum(lanes[l].pass)
  BY SumIsWhole DEF ReadSum, AtPc
<1>3. lanes[l].pass \in Nat \ {0} /\ Passes \in Nat /\ lanes[l].pass <= Passes
  BY <1>1, ReduceAssumption DEF Passes
<1> DEFINE reads == Append(lanes[l].read, partial[0])
           got == SetRead(lanes[l], reads)
<1>4. got = LaneOf(lanes[l].pc, lanes[l].next, lanes[l].pass, lanes[l].s, lanes[l].reg, reads,
                   lanes[l].out, lanes[l].bar)
  <2> HIDE DEF reads
  <2> QED
    BY <1>1, FieldSet
<1>5. lanes' = [lanes EXCEPT ![l] = IF got.pass < Passes THEN AtBarrier(SetPass(got, got.pass + 1), "put")
                                    ELSE SetPc(got, "done")]
  BY DEF ReadSum, SetLane, SetPc, SetPass, SetRead
<1>6. got.pass = lanes[l].pass
  <2> HIDE DEF got, reads
  <2> QED
    BY <1>4 DEF LaneOf
<1>7. Place(l) = "reduce" /\ lanes[l].read = SumsUpTo(lanes[l].pass - 1)
  BY <1>1, <1>2 DEF Place, LaneInv, LaneHas
<1>8. reads = SumsUpTo(lanes[l].pass)
  <2>1. lanes[l].pass - 1 \in Nat /\ (lanes[l].pass - 1) + 1 = lanes[l].pass
    BY <1>3
  <2> QED
    BY <1>2, <1>7, <2>1, OneMoreSum
<1> HIDE DEF got, reads
<1>9. CASE lanes[l].pass < Passes
  <2>1. Becomes(l, "barrier", "put", lanes[l].pass + 1, lanes[l].s, lanes[l].reg, reads, lanes[l].out,
                lanes[l].bar + 1)
    <3>1. SetPass(got, got.pass + 1) = SetPass(got, lanes[l].pass + 1)
      BY <1>6
    <3>2. SetPass(got, lanes[l].pass + 1) = LaneOf(lanes[l].pc, lanes[l].next,
                                                           lanes[l].pass + 1, lanes[l].s, lanes[l].reg,
                                                           reads, lanes[l].out, lanes[l].bar)
      BY <1>4, LaneOfSet
    <3>3. AtBarrier(SetPass(got, got.pass + 1), "put") = LaneOf("barrier", "put", lanes[l].pass + 1,
                                                                 lanes[l].s, lanes[l].reg, reads,
                                                                 lanes[l].out, lanes[l].bar + 1)
      BY <3>1, <3>2, ArrivalIs
    <3> QED
      BY <1>5, <1>6, <1>9, <3>3 DEF Becomes
  <2>2. /\ Moves(l)
      /\ lanes'[l].pc = "barrier" /\ lanes'[l].next = "put" /\ lanes'[l].pass = lanes[l].pass + 1
      /\ lanes'[l].s = lanes[l].s
      /\ lanes'[l].reg = lanes[l].reg /\ lanes'[l].read = reads /\ lanes'[l].out = lanes[l].out
      /\ lanes'[l].bar = lanes[l].bar + 1
    BY <1>1, <2>1, OneLane
  <2>3. Place(l)' = "put"
    BY <2>2 DEF Place
  <2>4. LockStep'
    <3>1. Phase(l)' = NextPhase(Phase(l))
      BY <1>2, <1>7, <1>9, <2>2, <2>3 DEF Phase, NextPhase
    <3> QED
      BY <1>1, <1>2, <2>2, <3>1, LaneArrives DEF Moves
  <2>5. LaneInv(l)'
    <3>1. LaneType(l)'
      BY <1>1, <1>2, <1>3, <1>9, <2>2 DEF LaneInv, LaneType, Passes, PlaceNames, Moves
    <3>2. LaneAt(l)'
      BY <1>1, <1>2, <2>2, <2>3 DEF LaneAt
    <3>3. CellOf(l)'
      <4>1. (lanes[l].pass + 1) - 1 = lanes[l].pass
        BY <1>3
      <4> QED
        BY <1>2, <2>2, <2>3, <4>1 DEF CellOf
    <3>4. LaneHas(l)'
      <4>1. (lanes[l].pass + 1) - 1 = lanes[l].pass
        BY <1>3
      <4> QED
        BY <1>2, <1>8, <2>2, <4>1 DEF LaneHas
    <3> QED
      BY <3>1, <3>2, <3>3, <3>4 DEF LaneInv
  <2> QED
    BY <1>1, <1>2, <2>2, <2>4, <2>5, StepKeeps
<1>10. CASE ~ (lanes[l].pass < Passes)
  <2>1. Becomes(l, "done", lanes[l].next, lanes[l].pass, lanes[l].s, lanes[l].reg, reads, lanes[l].out,
                lanes[l].bar)
    <3>1. SetPc(got, "done") = LaneOf("done", lanes[l].next, lanes[l].pass, lanes[l].s,
                                              lanes[l].reg, reads, lanes[l].out, lanes[l].bar)
      BY <1>4, LaneOfSet
    <3> QED
      BY <1>5, <1>6, <1>10, <3>1 DEF Becomes
  <2>2. /\ Moves(l)
      /\ lanes'[l].pc = "done" /\ lanes'[l].next = lanes[l].next /\ lanes'[l].pass = lanes[l].pass
      /\ lanes'[l].s = lanes[l].s
      /\ lanes'[l].reg = lanes[l].reg /\ lanes'[l].read = reads /\ lanes'[l].out = lanes[l].out
      /\ lanes'[l].bar = lanes[l].bar
    BY <1>1, <2>1, OneLane
  <2>3. Place(l)' = "reduce"
    BY <1>2, <2>2 DEF Place
  <2>4. LockStep'
    <3>1. Phase(l)' = Phase(l)
      BY <1>7, <2>2, <2>3 DEF Phase
    <3>2. \A o \in Lane : lanes[l].bar <= lanes[o].bar
      BY <1>2, InvFacts
    <3> QED
      BY <1>1, <1>2, <2>2, <3>1, <3>2, LaneStays DEF Moves
  <2>5. LaneInv(l)'
    <3>1. LaneType(l)'
      BY <1>1, <1>2, <2>2 DEF LaneInv, LaneType, Passes, PlaceNames, Moves
    <3>2. LaneAt(l)'
      <4>1. lanes[l].pass = Passes
        BY <1>3, <1>10
      <4> QED
        BY <1>2, <2>2, <2>3, <4>1 DEF LaneAt, Passes
    <3>3. CellOf(l)'
      BY <1>1, <1>2, <1>7, <2>2, <2>3 DEF LaneInv, CellOf
    <3>4. LaneHas(l)'
      BY <1>2, <1>8, <2>2 DEF LaneHas
    <3> QED
      BY <3>1, <3>2, <3>3, <3>4 DEF LaneInv
  <2> QED
    BY <1>1, <1>2, <2>2, <2>4, <2>5, StepKeeps
<1> QED
  BY <1>9, <1>10

LEMMA StartAttentionKeeps == ASSUME RedInv, NEW l \in Lane, StartAttention(l) PROVE RedInv'
<1>1. /\ RedShape /\ LockStep /\ LaneInv(l) /\ (\A o \in Lane : lanes[o].bar \in Nat)
      /\ l \in Nat /\ l < WGSIZE /\ 0 \in Lane /\ partial = [o \in Lane |-> partial[o]]
      /\ lanes[l].pass \in 1 .. Passes /\ lanes[l].s \in Nat /\ lanes[l].s \in Strides
      /\ Fielded(lanes[l])
  BY InvFacts DEF LaneInv, LaneType
<1>2. /\ lanes[l].pc = "start" /\ kernel' = kernel /\ partial' = partial
      /\ sh' = IF l = 0 THEN NoKeys ELSE sh
      /\ Place(l) = "start" /\ kernel = "attention" /\ lanes[l].pass = 1 /\ lanes[l].s = 0
  BY <1>1 DEF StartAttention, AtPc, LaneInv, LaneAt, Place
<1>3. Becomes(l, "barrier", "put", lanes[l].pass, lanes[l].s, lanes[l].reg, lanes[l].read,
              lanes[l].out, lanes[l].bar + 1)
  <2>1. lanes' = [lanes EXCEPT ![l] = AtBarrier(lanes[l], "put")]
    BY DEF StartAttention, SetLane
  <2>2. AtBarrier(lanes[l], "put") = LaneOf("barrier", "put", lanes[l].pass, lanes[l].s, lanes[l].reg,
                                            lanes[l].read, lanes[l].out, lanes[l].bar + 1)
    BY <1>1, ArrivalIs DEF Fielded
  <2> QED
    BY <2>1, <2>2 DEF Becomes
<1>4. /\ Moves(l)
      /\ lanes'[l].pc = "barrier" /\ lanes'[l].next = "put" /\ lanes'[l].pass = lanes[l].pass
      /\ lanes'[l].s = lanes[l].s
      /\ lanes'[l].reg = lanes[l].reg /\ lanes'[l].read = lanes[l].read /\ lanes'[l].out = lanes[l].out
      /\ lanes'[l].bar = lanes[l].bar + 1
  BY <1>1, <1>3, OneLane
<1>5. Place(l)' = "put"
  BY <1>4 DEF Place
<1>6. LockStep'
  <2>1. Phase(l)' = NextPhase(Phase(l))
    BY <1>1, <1>2, <1>4, <1>5 DEF Phase, NextPhase
  <2> QED
    BY <1>1, <1>2, <1>4, <2>1, LaneArrives DEF Moves
<1>7. LaneInv(l)'
  <2>1. LaneType(l)'
    BY <1>1, <1>2, <1>4 DEF LaneInv, LaneType, Passes, PlaceNames, Moves
  <2>2. LaneAt(l)'
    BY <1>1, <1>2, <1>4, <1>5 DEF LaneInv, LaneAt, Passes
  <2>3. CellOf(l)'
    BY <1>2, <1>4, <1>5 DEF CellOf
  <2>4. LaneHas(l)'
    BY <1>1, <1>2, <1>4, <1>5 DEF LaneInv, LaneHas, Added
  <2> QED
    BY <2>1, <2>2, <2>3, <2>4 DEF LaneInv
<1>8. kernel' = "attention" => sh' = ShAt(Scored)'
  <2>1. CASE l = 0
    <3>1. Scored' = 0
      BY <1>2, <1>4, <1>5, <2>1 DEF Scored
    <3> QED
      BY <1>2, <2>1, <3>1 DEF ShAt, NoKeys
  <2>2. CASE l # 0
    BY <1>1, <1>2, <1>4, <2>2, InvFacts, ScoreKept
  <2> QED
    BY <2>1, <2>2
<1>9. partial' = [o \in Lane |-> partial'[o]] /\ \A o \in Lane : o # l => partial'[o] = partial[o]
  BY <1>1, <1>2
<1> QED
  BY <1>1, <1>2, <1>4, <1>6, <1>7, <1>8, <1>9, StepKeeps

LEMMA SoftmaxKeeps == ASSUME RedInv, NEW l \in Lane, Softmax(l) PROVE RedInv'
<1>1. /\ RedShape /\ LockStep /\ LaneInv(l) /\ (\A o \in Lane : lanes[o].bar \in Nat)
      /\ l \in Nat /\ l < WGSIZE /\ 0 \in Lane /\ partial = [o \in Lane |-> partial[o]]
      /\ lanes[l].pass \in 1 .. Passes /\ lanes[l].s \in Nat /\ lanes[l].s \in Strides
      /\ Fielded(lanes[l])
  BY InvFacts DEF LaneInv, LaneType
<1>2. /\ lanes[l].pc = "reduce" /\ kernel' = kernel /\ partial' = partial
      /\ kernel = "attention" /\ lanes[l].s = 0 /\ Place(l) = "reduce"
      /\ l # 0 => sh' = sh
  BY DEF Softmax, AtPc, Place
<1>3. Becomes(l, "barrier", "accumulate", lanes[l].pass, lanes[l].s, lanes[l].reg, lanes[l].read,
              lanes[l].out, lanes[l].bar + 1)
  <2>1. lanes' = [lanes EXCEPT ![l] = AtBarrier(lanes[l], "accumulate")]
    BY DEF Softmax, SetLane
  <2>2. AtBarrier(lanes[l], "accumulate") = LaneOf("barrier", "accumulate", lanes[l].pass, lanes[l].s,
                                                   lanes[l].reg, lanes[l].read, lanes[l].out,
                                                   lanes[l].bar + 1)
    BY <1>1, ArrivalIs DEF Fielded
  <2> QED
    BY <2>1, <2>2 DEF Becomes
<1>4. /\ Moves(l)
      /\ lanes'[l].pc = "barrier" /\ lanes'[l].next = "accumulate" /\ lanes'[l].pass = lanes[l].pass
      /\ lanes'[l].s = lanes[l].s
      /\ lanes'[l].reg = lanes[l].reg /\ lanes'[l].read = lanes[l].read /\ lanes'[l].out = lanes[l].out
      /\ lanes'[l].bar = lanes[l].bar + 1
  BY <1>1, <1>3, OneLane
<1>5. Place(l)' = "accumulate"
  BY <1>4 DEF Place
<1>6. LockStep'
  <2>1. Phase(l)' = NextPhase(Phase(l))
    BY <1>1, <1>2, <1>4, <1>5 DEF Phase, NextPhase
  <2> QED
    BY <1>1, <1>2, <1>4, <2>1, LaneArrives DEF Moves
<1>7. LaneInv(l)'
  <2>1. LaneType(l)'
    BY <1>1, <1>2, <1>4 DEF LaneInv, LaneType, Passes, PlaceNames, Moves
  <2>2. LaneAt(l)'
    BY <1>1, <1>2, <1>4, <1>5 DEF LaneInv, LaneAt, Passes
  <2>3. CellOf(l)'
    BY <1>2, <1>4, <1>5 DEF CellOf
  <2>4. LaneHas(l)'
    BY <1>1, <1>2, <1>4, <1>5 DEF LaneInv, LaneHas, Added
  <2> QED
    BY <2>1, <2>2, <2>3, <2>4 DEF LaneInv
<1>8. kernel' = "attention" => sh' = ShAt(Scored)'
  <2>1. CASE l = 0
    <3> DEFINE n == lanes[0].pass
    <3>1. n \in Nat \ {0} /\ sh = ShAt(n - 1)
      <4>1. n \in Nat \ {0}
        BY <1>1, <2>1
      <4>2. Scored = n - 1
        BY <1>2, <2>1 DEF Scored
      <4> QED
        BY <1>2, <4>1, <4>2, InvFacts
    <3>2. sh.m = 1 .. n - 1 /\ sh.l = 1 .. n - 1
      <4>1. CASE n = 1
        BY <3>1, <4>1 DEF ShAt, NoKeys
      <4>2. CASE n # 1
        <5>1. n - 1 # 0
          BY <3>1, <4>2
        <5> QED
          BY <3>1, <5>1 DEF ShAt
      <4> QED
        BY <4>1, <4>2
    <3>3. (1 .. n - 1) \cup {n} = 1 .. n
      BY <3>1
    <3>4. partial[0] = FullSum(n)
      <4>1. partial[0] = Part(n, 0, 1)
        BY <1>1, <1>2, <2>1 DEF LaneInv, CellOf, Width
      <4> QED
        BY <4>1, PartsAre
    <3>5. sh' = [m |-> 1 .. n, l |-> 1 .. n, p |-> <<FullSum(n), 1 .. n>>, corr |-> <<1 .. n - 1, 1 .. n>>]
      <4>1. sh' = [m |-> sh.m \cup {n}, l |-> sh.l \cup {n}, p |-> <<partial[0], sh.m \cup {n}>>, corr |-> <<sh.m, sh.m \cup {n}>>]
        BY <2>1 DEF Softmax
      <4> QED
        BY <3>2, <3>3, <3>4, <4>1
    <3>6. Scored' = n /\ n # 0
      BY <1>4, <1>5, <2>1, <3>1 DEF Scored
    <3>7. ShAt(n) = [m |-> 1 .. n, l |-> 1 .. n, p |-> <<FullSum(n), 1 .. n>>, corr |-> <<1 .. n - 1, 1 .. n>>]
      BY <3>6 DEF ShAt
    <3>8. ShAt(Scored)' = ShAt(n)
      BY <3>6 DEF ShAt
    <3> QED
      BY <3>5, <3>7, <3>8
  <2>2. CASE l # 0
    BY <1>1, <1>2, <1>4, <2>2, InvFacts, ScoreKept
  <2> QED
    BY <2>1, <2>2
<1>9. partial' = [o \in Lane |-> partial'[o]] /\ \A o \in Lane : o # l => partial'[o] = partial[o]
  BY <1>1, <1>2
<1> QED
  BY <1>1, <1>2, <1>4, <1>6, <1>7, <1>8, <1>9, StepKeeps

\* What lane 0 left in sh_* stays until every lane has used it.
LEMMA SharedIs ==
    ASSUME RedInv, NEW l \in Lane, lanes[l].pc \in {"accumulate", "divide"}
    PROVE  /\ kernel = "attention" /\ lanes[l].pass \in Nat \ {0}
           /\ sh = [m |-> 1 .. lanes[l].pass, l |-> 1 .. lanes[l].pass,
                    p |-> <<FullSum(lanes[l].pass), 1 .. lanes[l].pass>>,
                    corr |-> <<1 .. lanes[l].pass - 1, 1 .. lanes[l].pass>>]
<1> DEFINE n == lanes[l].pass
<1>1. 0 \in Lane /\ n \in Nat \ {0} /\ Place(0) \in PlaceNames /\ LaneAt(l) /\ Place(l) = lanes[l].pc
  BY InvFacts, PlaceIsName DEF LaneInv, Place
<1>2. kernel = "attention" /\ lanes[l].s = 0
  BY <1>1 DEF LaneAt
<1>3. Phase(l) = <<lanes[l].pc, n, 0>>
  BY <1>1, <1>2 DEF Phase
<1>4. Scored = n
  <2>1. CASE Phase(0) = Phase(l)
    BY <1>3, <2>1 DEF Phase, Scored
  <2>2. CASE Phase(0) = NextPhase(Phase(l))
    <3>1. \/ NextPhase(Phase(l)) = <<"put", n + 1, 0>>
          \/ NextPhase(Phase(l)) = <<"divide", n, 0>>
          \/ NextPhase(Phase(l)) = <<"over", n, 0>>
      <4>1. CASE lanes[l].pc = "divide"
        BY <1>3, <4>1 DEF NextPhase
      <4>2. CASE lanes[l].pc = "accumulate" /\ n < Passes
        BY <1>3, <4>2 DEF NextPhase
      <4>3. CASE lanes[l].pc = "accumulate" /\ ~ (n < Passes)
        <5>1. n >= Passes
          BY <1>1, <1>2, <4>3, ReduceAssumption DEF Passes
        <5> QED
          BY <1>3, <4>3, <5>1 DEF NextPhase
      <4> QED
        BY <4>1, <4>2, <4>3
    <3> QED
      BY <1>1, <2>2, <3>1 DEF Phase, Scored, PlaceNames
  <2> QED
    BY <1>1, <2>1, <2>2, InStep
<1>5. sh = ShAt(n) /\ n # 0
  BY <1>1, <1>2, <1>4, InvFacts
<1> QED
  BY <1>1, <1>2, <1>5 DEF ShAt

LEMMA AccumulateKeeps == ASSUME RedInv, NEW l \in Lane, Accumulate(l) PROVE RedInv'
<1>1. /\ RedShape /\ LockStep /\ LaneInv(l) /\ (\A o \in Lane : lanes[o].bar \in Nat)
      /\ l \in Nat /\ l < WGSIZE /\ 0 \in Lane /\ partial = [o \in Lane |-> partial[o]]
      /\ lanes[l].pass \in 1 .. Passes /\ lanes[l].s \in Nat /\ lanes[l].s \in Strides
      /\ Fielded(lanes[l])
  BY InvFacts DEF LaneInv, LaneType
<1> DEFINE n == lanes[l].pass
           added == [keys |-> 1 .. n, rel |-> 1 .. n]
           new == SetOut(lanes[l], added)
<1>2. /\ lanes[l].pc = "accumulate" /\ kernel' = kernel /\ sh' = sh /\ partial' = partial
      /\ Place(l) = "accumulate" /\ lanes[l].s = 0
  BY <1>1 DEF Accumulate, AtPc, Place, LaneInv, LaneAt
<1>3. /\ kernel = "attention" /\ n \in Nat \ {0} /\ Passes = PASSES /\ Passes \in Nat /\ n <= Passes
      /\ sh.corr[1] = 1 .. n - 1 /\ sh.corr[2] = 1 .. n /\ sh.p = <<FullSum(n), 1 .. n>>
  BY <1>1, <1>2, SharedIs, ReduceAssumption DEF Passes
<1>4. lanes[l].out = [keys |-> 1 .. n - 1, rel |-> 1 .. n - 1]
  BY <1>1, <1>2, <1>3 DEF LaneInv, LaneHas, Added
<1>5. lanes' = [lanes EXCEPT ![l] = IF n < Passes THEN AtBarrier(SetPass(new, new.pass + 1), "put")
                                    ELSE AtBarrier(new, "divide")]
  <2> DEFINE o == lanes[l].out
             ok == o.rel = sh.corr[1] /\ sh.p = <<FullSum(n), sh.corr[2]>>
             outs == [keys |-> IF ok THEN o.keys \cup {n} ELSE {0}, rel |-> sh.corr[2]]
  <2>1. outs = added
    <3>1. (1 .. n - 1) \cup {n} = 1 .. n
      BY <1>3
    <3>2. o.rel = 1 .. n - 1 /\ o.keys = 1 .. n - 1
      BY <1>4
    <3>3. ok
      BY <1>3, <3>2
    <3> QED
      BY <1>3, <3>1, <3>2, <3>3
  <2>2. lanes' = [lanes EXCEPT ![l] = IF n < Passes THEN AtBarrier(SetPass(SetOut(lanes[l], outs), SetOut(lanes[l], outs).pass + 1), "put")
                                      ELSE AtBarrier(SetOut(lanes[l], outs), "divide")]
    BY DEF Accumulate, SetLane, SetPass, SetOut
  <2> HIDE DEF outs, added
  <2> QED
    BY <2>1, <2>2
<1> HIDE DEF added
<1>6. new = LaneOf(lanes[l].pc, lanes[l].next, lanes[l].pass, lanes[l].s, lanes[l].reg, lanes[l].read,
                  added, lanes[l].bar)
  BY <1>1, FieldSet
<1> HIDE DEF new
<1>7. new.pass = n
  BY <1>6 DEF LaneOf
<1>8. CASE n < Passes
  <2>1. Becomes(l, "barrier", "put", n + 1, lanes[l].s, lanes[l].reg, lanes[l].read, added,
                lanes[l].bar + 1)
    <3>1. SetPass(new, new.pass + 1) = SetPass(new, n + 1)
      BY <1>7
    <3>2. SetPass(new, n + 1) = LaneOf(lanes[l].pc, lanes[l].next, n + 1, lanes[l].s,
                                              lanes[l].reg, lanes[l].read, added, lanes[l].bar)
      BY <1>6, LaneOfSet
    <3>3. AtBarrier(SetPass(new, new.pass + 1), "put") = LaneOf("barrier", "put", n + 1, lanes[l].s,
                                                                lanes[l].reg, lanes[l].read, added,
                                                                lanes[l].bar + 1)
      BY <3>1, <3>2, ArrivalIs
    <3> QED
      BY <1>5, <1>8, <3>3 DEF Becomes
  <2>2. /\ Moves(l)
      /\ lanes'[l].pc = "barrier" /\ lanes'[l].next = "put" /\ lanes'[l].pass = n + 1
      /\ lanes'[l].s = lanes[l].s
      /\ lanes'[l].reg = lanes[l].reg /\ lanes'[l].read = lanes[l].read /\ lanes'[l].out = added
      /\ lanes'[l].bar = lanes[l].bar + 1
    BY <1>1, <2>1, OneLane
  <2>3. Place(l)' = "put"
    BY <2>2 DEF Place
  <2>4. LockStep'
    <3>1. Phase(l)' = NextPhase(Phase(l))
      <4>1. n < Passes
        BY <1>3, <1>8
      <4>2. Phase(l) = <<"accumulate", n, 0>> /\ Phase(l)' = <<"put", n + 1, 0>>
        BY <1>2, <2>2, <2>3 DEF Phase
      <4> QED
        BY <1>3, <4>1, <4>2 DEF NextPhase
    <3> QED
      BY <1>1, <1>2, <2>2, <3>1, LaneArrives DEF Moves
  <2>5. LaneInv(l)'
    <3>1. LaneType(l)'
      BY <1>1, <1>2, <1>3, <1>8, <2>2 DEF LaneInv, LaneType, Passes, PlaceNames, Moves
    <3>2. LaneAt(l)'
      BY <1>2, <1>3, <1>8, <2>2, <2>3 DEF LaneAt, Passes
    <3>3. CellOf(l)'
      BY <1>2, <1>3, <2>2, <2>3 DEF CellOf
    <3>4. LaneHas(l)'
      <4>1. Added(l)' = n
        BY <1>3, <2>2, <2>3 DEF Added
      <4> QED
        BY <1>2, <1>3, <2>2, <4>1 DEF LaneHas, added
    <3> QED
      BY <3>1, <3>2, <3>3, <3>4 DEF LaneInv
  <2>6. kernel' = "attention" => sh' = ShAt(Scored)'
    <3>1. l = 0 => Scored' = Scored
      BY <1>2, <1>3, <2>2, <2>3 DEF Scored
    <3> QED
      BY <1>1, <1>2, <2>2, <3>1, InvFacts, ScoreKept
  <2> QED
    BY <1>1, <1>2, <2>2, <2>4, <2>5, <2>6, StepKeeps
<1>9. CASE ~ (n < Passes)
  <2>1. Becomes(l, "barrier", "divide", n, lanes[l].s, lanes[l].reg, lanes[l].read, added, lanes[l].bar + 1)
    <3>1. AtBarrier(new, "divide") = LaneOf("barrier", "divide", n, lanes[l].s, lanes[l].reg,
                                           lanes[l].read, added, lanes[l].bar + 1)
      BY <1>6, ArrivalIs
    <3> QED
      BY <1>5, <1>9, <3>1 DEF Becomes
  <2>2. /\ Moves(l)
      /\ lanes'[l].pc = "barrier" /\ lanes'[l].next = "divide" /\ lanes'[l].pass = n
      /\ lanes'[l].s = lanes[l].s
      /\ lanes'[l].reg = lanes[l].reg /\ lanes'[l].read = lanes[l].read /\ lanes'[l].out = added
      /\ lanes'[l].bar = lanes[l].bar + 1
    BY <1>1, <2>1, OneLane
  <2>3. Place(l)' = "divide"
    BY <2>2 DEF Place
  <2>4. LockStep'
    <3>1. Phase(l)' = NextPhase(Phase(l))
      <4>1. n >= Passes /\ ~ (n < Passes)
        BY <1>3, <1>9
      <4>2. Phase(l) = <<"accumulate", n, 0>> /\ Phase(l)' = <<"divide", n, 0>>
        BY <1>2, <2>2, <2>3 DEF Phase
      <4> QED
        BY <1>3, <4>1, <4>2 DEF NextPhase
    <3> QED
      BY <1>1, <1>2, <2>2, <3>1, LaneArrives DEF Moves
  <2>5. LaneInv(l)'
    <3>1. LaneType(l)'
      BY <1>1, <1>2, <1>3, <1>9, <2>2 DEF LaneInv, LaneType, Passes, PlaceNames, Moves
    <3>2. LaneAt(l)'
      BY <1>2, <1>3, <1>9, <2>2, <2>3 DEF LaneAt, Passes
    <3>3. CellOf(l)'
      BY <1>2, <1>3, <2>2, <2>3 DEF CellOf
    <3>4. LaneHas(l)'
      <4>1. Added(l)' = n
        BY <1>3, <2>2, <2>3 DEF Added
      <4> QED
        BY <1>2, <1>3, <2>2, <4>1 DEF LaneHas, added
    <3> QED
      BY <3>1, <3>2, <3>3, <3>4 DEF LaneInv
  <2>6. kernel' = "attention" => sh' = ShAt(Scored)'
    <3>1. l = 0 => Scored' = Scored
      BY <1>2, <1>3, <2>2, <2>3 DEF Scored
    <3> QED
      BY <1>1, <1>2, <2>2, <3>1, InvFacts, ScoreKept
  <2> QED
    BY <1>1, <1>2, <2>2, <2>4, <2>5, <2>6, StepKeeps
<1> QED
  BY <1>8, <1>9

LEMMA DivideKeeps == ASSUME RedInv, NEW l \in Lane, Divide(l) PROVE RedInv'
<1>1. /\ RedShape /\ LockStep /\ LaneInv(l) /\ (\A o \in Lane : lanes[o].bar \in Nat)
      /\ l \in Nat /\ l < WGSIZE /\ 0 \in Lane /\ partial = [o \in Lane |-> partial[o]]
      /\ lanes[l].pass \in 1 .. Passes /\ lanes[l].s \in Nat /\ lanes[l].s \in Strides
      /\ Fielded(lanes[l])
  BY InvFacts DEF LaneInv, LaneType
<1>2. /\ lanes[l].pc = "divide" /\ kernel' = kernel /\ sh' = sh /\ partial' = partial
      /\ Place(l) = "divide" /\ lanes[l].s = 0 /\ lanes[l].pass = Passes
      /\ kernel = "attention" /\ Passes = PASSES /\ sh.l = 1 .. PASSES
  <2>1. /\ lanes[l].pc = "divide" /\ kernel' = kernel /\ sh' = sh /\ partial' = partial
        /\ Place(l) = "divide" /\ lanes[l].s = 0 /\ lanes[l].pass = Passes
    BY <1>1 DEF Divide, AtPc, Place, LaneInv, LaneAt
  <2>2. kernel = "attention" /\ sh.l = 1 .. lanes[l].pass
    BY <2>1, SharedIs
  <2> QED
    BY <2>1, <2>2 DEF Passes
<1>3. Becomes(l, "done", lanes[l].next, lanes[l].pass, lanes[l].s, lanes[l].reg, <<sh.l>>,
              lanes[l].out, lanes[l].bar)
  <2> DEFINE ln == SetPc(lanes[l], "done")
             x == <<sh.l>>
  <2>1. lanes' = [lanes EXCEPT ![l] = SetRead(ln, x)]
    BY DEF Divide, SetLane, SetPc, SetRead
  <2>2. ln = LaneOf("done", lanes[l].next, lanes[l].pass, lanes[l].s, lanes[l].reg, lanes[l].read,
                    lanes[l].out, lanes[l].bar)
    BY <1>1, FieldSet
  <2> HIDE DEF ln, x
  <2>3. SetRead(ln, x) = LaneOf("done", lanes[l].next, lanes[l].pass, lanes[l].s, lanes[l].reg,
                                        x, lanes[l].out, lanes[l].bar)
    BY <2>2, LaneOfSet
  <2> QED
    BY <2>1, <2>3 DEF Becomes, x
<1>4. /\ Moves(l)
      /\ lanes'[l].pc = "done" /\ lanes'[l].next = lanes[l].next /\ lanes'[l].pass = lanes[l].pass
      /\ lanes'[l].s = lanes[l].s
      /\ lanes'[l].reg = lanes[l].reg /\ lanes'[l].read = <<sh.l>> /\ lanes'[l].out = lanes[l].out
      /\ lanes'[l].bar = lanes[l].bar
  BY <1>1, <1>3, OneLane
<1>5. Place(l) = "divide" /\ Place(l)' = "divide"
  BY <1>2, <1>4 DEF Place
<1>6. LockStep'
  <2>1. Phase(l)' = Phase(l)
    BY <1>4, <1>5 DEF Phase
  <2>2. \A o \in Lane : lanes[l].bar <= lanes[o].bar
    BY <1>2, InvFacts
  <2> QED
    BY <1>1, <1>2, <1>4, <2>1, <2>2, LaneStays DEF Moves
<1>7. LaneInv(l)'
  <2>1. LaneType(l)'
    BY <1>1, <1>2, <1>4 DEF LaneInv, LaneType, Passes, PlaceNames, Moves
  <2>2. LaneAt(l)'
    BY <1>1, <1>2, <1>4, <1>5 DEF LaneInv, LaneAt, Passes
  <2>3. CellOf(l)'
    BY <1>2, <1>4, <1>5 DEF CellOf
  <2>4. LaneHas(l)'
    BY <1>1, <1>2, <1>4, <1>5 DEF LaneInv, LaneHas, Added
  <2> QED
    BY <2>1, <2>2, <2>3, <2>4 DEF LaneInv
<1>8. kernel' = "attention" => sh' = ShAt(Scored)'
  <2>1. l = 0 => Scored' = Scored
    BY <1>2, <1>4, <1>5 DEF Scored
  <2> QED
    BY <1>1, <1>2, <1>4, <2>1, InvFacts, ScoreKept
<1>9. partial' = [o \in Lane |-> partial'[o]] /\ \A o \in Lane : o # l => partial'[o] = partial[o]
  BY <1>1, <1>2
<1> QED
  BY <1>1, <1>2, <1>4, <1>6, <1>7, <1>8, <1>9, StepKeeps

LEMMA RedInvInit == RedInit => RedInv
<1> SUFFICES ASSUME RedInit PROVE RedInv
  OBVIOUS
<1>1. /\ kernel \in Kernels /\ partial = [l \in Lane |-> EmptyBag] /\ sh = NoKeys
      /\ \A l \in Lane : lanes[l] = LaneOf(IF kernel = "attention" THEN "start" ELSE "put", "put", 1, 0, EmptyBag,
                                           <<>>, [keys |-> {}, rel |-> {}], 0)
      /\ lanes = [l \in Lane |-> lanes[l]]
  BY DEF RedInit, LaneOf
<1>2. \A l \in Lane : /\ lanes[l].pc = IF kernel = "attention" THEN "start" ELSE "put"
                      /\ lanes[l].next = "put" /\ lanes[l].pass = 1 /\ lanes[l].s = 0
                      /\ lanes[l].reg = EmptyBag /\ lanes[l].read = <<>>
                      /\ lanes[l].out = [keys |-> {}, rel |-> {}] /\ lanes[l].bar = 0
  <2> TAKE l \in Lane
  <2>1. lanes[l] = LaneOf(IF kernel = "attention" THEN "start" ELSE "put", "put", 1, 0, EmptyBag,
                          <<>>, [keys |-> {}, rel |-> {}], 0)
    BY <1>1
  <2> QED
    BY <2>1 DEF LaneOf
<1>3. \A l \in Lane : Place(l) = lanes[l].pc
  BY <1>2 DEF Place
<1>4. 1 \in 1 .. Passes /\ 0 \in Strides /\ 0 \in Lane
  BY ReduceAssumption, StridesAre DEF Passes, Lane
<1>5. LockStep
  BY <1>2, <1>3 DEF LockStep, Phase
<1>6. \A l \in Lane : LaneInv(l)
  <2> TAKE l \in Lane
  <2>1. LaneType(l)
    <3>1. Fielded(lanes[l])
      BY <1>1, <1>2 DEF Fielded
    <3> QED
      BY <1>2, <1>4, <3>1 DEF LaneType, PlaceNames
  <2>2. LaneAt(l)
    BY <1>2, <1>3 DEF LaneAt
  <2>3. CellOf(l)
    BY <1>2, <1>3 DEF CellOf
  <2>4. LaneHas(l)
    <3>1. <<>> = SumsUpTo(0)
      BY DEF SumsUpTo
    <3>2. 1 - 1 = 0 /\ 1 .. 0 = {}
      OBVIOUS
    <3> QED
      BY <1>2, <1>3, <3>1, <3>2 DEF LaneHas, Added
  <2> QED
    BY <2>1, <2>2, <2>3, <2>4 DEF LaneInv
<1>7. kernel = "attention" => sh = ShAt(Scored)
  BY <1>1, <1>2, <1>3, <1>4 DEF Scored, ShAt
<1>8. RedShape
  BY <1>1 DEF RedShape
<1> QED
  BY <1>5, <1>6, <1>7, <1>8 DEF RedInv

LEMMA RedInvExact == RedInv => ReductionsExact
<1> SUFFICES ASSUME RedInv, NEW l \in Lane
             PROVE  IF kernel # "attention" THEN \A p \in DOMAIN lanes[l].read : lanes[l].read[p] = FullSum(p)
                    ELSE AtPc(l, "done") => /\ lanes[l].out = [keys |-> 1 .. PASSES, rel |-> 1 .. PASSES]
                                            /\ lanes[l].read = <<1 .. PASSES>>
  BY DEF ReductionsExact
<1>1. LaneHas(l) /\ LaneAt(l)
  BY InvFacts DEF LaneInv
<1>2. CASE kernel # "attention"
  BY <1>1, <1>2 DEF LaneHas, SumsUpTo
<1>3. CASE kernel = "attention"
  <2> SUFFICES ASSUME lanes[l].pc = "done"
               PROVE  lanes[l].out = [keys |-> 1 .. PASSES, rel |-> 1 .. PASSES] /\ lanes[l].read = <<1 .. PASSES>>
    BY <1>3 DEF AtPc
  <2>1. Place(l) = "divide" /\ lanes[l].pass = PASSES
    BY <1>1, <1>3 DEF Place, LaneAt, Passes
  <2>2. Added(l) = PASSES
    BY <2>1 DEF Added
  <2> QED
    BY <1>1, <1>3, <2>2 DEF LaneHas
<1> QED
  BY <1>2, <1>3

\* For any workgroup of a power of two lanes, any number of passes over the row and any number of
\* keys: whatever the pace of the lanes between the barriers, no sum has lost an addend, taken one
\* twice or mixed two passes, and the running softmax is one over all keys.
THEOREM SumsAreExact == RedSpec => []ReductionsExact
<1>1. RedInv /\ [RedNext]_redVars => RedInv'
  <2> SUFFICES ASSUME RedInv, [RedNext]_redVars PROVE RedInv'
    OBVIOUS
  <2>1. CASE RedNext
    BY <2>1, PassBarrierKeeps, StorePartialKeeps, LoadAddendKeeps, AddKeeps, SkipAddKeeps, ReadSumKeeps,
       StartAttentionKeeps, SoftmaxKeeps, AccumulateKeeps, DivideKeeps DEF RedNext
  <2>2. CASE UNCHANGED redVars
    <3>1. kernel' = kernel /\ partial' = partial /\ sh' = sh /\ lanes' = lanes
      BY <2>2 DEF redVars
    <3>2. \A l \in Lane : LaneInv(l)'
      BY <3>1, OthersKeepTheirs DEF RedInv
    <3>3. LockStep'
      <4>1. \A o \in Lane : Phase(o)' = Phase(o)
        BY <3>1 DEF Phase, Place
      <4>2. \A o \in Lane : NextPhase(Phase(o))' = NextPhase(Phase(o))
        BY <3>1, <4>1 DEF NextPhase, Passes
      <4> QED
        BY <3>1, <4>1, <4>2 DEF RedInv, LockStep
    <3>4. RedShape'
      BY <3>1 DEF RedInv, RedShape
    <3>5. kernel' = "attention" => sh' = ShAt(Scored)'
      BY <3>1 DEF RedInv, Scored, Place, ShAt
    <3> QED
      BY <3>2, <3>3, <3>4, <3>5 DEF RedInv
  <2> QED
    BY <2>1, <2>2
<1> QED
  BY <1>1, RedInvInit, RedInvExact, PTL DEF RedSpec

-----------------------------------------------------------------------------
(* BufferPool. The pool knows its bytes and owns what it holds, for any    *)
(* set of buffers of any sizes.                                            *)

PoolTypes ==
    /\ free \in [BufSizes -> Seq(Buffers \X Nat)]
    /\ poolBytes \in Int
    /\ inUse \subseteq Buffers
    /\ releasing \in Buffers \cup {NoBuffer}
    /\ poolClock \in Nat

BufAt(n, i) == free[n][i][1]

\* Each entry is in the bucket of its size, no buffer has two, and none is in use or being released.
OneEach ==
    /\ \A n \in BufSizes : \A i \in DOMAIN free[n] :
          SizeOfBuf[BufAt(n, i)] = n /\ BufAt(n, i) \notin inUse /\ BufAt(n, i) # releasing
    /\ \A n \in BufSizes : \A i, j \in DOMAIN free[n] : BufAt(n, i) = BufAt(n, j) => i = j
    /\ releasing \notin inUse

PoolInv ==
    /\ PoolTypes
    /\ OneEach
    /\ poolBytes = SumFunctionOnSet(SizeOfBuf, Pooled) /\ poolBytes <= CAPACITY

LEMMA PooledIsFinite == Pooled \subseteq Buffers /\ IsFiniteSet(Pooled) /\ \A b \in Pooled : SizeOfBuf[b] \in Int
<1>1. Pooled \subseteq Buffers
  BY DEF Pooled
<1>2. IsFiniteSet(Pooled)
  BY <1>1, PoolAssumption, FS_Subset
<1>3. \A b \in Pooled : SizeOfBuf[b] \in Int
  BY <1>1, PoolAssumption
<1> QED
  BY <1>1, <1>2, <1>3

LEMMA PoolInvInit == PoolInit => PoolInv
<1> SUFFICES ASSUME PoolInit PROVE PoolInv
  OBVIOUS
<1>1. free = [n \in BufSizes |-> <<>>] /\ \A n \in BufSizes : free[n] = <<>>
  BY DEF PoolInit
<1>2. free \in [BufSizes -> Seq(Buffers \X Nat)] /\ \A n \in BufSizes : DOMAIN free[n] = {}
  BY <1>1
<1>3. PoolTypes
  BY <1>2 DEF PoolInit, PoolTypes
<1>4. OneEach
  BY <1>2, PoolAssumption DEF PoolInit, OneEach
<1>5. Pooled = {}
  BY <1>2 DEF Pooled
<1> QED
  BY <1>3, <1>4, <1>5, SumOfNone, PoolAssumption DEF PoolInv, PoolInit

\* The newest entry of a bucket is taken out: the pool has everything else.
LEMMA PopKeepsPool ==
  ASSUME PoolInv, NEW n \in BufSizes, free[n] # <<>>,
         free' = [free EXCEPT ![n] = SubSeq(free[n], 1, Len(free[n]) - 1)], poolBytes' = poolBytes - n
  PROVE  /\ free' \in [BufSizes -> Seq(Buffers \X Nat)] /\ poolBytes' \in Int
         /\ BufAt(n, Len(free[n])) \in Pooled
         /\ \A m \in BufSizes : \A i \in DOMAIN free'[m] : i \in DOMAIN free[m] /\ BufAt(m, i)' = BufAt(m, i)
         /\ \A m \in BufSizes : \A i \in DOMAIN free'[m] : BufAt(m, i)' # BufAt(n, Len(free[n]))
         /\ poolBytes' = SumFunctionOnSet(SizeOfBuf, Pooled') /\ poolBytes' <= CAPACITY
<1> DEFINE l == Len(free[n])
<1>1. free \in [BufSizes -> Seq(Buffers \X Nat)] /\ free[n] \in Seq(Buffers \X Nat) /\ l \in Nat \ {0}
  <2>1. free \in [BufSizes -> Seq(Buffers \X Nat)] /\ free[n] \in Seq(Buffers \X Nat)
    BY DEF PoolInv, PoolTypes
  <2> QED
    BY <2>1
<1>2. PICK b \in Buffers : b = BufAt(n, l)
  <2>1. free[n][l] \in Buffers \X Nat
    BY <1>1
  <2> QED
    BY <2>1 DEF BufAt
<1>3. /\ SubSeq(free[n], 1, l - 1) \in Seq(Buffers \X Nat) /\ DOMAIN SubSeq(free[n], 1, l - 1) = 1 .. l - 1
      /\ DOMAIN free[n] = 1 .. l /\ \A i \in 1 .. l - 1 : SubSeq(free[n], 1, l - 1)[i] = free[n][i]
  BY <1>1
<1> HIDE DEF l
<1>4. /\ free' \in [BufSizes -> Seq(Buffers \X Nat)] /\ free'[n] = SubSeq(free[n], 1, l - 1)
      /\ \A m \in BufSizes : m # n => free'[m] = free[m]
  BY <1>1, <1>3 DEF l
<1>5. /\ \A m \in BufSizes : \A i \in DOMAIN free'[m] : i \in DOMAIN free[m] /\ free'[m][i] = free[m][i]
      /\ DOMAIN free'[n] = 1 .. l - 1
  BY <1>1, <1>3, <1>4
<1>6. \A m \in BufSizes : \A i \in DOMAIN free'[m] : i \in DOMAIN free[m] /\ BufAt(m, i)' = BufAt(m, i)
  BY <1>5 DEF BufAt
<1>7. OneEach
  BY DEF PoolInv
<1>8. l \in DOMAIN free[n] /\ BufAt(n, l) \in Pooled
  <2>1. l \in DOMAIN free[n]
    BY <1>1, <1>3
  <2> QED
    BY <2>1, <1>2 DEF Pooled, BufAt
<1>9. \A m \in BufSizes : \A i \in DOMAIN free'[m] : BufAt(m, i) # b
  <2> SUFFICES ASSUME NEW m \in BufSizes, NEW i \in DOMAIN free'[m], BufAt(m, i) = b PROVE FALSE
    OBVIOUS
  <2>1. i \in DOMAIN free[m]
    BY <1>5
  <2>2. m = n
    BY <2>1, <1>2, <1>7, <1>8 DEF OneEach
  <2>3. i = l
    BY <2>1, <2>2, <1>2, <1>7, <1>8 DEF OneEach
  <2>4. i \in 1 .. l - 1
    BY <1>5, <2>2
  <2> QED
    BY <1>1, <2>3, <2>4
<1>10. Pooled' = Pooled \ {b}
  <2>1. ASSUME NEW c \in Pooled' PROVE c \in Pooled \ {b}
    <3>1. PICK m \in BufSizes : \E i \in DOMAIN free'[m] : free'[m][i][1] = c
      BY <2>1 DEF Pooled
    <3>2. PICK i \in DOMAIN free'[m] : free'[m][i][1] = c
      BY <3>1
    <3>3. i \in DOMAIN free[m] /\ free[m][i][1] = c /\ c # b
      BY <3>2, <1>5, <1>9 DEF BufAt
    <3>4. c \in Buffers
      BY <2>1 DEF Pooled
    <3> QED
      BY <3>3, <3>4 DEF Pooled
  <2>2. ASSUME NEW c \in Pooled, c # b PROVE c \in Pooled'
    <3>1. PICK m \in BufSizes : \E i \in DOMAIN free[m] : free[m][i][1] = c
      BY <2>2 DEF Pooled
    <3>2. PICK i \in DOMAIN free[m] : free[m][i][1] = c
      BY <3>1
    <3>3. m = n => i # l
      BY <3>2, <2>2, <1>2 DEF BufAt
    <3>4. i \in DOMAIN free'[m]
      <4>1. CASE m = n
        BY <4>1, <3>2, <3>3, <1>1, <1>3, <1>5
      <4>2. CASE m # n
        BY <4>2, <3>2, <1>4
      <4> QED
        BY <4>1, <4>2
    <3>5. free'[m][i][1] = c /\ c \in Buffers
      BY <3>2, <3>4, <1>5, <2>2 DEF Pooled
    <3> QED
      BY <3>4, <3>5 DEF Pooled
  <2> QED
    BY <2>1, <2>2
<1>11. SizeOfBuf[b] = n /\ n \in Nat \ {0}
  <2>1. SizeOfBuf[b] = n
    BY <1>2, <1>7, <1>8 DEF OneEach
  <2> QED
    BY <2>1, PoolAssumption
<1>12. poolBytes = n + SumFunctionOnSet(SizeOfBuf, Pooled \ {b})
  <2>1. IsFiniteSet(Pooled) /\ b \in Pooled /\ \A c \in Pooled : SizeOfBuf[c] \in Int
    BY PooledIsFinite, <1>2, <1>8
  <2>2. SumFunctionOnSet(SizeOfBuf, Pooled) = SizeOfBuf[b] + SumFunctionOnSet(SizeOfBuf, Pooled \ {b})
    BY <2>1, SumWith
  <2> QED
    BY <2>2, <1>11 DEF PoolInv
<1>13. SumFunctionOnSet(SizeOfBuf, Pooled \ {b}) \in Int
  <2>1. Pooled \ {b} \subseteq Pooled /\ IsFiniteSet(Pooled \ {b}) /\ \A c \in Pooled \ {b} : SizeOfBuf[c] \in Int
    BY PooledIsFinite, FS_Subset
  <2> QED
    BY <2>1, SumIsInt
<1>14. poolBytes' = SumFunctionOnSet(SizeOfBuf, Pooled') /\ poolBytes' \in Int /\ poolBytes' <= CAPACITY
  <2>1. poolBytes <= CAPACITY /\ poolBytes \in Int /\ CAPACITY \in Int
    BY PoolAssumption DEF PoolInv, PoolTypes
  <2>2. poolBytes' = SumFunctionOnSet(SizeOfBuf, Pooled \ {b})
    BY <1>11, <1>12, <1>13
  <2> QED
    BY <2>1, <2>2, <1>10, <1>11, <1>12, <1>13
<1> QED
  BY <1>2, <1>4, <1>6, <1>8, <1>9, <1>14 DEF l

\* The entries are of buffers.
LEMMA EntriesAreBuffers ==
  ASSUME PoolTypes, NEW n \in BufSizes, NEW i \in DOMAIN free[n]
  PROVE  free[n][i] \in Buffers \X Nat /\ BufAt(n, i) \in Buffers /\ BufAt(n, i) \in Pooled
<1>1. free[n] \in Seq(Buffers \X Nat)
  BY DEF PoolTypes
<1>2. free[n][i] \in Buffers \X Nat
  BY <1>1
<1> QED
  BY <1>2 DEF BufAt, Pooled

\* When the pool is as PopKeepsPool says, what else changes has to keep the buffers apart.
LEMMA PopKeepsInv ==
  ASSUME PoolInv, NEW n \in BufSizes, free[n] # <<>>,
         free' = [free EXCEPT ![n] = SubSeq(free[n], 1, Len(free[n]) - 1)], poolBytes' = poolBytes - n,
         poolClock' = poolClock, releasing' = releasing, releasing \notin inUse',
         inUse' = inUse \/ inUse' = inUse \cup {BufAt(n, Len(free[n]))}
  PROVE  PoolInv'
<1> DEFINE b == BufAt(n, Len(free[n]))
<1>1. PoolTypes /\ OneEach
  BY DEF PoolInv
<1>2. /\ free' \in [BufSizes -> Seq(Buffers \X Nat)] /\ poolBytes' \in Int
      /\ b \in Pooled
      /\ \A m \in BufSizes : \A i \in DOMAIN free'[m] : i \in DOMAIN free[m] /\ BufAt(m, i)' = BufAt(m, i)
      /\ \A m \in BufSizes : \A i \in DOMAIN free'[m] : BufAt(m, i)' # b
      /\ poolBytes' = SumFunctionOnSet(SizeOfBuf, Pooled') /\ poolBytes' <= CAPACITY
  BY PopKeepsPool
<1>3. b \in Buffers
  BY <1>2, PooledIsFinite
<1> HIDE DEF b
<1>4. inUse' \subseteq Buffers /\ \A c \in inUse' : c \in inUse \/ c = b
  BY <1>1, <1>3 DEF PoolTypes, b
<1>5. PoolTypes'
  BY <1>1, <1>2, <1>4 DEF PoolTypes
<1>6. \A m \in BufSizes : \A i \in DOMAIN free'[m] :
         SizeOfBuf[BufAt(m, i)'] = m /\ BufAt(m, i)' \notin inUse' /\ BufAt(m, i)' # releasing'
  BY <1>1, <1>2, <1>4 DEF OneEach
<1>7. \A m \in BufSizes : \A i, j \in DOMAIN free'[m] : BufAt(m, i)' = BufAt(m, j)' => i = j
  BY <1>1, <1>2 DEF OneEach
<1>8. OneEach'
  BY <1>6, <1>7 DEF OneEach
<1> QED
  BY <1>2, <1>5, <1>8 DEF PoolInv

LEMMA AcquireKeepsInv == ASSUME PoolInv, NEW n \in BufSizes, Acquire(n) PROVE PoolInv'
<1>1. /\ releasing = NoBuffer /\ free[n] # <<>>
      /\ inUse' = inUse \cup {BufAt(n, Len(free[n]))}
      /\ free' = [free EXCEPT ![n] = SubSeq(free[n], 1, Len(free[n]) - 1)]
      /\ poolBytes' = poolBytes - n /\ UNCHANGED <<releasing, poolClock>>
  <2>1. free \in [BufSizes -> Seq(Buffers \X Nat)]
    BY DEF PoolInv, PoolTypes
  <2> QED
    BY <2>1 DEF Acquire, BufAt
<1>2. BufAt(n, Len(free[n])) \in Buffers /\ inUse \subseteq Buffers
  <2>1. free[n] \in Seq(Buffers \X Nat)
    BY DEF PoolInv, PoolTypes
  <2>2. Len(free[n]) \in DOMAIN free[n]
    BY <1>1, <2>1
  <2> QED
    BY <2>2, EntriesAreBuffers DEF PoolInv, PoolTypes
<1>3. releasing \notin inUse'
  BY <1>1, <1>2, PoolAssumption
<1> QED
  BY <1>1, <1>3, PopKeepsInv

LEMMA EvictKeepsInv == ASSUME PoolInv, EvictLru PROVE PoolInv'
<1>1. free \in [BufSizes -> Seq(Buffers \X Nat)]
  BY DEF PoolInv, PoolTypes
<1>2. PICK n \in Evictable : /\ free' = [free EXCEPT ![n] = SubSeq(@, 1, Len(@) - 1)]
                             /\ poolBytes' = poolBytes - n
  BY DEF EvictLru
<1>3. n \in BufSizes /\ free[n] # <<>>
  <2>1. n \in BufSizes /\ \E t \in Times(n) : TRUE
    BY DEF Evictable
  <2>2. PICK i \in DOMAIN free[n] : TRUE
    BY <2>1 DEF Times
  <2>3. free[n] \in Seq(Buffers \X Nat)
    BY <1>1, <2>1
  <2> QED
    BY <2>1, <2>2, <2>3
<1>4. free' = [free EXCEPT ![n] = SubSeq(free[n], 1, Len(free[n]) - 1)]
  BY <1>1, <1>2, <1>3
<1>5. UNCHANGED <<inUse, releasing, poolClock>> /\ releasing \notin inUse
  BY DEF EvictLru, PoolInv, OneEach
<1> QED
  BY <1>2, <1>3, <1>4, <1>5, PopKeepsInv

\* What changes no entry keeps the pool.
LEMMA EntriesUntouched ==
  ASSUME PoolInv, UNCHANGED <<free, poolBytes>>, poolClock' \in Nat,
         inUse' \subseteq Buffers, releasing' \in Buffers \cup {NoBuffer}, releasing' \notin inUse',
         \A b \in Pooled : b \notin inUse' /\ b # releasing'
  PROVE  PoolInv'
<1>1. PoolTypes /\ OneEach
  BY DEF PoolInv
<1>2. PoolTypes' /\ Pooled' = Pooled
  BY <1>1 DEF PoolTypes, Pooled
<1>3. \A m \in BufSizes : \A i \in DOMAIN free[m] : BufAt(m, i) \in Pooled
  BY <1>1, EntriesAreBuffers
<1>4. OneEach'
  BY <1>1, <1>3 DEF OneEach, BufAt
<1> QED
  BY <1>2, <1>4 DEF PoolInv

\* Nothing in the pool is in use or being released.
LEMMA PooledIsApart ==
  ASSUME PoolInv
  PROVE  /\ PoolTypes /\ releasing \notin inUse
         /\ \A b \in Pooled : b \notin inUse /\ b # releasing /\ b # NoBuffer
<1>1. PoolTypes /\ OneEach
  BY DEF PoolInv
<1>2. ASSUME NEW b \in Pooled PROVE b \notin inUse /\ b # releasing
  <2>1. PICK n \in BufSizes : \E i \in DOMAIN free[n] : BufAt(n, i) = b
    BY <1>2 DEF Pooled, BufAt
  <2> QED
    BY <1>1, <2>1 DEF OneEach
<1>3. \A b \in Pooled : b # NoBuffer
  BY PooledIsFinite, PoolAssumption
<1> QED
  BY <1>1, <1>2, <1>3 DEF OneEach

LEMMA OutsideKeepsInv ==
  ASSUME PoolInv, PoolTick \/ Discard \/ (\E b \in Buffers : Release(b) \/ Allocate(b)) \/ UNCHANGED poolVars
  PROVE  PoolInv'
<1>1. /\ PoolTypes /\ releasing \notin inUse
      /\ \A b \in Pooled : b \notin inUse /\ b # releasing /\ b # NoBuffer
  BY PooledIsApart
<1>2. CASE PoolTick \/ UNCHANGED poolVars
  <2>1. UNCHANGED <<free, poolBytes, inUse, releasing>> /\ poolClock' \in Nat
    BY <1>1, <1>2 DEF PoolTick, poolVars, PoolTypes
  <2> QED
    BY <1>1, <2>1, EntriesUntouched DEF PoolTypes
<1>3. CASE Discard
  BY <1>1, <1>3, EntriesUntouched, PoolAssumption DEF PoolTypes, Discard
<1>4. ASSUME NEW b \in Buffers, Release(b) PROVE PoolInv'
  <2>1. UNCHANGED <<free, poolBytes, poolClock>> /\ b \in inUse /\ releasing' = b /\ inUse' = inUse \ {b}
    BY <1>4 DEF Release
  <2> QED
    BY <1>1, <2>1, EntriesUntouched DEF PoolTypes
<1>5. ASSUME NEW b \in Buffers, Allocate(b) PROVE PoolInv'
  <2>1. /\ UNCHANGED <<free, poolBytes, releasing, poolClock>> /\ releasing = NoBuffer
        /\ b \notin Pooled /\ inUse' = inUse \cup {b} /\ b # NoBuffer
    BY <1>5, PoolAssumption DEF Allocate
  <2> QED
    BY <1>1, <2>1, EntriesUntouched DEF PoolTypes
<1> QED
  BY <1>2, <1>3, <1>4, <1>5

\* A buffer that fits is kept: it joins its bucket, and its bytes the count.
LEMMA KeepKeepsInv == ASSUME PoolInv, Keep PROVE PoolInv'
<1>1. /\ PoolTypes /\ releasing \notin inUse
      /\ \A b \in Pooled : b \notin inUse /\ b # releasing /\ b # NoBuffer
  BY PooledIsApart
<1>2. PICK b \in Buffers : b = releasing
  BY <1>1 DEF Keep, PoolTypes
<1>3. PICK n \in BufSizes : n = SizeOfBuf[b]
  BY DEF BufSizes
<1>4. free \in [BufSizes -> Seq(Buffers \X Nat)] /\ free[n] \in Seq(Buffers \X Nat) /\ poolClock \in Nat
      /\ poolBytes \in Int /\ n \in Nat /\ CAPACITY \in Nat
  BY <1>1, <1>3, PoolAssumption DEF PoolTypes
<1>5. /\ free' = [free EXCEPT ![n] = Append(free[n], <<b, poolClock>>)]
      /\ poolBytes' = poolBytes + n /\ releasing' = NoBuffer /\ UNCHANGED <<inUse, poolClock>>
  BY <1>2, <1>3, <1>4 DEF Keep
<1>6. poolBytes + n <= CAPACITY
  BY <1>2, <1>3, <1>4 DEF Keep, TooMuch
<1>61. PICK l \in Nat : l = Len(free[n])
  BY <1>4
<1>7. /\ Append(free[n], <<b, poolClock>>) \in Seq(Buffers \X Nat)
      /\ DOMAIN Append(free[n], <<b, poolClock>>) = 1 .. l + 1 /\ DOMAIN free[n] = 1 .. l
      /\ Append(free[n], <<b, poolClock>>)[l + 1] = <<b, poolClock>>
      /\ \A i \in 1 .. l : Append(free[n], <<b, poolClock>>)[i] = free[n][i]
  BY <1>4, <1>61
<1>8. /\ free' \in [BufSizes -> Seq(Buffers \X Nat)] /\ free'[n] = Append(free[n], <<b, poolClock>>)
      /\ \A m \in BufSizes : m # n => free'[m] = free[m]
  BY <1>4, <1>5, <1>7
<1>9. /\ \A m \in BufSizes : \A i \in DOMAIN free[m] : i \in DOMAIN free'[m] /\ BufAt(m, i)' = BufAt(m, i)
      /\ l + 1 \in DOMAIN free'[n] /\ BufAt(n, l + 1)' = b
      /\ \A m \in BufSizes : \A i \in DOMAIN free'[m] : i \in DOMAIN free[m] \/ (m = n /\ i = l + 1)
  <2>1. \A i \in DOMAIN free[n] : i \in DOMAIN free'[n] /\ BufAt(n, i)' = BufAt(n, i)
    BY <1>7, <1>8 DEF BufAt
  <2>2. \A m \in BufSizes : m # n => \A i \in DOMAIN free[m] : i \in DOMAIN free'[m] /\ BufAt(m, i)' = BufAt(m, i)
    BY <1>8 DEF BufAt
  <2>3. l + 1 \in DOMAIN free'[n] /\ free'[n][l + 1] = <<b, poolClock>>
    BY <1>7, <1>8
  <2>4. \A m \in BufSizes : \A i \in DOMAIN free'[m] : i \in DOMAIN free[m] \/ (m = n /\ i = l + 1)
    BY <1>7, <1>8
  <2> QED
    BY <2>1, <2>2, <2>3, <2>4 DEF BufAt
<1>10. OneEach
  BY DEF PoolInv
<1>11. \A m \in BufSizes : \A i \in DOMAIN free[m] : BufAt(m, i) \in Pooled /\ BufAt(m, i) # b
  BY <1>1, <1>2, EntriesAreBuffers
<1>12. b \notin inUse /\ b # NoBuffer /\ NoBuffer \notin inUse
  BY <1>1, <1>2, PoolAssumption DEF PoolTypes
<1>13. \A m \in BufSizes : \A i \in DOMAIN free'[m] :
          SizeOfBuf[BufAt(m, i)'] = m /\ BufAt(m, i)' \notin inUse /\ BufAt(m, i)' # NoBuffer
  <2> SUFFICES ASSUME NEW m \in BufSizes, NEW i \in DOMAIN free'[m]
               PROVE  SizeOfBuf[BufAt(m, i)'] = m /\ BufAt(m, i)' \notin inUse /\ BufAt(m, i)' # NoBuffer
    OBVIOUS
  <2>1. CASE i \in DOMAIN free[m]
    BY <2>1, <1>1, <1>9, <1>10, <1>11 DEF OneEach
  <2>2. CASE m = n /\ i = l + 1
    BY <2>2, <1>3, <1>9, <1>12
  <2> QED
    BY <2>1, <2>2, <1>9
<1>14. \A m \in BufSizes : \A i, j \in DOMAIN free'[m] : BufAt(m, i)' = BufAt(m, j)' => i = j
  <2> SUFFICES ASSUME NEW m \in BufSizes, NEW i \in DOMAIN free'[m], NEW j \in DOMAIN free'[m],
                      BufAt(m, i)' = BufAt(m, j)'
               PROVE  i = j
    OBVIOUS
  <2>1. CASE i \in DOMAIN free[m] /\ j \in DOMAIN free[m]
    BY <2>1, <1>9, <1>10 DEF OneEach
  <2>2. CASE i \notin DOMAIN free[m] \/ j \notin DOMAIN free[m]
    BY <2>2, <1>9, <1>11
  <2> QED
    BY <2>1, <2>2
<1>15. OneEach'
  BY <1>5, <1>12, <1>13, <1>14 DEF OneEach
<1>16. PoolTypes'
  BY <1>1, <1>4, <1>5, <1>8 DEF PoolTypes
<1>17. Pooled' = Pooled \cup {b}
  <2>1. ASSUME NEW c \in Pooled' PROVE c \in Pooled \cup {b}
    <3>1. PICK m \in BufSizes : \E i \in DOMAIN free'[m] : BufAt(m, i)' = c
      BY <2>1 DEF Pooled, BufAt
    <3>2. PICK i \in DOMAIN free'[m] : BufAt(m, i)' = c
      BY <3>1
    <3>3. i \in DOMAIN free[m] => BufAt(m, i) = c
      BY <3>2, <1>9
    <3> QED
      BY <3>2, <3>3, <1>9, <1>11
  <2>2. ASSUME NEW c \in Pooled PROVE c \in Pooled'
    <3>1. PICK m \in BufSizes : \E i \in DOMAIN free[m] : BufAt(m, i) = c
      BY <2>2 DEF Pooled, BufAt
    <3>2. PICK i \in DOMAIN free[m] : BufAt(m, i) = c
      BY <3>1
    <3>3. i \in DOMAIN free'[m] /\ BufAt(m, i)' = c /\ c \in Buffers
      BY <3>2, <2>2, <1>9, PooledIsFinite
    <3> QED
      BY <3>3 DEF Pooled, BufAt
  <2>3. b \in Pooled'
    BY <1>9 DEF Pooled, BufAt
  <2> QED
    BY <2>1, <2>2, <2>3
<1>18. b \notin Pooled
  BY <1>1, <1>2
<1>19. poolBytes' = SumFunctionOnSet(SizeOfBuf, Pooled')
  <2>1. IsFiniteSet(Pooled) /\ \A c \in Pooled : SizeOfBuf[c] \in Int
    BY PooledIsFinite
  <2>2. IsFiniteSet(Pooled \cup {b})
    BY <2>1, FS_AddElement
  <2>3. \A c \in Pooled \cup {b} : SizeOfBuf[c] \in Int
    BY <2>1, <1>3, <1>4
  <2>4. b \in Pooled \cup {b} /\ (Pooled \cup {b}) \ {b} = Pooled
    BY <1>18
  <2>5. SumFunctionOnSet(SizeOfBuf, Pooled \cup {b})
          = SizeOfBuf[b] + SumFunctionOnSet(SizeOfBuf, (Pooled \cup {b}) \ {b})
    BY <2>2, <2>3, <2>4, SumWith
  <2>6. poolBytes = SumFunctionOnSet(SizeOfBuf, Pooled)
    BY DEF PoolInv
  <2> QED
    <3>1. SumFunctionOnSet(SizeOfBuf, Pooled') = SumFunctionOnSet(SizeOfBuf, Pooled \cup {b})
      BY <1>17
    <3>2. SumFunctionOnSet(SizeOfBuf, Pooled \cup {b}) = n + poolBytes
      BY <2>4, <2>5, <2>6, <1>3
    <3>3. poolBytes' = n + poolBytes
      BY <1>4, <1>5
    <3> QED
      BY <3>1, <3>2, <3>3
<1> QED
  BY <1>5, <1>6, <1>15, <1>16, <1>19 DEF PoolInv

LEMMA PoolInvNext == PoolInv /\ [PoolNext]_poolVars => PoolInv'
  BY AcquireKeepsInv, EvictKeepsInv, OutsideKeepsInv, KeepKeepsInv DEF PoolNext

\* No more entries than buffers, so PoolEntries has all of them.
LEMMA PoolInvIsEnough == PoolInv => PoolSound
<1> SUFFICES ASSUME PoolInv PROVE PoolSound
  OBVIOUS
<1>1. PoolTypes /\ OneEach
  BY DEF PoolInv
<1>2. ASSUME NEW n \in BufSizes PROVE Len(free[n]) <= Cardinality(Buffers) /\ Len(free[n]) \in Nat
  <2> DEFINE f == [i \in 1 .. Len(free[n]) |-> BufAt(n, i)]
  <2>1. free[n] \in Seq(Buffers \X Nat) /\ Len(free[n]) \in Nat /\ DOMAIN free[n] = 1 .. Len(free[n])
    BY <1>1 DEF PoolTypes
  <2>2. \A i \in 1 .. Len(free[n]) : BufAt(n, i) \in Buffers
    BY <1>1, <2>1, EntriesAreBuffers
  <2>3. f \in Injection(1 .. Len(free[n]), Buffers)
    BY <1>1, <2>1, <2>2 DEF Injection, IsInjective, OneEach
  <2> HIDE DEF f
  <2>4. Cardinality(1 .. Len(free[n])) <= Cardinality(Buffers)
    BY <2>3, PoolAssumption, FS_Injection
  <2>5. 1 \in Int /\ Len(free[n]) \in Int
    BY <2>1
  <2>6. Cardinality(1 .. Len(free[n])) = IF 1 > Len(free[n]) THEN 0 ELSE (Len(free[n]) - 1) + 1
    BY <2>5, FS_Interval
  <2> QED
    BY <2>1, <2>4, <2>6
<1>3. ASSUME NEW b \in Pooled
      PROVE  Cardinality({e \in PoolEntries : free[e[1]][e[2]][1] = b}) = 1
  <2>1. PICK n \in BufSizes : \E i \in DOMAIN free[n] : BufAt(n, i) = b
    BY <1>3 DEF Pooled, BufAt
  <2>2. PICK i \in DOMAIN free[n] : BufAt(n, i) = b
    BY <2>1
  <2>3. free[n] \in Seq(Buffers \X Nat) /\ Len(free[n]) \in Nat /\ Cardinality(Buffers) \in Nat
    BY <1>1, PoolAssumption, FS_CardinalityType DEF PoolTypes
  <2>4. i \in 1 .. Cardinality(Buffers) /\ i <= Len(free[n])
    BY <1>2, <2>3
  <2>5. <<n, i>> \in PoolEntries /\ free[n][i][1] = b
    BY <2>2, <2>4 DEF PoolEntries, BufAt
  <2>6. ASSUME NEW e \in PoolEntries, free[e[1]][e[2]][1] = b PROVE e = <<n, i>>
    <3>1. e[1] \in BufSizes /\ e[2] \in 1 .. Cardinality(Buffers) /\ e = <<e[1], e[2]>> /\ e[2] <= Len(free[e[1]])
      BY <2>6 DEF PoolEntries
    <3>2. free[e[1]] \in Seq(Buffers \X Nat)
      BY <3>1, <1>1 DEF PoolTypes
    <3>3. e[2] \in DOMAIN free[e[1]] /\ BufAt(e[1], e[2]) = b
      BY <3>1, <3>2, <2>6 DEF BufAt
    <3>4. e[1] = n
      BY <3>1, <3>3, <2>2, <1>1 DEF OneEach
    <3>5. e[2] = i
      BY <3>1, <3>3, <3>4, <2>2, <1>1 DEF OneEach
    <3> QED
      BY <3>1, <3>4, <3>5
  <2>7. {e \in PoolEntries : free[e[1]][e[2]][1] = b} = {<<n, i>>}
    BY <2>5, <2>6
  <2> QED
    BY <2>7, FS_Singleton
<1>4. \A b \in Pooled : b \notin inUse
  BY PooledIsApart
<1>5. \A n \in BufSizes : \A i \in DOMAIN free[n] : SizeOfBuf[free[n][i][1]] = n
  BY <1>1 DEF OneEach, BufAt
<1> QED
  BY <1>3, <1>4, <1>5 DEF PoolSound, PoolInv

\* The pool of tensor buffers never holds more than its capacity, counts exactly the bytes it
\* holds, and hands a buffer to one tensor at a time, for any number of buffers of any sizes
\* (pool.rs: acquire, release, evict_lru).
THEOREM PoolIsSound == PoolSpec => []PoolSound
  BY PoolInvInit, PoolInvNext, PoolInvIsEnough, PTL DEF PoolSpec
=============================================================================
