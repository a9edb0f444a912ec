--------------------------- MODULE VlaAsyncProofs ---------------------------
(***************************************************************************)
(* VlaAsync for every chunk length, trigger, latency and number of steps:  *)
(* the type invariant, the alignment of the action queue, the unreachable  *)
(* branch of merge(), one request in flight, the order of execution, and,  *)
(* with the automatic threshold and latencies it covers, that the robot    *)
(* never stalls: also in the composition of MCVlaAsync.  One lemma per     *)
(* action; the theorems of each part follow it.                            *)
(***************************************************************************)
EXTENDS MCVlaAsync, DataLemmas, SequenceTheorems, TLAPS

Reqs == [plan : Nat, from : Nat]
Reps == [plan : Nat, from : Nat, ok : BOOLEAN]

\* What Head and Tail of a non-empty sequence are.
LEMMA TailFacts ==
    ASSUME NEW S, NEW s \in Seq(S), s # <<>>
    PROVE  /\ Head(s) = s[1] /\ Head(s) \in S /\ 1 \in DOMAIN s
           /\ Tail(s) \in Seq(S) /\ Len(s) \in Nat \ {0} /\ Len(Tail(s)) = Len(s) - 1
           /\ DOMAIN Tail(s) = 1 .. Len(s) - 1
           /\ \A i \in 1 .. Len(s) - 1 : Tail(s)[i] = s[i + 1]
BY HeadTailProperties, EmptySeq, LenProperties

\* What Append does.
LEMMA AppendFacts ==
    ASSUME NEW S, NEW s \in Seq(S), NEW e \in S
    PROVE  /\ Append(s, e) \in Seq(S) /\ Len(s) \in Nat /\ Len(Append(s, e)) = Len(s) + 1
           /\ DOMAIN s = 1 .. Len(s) /\ DOMAIN Append(s, e) = 1 .. Len(s) + 1
           /\ \A i \in 1 .. Len(s) : Append(s, e)[i] = s[i]
           /\ Append(s, e)[Len(s) + 1] = e
BY AppendProperties, LenProperties

\* The three sequences and their lengths; a sequence without elements is <<>>.
LEMMA Lengths ==
    ASSUME TypeOK
    PROVE  /\ Len(requests) \in Nat /\ DOMAIN requests = 1 .. Len(requests)
           /\ Len(replies) \in Nat /\ DOMAIN replies = 1 .. Len(replies)
           /\ Len(queue) \in Nat /\ DOMAIN queue = 1 .. Len(queue)
           /\ requests = <<>> <=> Len(requests) = 0
           /\ replies = <<>> <=> Len(replies) = 0
           /\ queue = <<>> <=> Len(queue) = 0
BY LenProperties, EmptySeq DEF TypeOK

\* An element of a sequence belongs to the set the sequence is over.
LEMMA ElementType ==
    ASSUME NEW S, NEW s \in Seq(S), NEW i \in DOMAIN s
    PROVE  s[i] \in S
BY LenProperties

\* The fields of the records that travel, and the numbers of the control loop.
LEMMA RecordTypes ==
    ASSUME TypeOK
    PROVE  /\ \A i \in DOMAIN queue :
                  /\ i \in Nat /\ queue[i].step \in Nat /\ queue[i].plan \in Nat
                  /\ queue[i].from \in Nat /\ queue[i].row \in Nat
           /\ \A i \in DOMAIN requests : requests[i] \in Reqs
           /\ \A i \in DOMAIN replies : replies[i] \in Reps
           /\ job \in Reqs
           /\ step \in Nat /\ nextSeed \in Nat
           /\ merging.plan \in Nat /\ merging.from \in Nat /\ merging.row \in Nat
           /\ executed.step \in Nat /\ executed.plan \in Nat /\ executed.from \in Nat
<1>1. queue \in Seq(Actions) /\ requests \in Seq(Reqs) /\ replies \in Seq(Reps)
  BY DEF TypeOK, Reqs, Reps
<1>2. \A i \in DOMAIN queue : queue[i] \in Actions /\ i \in Nat
  BY <1>1, ElementType, LenProperties
<1>3. /\ \A i \in DOMAIN requests : requests[i] \in Reqs
      /\ \A i \in DOMAIN replies : replies[i] \in Reps
  BY <1>1, ElementType
<1>4. \A i \in DOMAIN queue : /\ queue[i].step \in Nat /\ queue[i].plan \in Nat
                              /\ queue[i].from \in Nat /\ queue[i].row \in Nat
  BY <1>2 DEF Actions
<1>5. /\ job \in Reqs /\ step \in Nat /\ nextSeed \in Nat
      /\ merging.plan \in Nat /\ merging.from \in Nat /\ merging.row \in Nat
      /\ executed.step \in Nat /\ executed.plan \in Nat /\ executed.from \in Nat
  BY DEF TypeOK, Actions, Reqs
<1> QED BY <1>2, <1>3, <1>4, <1>5

\* The initial state satisfies the invariant.
LEMMA InitInv == Init => IndInv
<1> SUFFICES ASSUME Init PROVE IndInv
  OBVIOUS
<1>1. TypeOK
  <2>1. /\ queue \in Seq(Actions) /\ latencies \in Seq(Nat) /\ Len(latencies) = 0
        /\ requests \in Seq(Reqs) /\ replies \in Seq(Reps)
    BY EmptySeq DEF Init
  <2>2. /\ merging \in [plan : Nat, from : Nat, row : Nat] /\ job \in Reqs
        /\ executed \in Actions
    BY DEF Init, NoPlan, Reqs, Actions
  <2>3. /\ step \in Nat /\ age \in Nat /\ chunks \in Nat /\ nextSeed \in Nat
        /\ pending \in BOOLEAN /\ worker = "idle" /\ pc = "idle"
    BY DEF Init
  <2> QED BY <2>1, <2>2, <2>3 DEF TypeOK, Reqs, Reps
<1>2. DOMAIN queue = {} /\ DOMAIN requests = {} /\ DOMAIN replies = {}
  BY DEF Init
<1>3. QueueAligned /\ FlightOK /\ QueuePlans
  BY <1>2 DEF Init, QueueAligned, FlightOK, QueuePlans
<1>4. OneInFlight /\ MergingOK /\ MergeReach
  BY SizeAssumption, EmptySeq DEF Init, OneInFlight, MergingOK, MergeReach
<1> QED BY <1>1, <1>3, <1>4 DEF IndInv

\* A step that leaves every variable alone.
LEMMA StutterInv == IndInv /\ UNCHANGED vars => IndInv'
BY SizeAssumption DEF vars, channels, IndInv, TypeOK, QueueAligned, OneInFlight, FlightOK, MergingOK,
   QueuePlans, MergeReach, Newer, RowStep, Actions

LEMMA BeginTickInv == IndInv /\ BeginTick => IndInv'
BY SizeAssumption DEF BeginTick, channels, IndInv, TypeOK, QueueAligned, OneInFlight, FlightOK, MergingOK,
   QueuePlans, MergeReach, Newer, RowStep, Actions

LEMMA ReceiveNothingInv == IndInv /\ ReceiveNothing => IndInv'
BY SizeAssumption DEF ReceiveNothing, channels, IndInv, TypeOK, QueueAligned, OneInFlight, FlightOK, MergingOK,
   QueuePlans, MergeReach, Newer, RowStep, Actions

LEMMA NoRequestInv == IndInv /\ NoRequest => IndInv'
BY SizeAssumption DEF NoRequest, channels, IndInv, TypeOK, QueueAligned, OneInFlight, FlightOK, MergingOK,
   QueuePlans, MergeReach, Newer, RowStep, Actions

LEMMA DropInv == IndInv /\ Drop => IndInv'
BY SizeAssumption DEF Drop, channels, IndInv, TypeOK, QueueAligned, OneInFlight, FlightOK, MergingOK,
   QueuePlans, MergeReach, Newer, RowStep, Actions

LEMMA JoinInv == IndInv /\ Join => IndInv'
BY SizeAssumption DEF Join, channels, IndInv, TypeOK, QueueAligned, OneInFlight, FlightOK, MergingOK,
   QueuePlans, MergeReach, Newer, RowStep, Actions

\* The reply that arrives is newer than all that was merged before it.
LEMMA ReceiveInv == IndInv /\ Receive => IndInv'
<1> SUFFICES ASSUME IndInv, Receive PROVE IndInv'
  OBVIOUS
<1> USE SizeAssumption DEF IndInv
<1> DEFINE r == Head(replies)
<1>1. replies # <<>> /\ replies \in Seq(Reps)
  BY DEF Receive, TypeOK, Reps
<1>2. /\ r = replies[1] /\ r \in Reps /\ 1 \in DOMAIN replies /\ replies' = Tail(replies)
      /\ replies' \in Seq(Reps) /\ Len(replies) \in Nat \ {0}
      /\ Len(replies') = Len(replies) - 1
  BY <1>1, TailFacts DEF Receive
<1>3. Newer(r)
  BY <1>2 DEF FlightOK
<1>4. /\ r.plan \in Nat /\ r.from \in Nat /\ merging.plan < r.plan /\ r.plan < nextSeed
      /\ merging.from <= r.from /\ r.from <= step
  BY <1>2, <1>3 DEF Newer, Reps
<1>5. requests = <<>> /\ replies' = <<>> /\ worker # "busy"
  <2>1. /\ Len(requests) \in Nat /\ (requests = <<>> <=> Len(requests) = 0)
        /\ Len(replies') \in Nat /\ (replies' = <<>> <=> Len(replies') = 0)
    BY <1>2, Lengths, LenProperties, EmptySeq
  <2>2. Len(requests) + Len(replies) + (IF worker = "busy" THEN 1 ELSE 0) <= 1
    BY DEF OneInFlight
  <2>3. Len(requests) = 0 /\ Len(replies) = 1 /\ worker # "busy"
    BY <1>2, <2>1, <2>2
  <2> QED
    BY <1>2, <2>1, <2>3
<1>6. /\ UNCHANGED <<queue, step, nextSeed, requests, worker, job, executed>>
      /\ pending' = FALSE
      /\ \/ pc' = "idle" /\ merging' = merging
         \/ pc' = "merge" /\ merging' = [plan |-> r.plan, from |-> r.from, row |-> 0]
  BY DEF Receive
<1>7. TypeOK'
  <2>1. merging' \in [plan : Nat, from : Nat, row : Nat]
    <3>1. CASE merging' = merging
      BY <3>1 DEF TypeOK
    <3>2. CASE merging' = [plan |-> r.plan, from |-> r.from, row |-> 0]
      <4>1. r.plan \in Nat /\ r.from \in Nat
        BY <1>4
      <4> HIDE DEF r
      <4> QED BY <3>2, <4>1
    <3> QED BY <3>1, <3>2, <1>6
  <2>2. /\ pc' \in {"idle", "merge"} /\ replies' \in Seq(Reps)
        /\ UNCHANGED <<age, latencies, chunks>> /\ pending' = FALSE
    BY <1>2, <1>6 DEF Receive
  <2> QED BY <2>1, <2>2, <1>6 DEF TypeOK, Reps
<1>8. QueueAligned'
  BY <1>6 DEF QueueAligned
<1>9. OneInFlight'
  BY <1>2, <1>5, <1>6, Lengths DEF OneInFlight
<1>10. FlightOK'
  BY <1>5, <1>6 DEF FlightOK
<1>11. MergingOK'
  <2>1. CASE merging' = merging
    BY <2>1, <1>6 DEF MergingOK
  <2>2. CASE merging' = [plan |-> r.plan, from |-> r.from, row |-> 0]
    <3>1. /\ merging'.plan = r.plan /\ merging'.from = r.from /\ merging'.row = 0
      BY <2>2
    <3>2. executed.plan <= r.plan /\ executed.from <= r.from
      BY <1>4, RecordTypes DEF MergingOK
    <3> QED BY <3>1, <3>2, <1>4, <1>6 DEF MergingOK
  <2> QED BY <2>1, <2>2, <1>6
<1>12. QueuePlans'
  <2>1. CASE pc' = "idle" /\ merging' = merging
    BY <2>1, <1>6 DEF QueuePlans, Receive
  <2>2. CASE pc' = "merge" /\ merging' = [plan |-> r.plan, from |-> r.from, row |-> 0]
    <3>1. RowStep' = r.from
      BY <2>2, <1>4 DEF RowStep
    <3>2. SUFFICES ASSUME NEW i \in DOMAIN queue
                   PROVE  /\ queue[i].row < ChunkLen
                          /\ queue[i].plan <= r.plan /\ queue[i].from <= r.from
                          /\ ~(queue[i].step < r.from)
      BY <2>2, <3>1, <1>6 DEF QueuePlans
    <3>3. i \in Nat \ {0}
      BY Lengths
    <3>4. /\ queue[i].row < ChunkLen /\ queue[i].plan <= merging.plan
          /\ queue[i].from <= merging.from
      BY DEF QueuePlans
    <3>5. queue[i].step = step + i - 1
      BY DEF QueueAligned
    <3> QED BY <3>3, <3>4, <3>5, <1>4, RecordTypes
  <2> QED BY <2>1, <2>2, <1>6
<1>13. MergeReach'
  <2>1. CASE pc' = "merge" /\ merging' = [plan |-> r.plan, from |-> r.from, row |-> 0]
    BY <2>1, <1>4, <1>6, Lengths DEF MergeReach, RowStep, TypeOK
  <2> QED BY <2>1, <1>6 DEF MergeReach
<1> QED BY <1>7, <1>8, <1>9, <1>10, <1>11, <1>12, <1>13

\* Every row has been merged: the whole queue belongs to the new plan.
LEMMA MergeEndInv == IndInv /\ MergeEnd => IndInv'
<1> SUFFICES ASSUME IndInv, MergeEnd PROVE IndInv'
  OBVIOUS
<1> USE SizeAssumption DEF IndInv
<1>1. /\ UNCHANGED <<queue, step, pending, age, nextSeed, merging, requests, replies, worker,
                      job, executed>>
      /\ pc = "merge" /\ pc' = "recv" /\ merging.row = ChunkLen
      /\ chunks' = chunks + 1 /\ latencies' = Push(latencies, age)
  BY DEF MergeEnd, channels
<1>2. TypeOK'
  <2>1. latencies \in Seq(Nat) /\ age \in Nat /\ Len(latencies) <= 5
    BY DEF TypeOK
  <2> DEFINE all == Append(latencies, age)
  <2>2. all \in Seq(Nat) /\ Len(all) = Len(latencies) + 1 /\ Len(latencies) \in Nat
    BY <2>1, AppendFacts
  <2>3. all # <<>>
    BY <2>1, AppendProperties
  <2>4. Tail(all) \in Seq(Nat) /\ Len(Tail(all)) = Len(all) - 1
    BY <2>2, <2>3, TailFacts
  <2>5. latencies' = IF Len(all) > 5 THEN Tail(all) ELSE all
    BY <1>1 DEF Push
  <2>6. latencies' \in Seq(Nat) /\ Len(latencies') <= 5
    BY <2>1, <2>2, <2>4, <2>5
  <2> QED BY <1>1, <2>6 DEF TypeOK
<1>3. QueueAligned' /\ OneInFlight' /\ FlightOK' /\ MergingOK' /\ MergeReach'
  BY <1>1 DEF QueueAligned, OneInFlight, FlightOK, Newer, MergingOK, MergeReach
<1>4. QueuePlans'
  <2>1. SUFFICES ASSUME NEW i \in DOMAIN queue PROVE queue[i].step < RowStep
    BY <1>1 DEF QueuePlans
  <2>3. queue[i].row < ChunkLen /\ queue[i].from <= merging.from
    BY DEF QueuePlans
  <2>4. queue[i].from + queue[i].row = queue[i].step
    BY DEF QueueAligned
  <2> QED BY <1>1, <2>3, <2>4, RecordTypes DEF RowStep
<1> QED BY <1>2, <1>3, <1>4

\* The new request is stamped with the current step and a fresh plan.
LEMMA SendRequestInv == IndInv /\ SendRequest => IndInv'
<1> SUFFICES ASSUME IndInv, SendRequest PROVE IndInv'
  OBVIOUS
<1> USE SizeAssumption DEF IndInv
<1> DEFINE r == [plan |-> nextSeed, from |-> step]
<1>1. /\ UNCHANGED <<queue, step, latencies, chunks, merging, replies, worker, job, executed>>
      /\ pc = "request" /\ pc' = "execute" /\ ~pending /\ pending' = TRUE /\ age' = 0
      /\ nextSeed' = nextSeed + 1 /\ requests' = Append(requests, r) /\ worker # "exited"
  BY DEF SendRequest, Wanted
<1>2. r \in Reqs /\ requests \in Seq(Reqs)
  BY DEF TypeOK, Reqs
<1>3. requests' \in Seq(Reqs) /\ Len(requests') = Len(requests) + 1 /\ requests'[Len(requests) + 1] = r
  BY <1>1, <1>2, AppendFacts
<1>4. requests = <<>> /\ replies = <<>> /\ worker = "idle" /\ Len(requests) = 0 /\ Len(replies) = 0
  BY <1>1, Lengths DEF OneInFlight, TypeOK
<1>5. TypeOK'
  BY <1>1, <1>3 DEF TypeOK, Reqs
<1>6. QueueAligned' /\ QueuePlans' /\ MergeReach' /\ MergingOK'
  BY <1>1 DEF QueueAligned, QueuePlans, MergeReach, MergingOK, TypeOK, Actions
<1>7. OneInFlight'
  BY <1>1, <1>3, <1>4 DEF OneInFlight
<1>8. FlightOK'
  <2>1. \A i \in DOMAIN requests' : requests'[i] = r
    BY <1>3, <1>4, LenProperties
  <2>2. /\ merging'.plan < r.plan /\ r.plan < nextSeed'
        /\ merging'.from <= r.from /\ r.from <= step'
    <3>1. merging.plan < nextSeed /\ merging.from <= step
      BY DEF MergingOK
    <3> QED BY <3>1, <1>1, RecordTypes DEF Newer
  <2>3. DOMAIN replies' = {}
    BY <1>1, <1>4, Lengths
  <2>4. \A i \in DOMAIN requests' : Newer(requests[i])'
    BY <1>1, <2>1, <2>2 DEF Newer
  <2> QED BY <1>1, <1>4, <2>3, <2>4 DEF FlightOK
<1> QED BY <1>5, <1>6, <1>7, <1>8

\* A failed request leaves only its seed behind.
LEMMA RequestFailsInv == IndInv /\ RequestFails => IndInv'
<1> SUFFICES ASSUME IndInv, RequestFails PROVE IndInv'
  OBVIOUS
<1> USE SizeAssumption DEF IndInv
<1>1. /\ UNCHANGED <<queue, step, pending, age, latencies, chunks, merging, requests, replies,
                      worker, job, executed>>
      /\ pc = "request" /\ pc' = "idle" /\ nextSeed' \in {nextSeed, nextSeed + 1}
  BY DEF RequestFails, channels
<1>2. TypeOK' /\ nextSeed \in Nat
  BY <1>1 DEF TypeOK
<1>3. QueueAligned' /\ QueuePlans' /\ MergeReach' /\ MergingOK' /\ OneInFlight'
  BY <1>1, <1>2 DEF QueueAligned, QueuePlans, MergeReach, MergingOK, OneInFlight, TypeOK
<1>4. \A q : q.plan \in Nat /\ Newer(q) => (merging'.plan < q.plan /\ q.plan < nextSeed'
                   /\ merging'.from <= q.from /\ q.from <= step')
  BY <1>1, <1>2 DEF Newer
<1>5. FlightOK'
  BY <1>1, <1>4, RecordTypes DEF FlightOK, Newer, Reqs, Reps
<1> QED BY <1>2, <1>3, <1>5

\* The worker takes the only request there is.
LEMMA TakeRequestInv == IndInv /\ TakeRequest => IndInv'
<1> SUFFICES ASSUME IndInv, TakeRequest PROVE IndInv'
  OBVIOUS
<1> USE SizeAssumption DEF IndInv
<1>1. /\ UNCHANGED <<pc, queue, step, pending, age, latencies, chunks, nextSeed, merging,
                      replies, executed>>
      /\ requests # <<>> /\ worker = "idle" /\ worker' = "busy"
      /\ job' = Head(requests) /\ requests' = Tail(requests)
  BY DEF TakeRequest
<1>2. requests \in Seq(Reqs)
  BY DEF TypeOK, Reqs
<1>3. /\ job' = requests[1] /\ job' \in Reqs /\ 1 \in DOMAIN requests
      /\ requests' \in Seq(Reqs) /\ Len(requests') = Len(requests) - 1
      /\ Len(requests) \in Nat \ {0}
  BY <1>1, <1>2, TailFacts
<1>4. Len(requests) = 1 /\ Len(requests') = 0 /\ DOMAIN requests' = {}
  BY <1>1, <1>3, Lengths, LenProperties DEF OneInFlight, TypeOK
<1>5. TypeOK'
  BY <1>1, <1>3 DEF TypeOK, Reqs
<1>6. QueueAligned' /\ QueuePlans' /\ MergeReach' /\ MergingOK'
  BY <1>1 DEF QueueAligned, QueuePlans, MergeReach, MergingOK, RowStep
<1>7. OneInFlight'
  BY <1>1, <1>3, <1>4, Lengths DEF OneInFlight
<1>8. FlightOK'
  BY <1>1, <1>3, <1>4 DEF FlightOK, Newer
<1> QED BY <1>5, <1>6, <1>7, <1>8

\* The worker answers the request it works on.
LEMMA PredictInv == ASSUME NEW ok \in BOOLEAN PROVE IndInv /\ Predict(ok) => IndInv'
<1> SUFFICES ASSUME IndInv, Predict(ok) PROVE IndInv'
  OBVIOUS
<1> USE SizeAssumption DEF IndInv
<1> DEFINE r == [plan |-> job.plan, from |-> job.from, ok |-> ok]
<1>1. /\ UNCHANGED <<pc, queue, step, pending, age, latencies, chunks, nextSeed, merging,
                      requests, job, executed>>
      /\ worker = "busy" /\ worker' = "idle" /\ replies' = Append(replies, r)
  BY DEF Predict
<1>2. r \in Reps /\ replies \in Seq(Reps)
  BY DEF TypeOK, Reps
<1>3. /\ replies' \in Seq(Reps) /\ Len(replies') = Len(replies) + 1 /\ Len(replies) \in Nat
      /\ replies'[Len(replies) + 1] = r
  BY <1>1, <1>2, AppendFacts
<1>4. Len(replies) = 0 /\ Len(requests) = 0
  BY <1>1, Lengths DEF OneInFlight, TypeOK
<1>5. TypeOK'
  BY <1>1, <1>3 DEF TypeOK, Reps
<1>6. QueueAligned' /\ QueuePlans' /\ MergeReach' /\ MergingOK'
  BY <1>1 DEF QueueAligned, QueuePlans, MergeReach, MergingOK, RowStep
<1>7. OneInFlight'
  BY <1>1, <1>3, <1>4 DEF OneInFlight
<1>8. FlightOK'
  <2>1. \A i \in DOMAIN replies' : i = 1 /\ replies'[i] = r
    BY <1>3, <1>4, LenProperties
  <2>2. DOMAIN requests' = {}
    BY <1>1, <1>4, Lengths
  <2> QED BY <1>1, <2>1, <2>2 DEF FlightOK, Newer
<1> QED BY <1>5, <1>6, <1>7, <1>8

LEMMA WorkerExitsInv == IndInv /\ WorkerExits => IndInv'
<1> SUFFICES ASSUME IndInv, WorkerExits PROVE IndInv'
  OBVIOUS
<1> USE SizeAssumption DEF IndInv
<1>1. /\ UNCHANGED <<pc, queue, step, pending, age, latencies, chunks, nextSeed, merging,
                      requests, replies, job, executed>>
      /\ worker = "idle" /\ worker' = "exited"
  BY DEF WorkerExits
<1>2. TypeOK' /\ QueueAligned' /\ QueuePlans' /\ MergeReach' /\ MergingOK' /\ FlightOK'
  BY <1>1 DEF TypeOK, QueueAligned, QueuePlans, MergeReach, MergingOK, FlightOK, Newer, RowStep
<1>3. OneInFlight'
  BY <1>1, Lengths DEF OneInFlight
<1> QED BY <1>2, <1>3

\* A request can die with the worker: OneInFlight allows it to be lost.
LEMMA WorkerPanicsInv == IndInv /\ WorkerPanics => IndInv'
<1> SUFFICES ASSUME IndInv, WorkerPanics PROVE IndInv'
  OBVIOUS
<1> USE SizeAssumption DEF IndInv
<1>1. /\ UNCHANGED <<pc, queue, step, pending, age, latencies, chunks, nextSeed, merging,
                      requests, replies, job, executed>>
      /\ worker = "busy" /\ worker' = "exited"
  BY DEF WorkerPanics
<1>2. TypeOK' /\ QueueAligned' /\ QueuePlans' /\ MergeReach' /\ MergingOK' /\ FlightOK'
  BY <1>1 DEF TypeOK, QueueAligned, QueuePlans, MergeReach, MergingOK, FlightOK, Newer, RowStep
<1>3. OneInFlight'
  <2>1. pending /\ Len(requests) + Len(replies) = 0
    BY <1>1, Lengths DEF OneInFlight, TypeOK
  <2> QED BY <1>1, <2>1, Lengths DEF OneInFlight
<1> QED BY <1>2, <1>3

\* The queue starts with the current step.
LEMMA FrontStep == IndInv /\ queue # <<>> => QueueFront = step
<1> SUFFICES ASSUME IndInv, queue # <<>> PROVE QueueFront = step
  OBVIOUS
<1>1. Head(queue) = queue[1] /\ 1 \in DOMAIN queue
  BY TailFacts DEF IndInv, TypeOK
<1>2. queue[1].step = step
  BY <1>1, RecordTypes DEF IndInv, QueueAligned
<1> QED BY <1>1, <1>2 DEF QueueFront

\* A row that is not too late falls on the queue or right behind it.
LEMMA NeverResetState == IndInv => QueueNeverReset
<1> SUFFICES ASSUME IndInv, pc = "merge", merging.row < ChunkLen, RowStep >= step
             PROVE  Index \in 0 .. Len(queue)
  BY DEF QueueNeverReset
<1>1. RowStep \in Nat
  BY RecordTypes DEF IndInv, RowStep
<1>2. CASE queue = <<>>
  BY <1>1, <1>2, Lengths DEF IndInv, QueueFront, Index
<1>3. CASE queue # <<>>
  BY <1>1, <1>3, FrontStep, Lengths, RecordTypes DEF IndInv, MergeReach, Index
<1> QED BY <1>2, <1>3

\* One row of the arriving chunk lands where its step is in the queue.
LEMMA MergeRowInv == IndInv /\ MergeRow => IndInv'
<1> SUFFICES ASSUME IndInv, MergeRow PROVE IndInv'
  OBVIOUS
<1> USE SizeAssumption DEF IndInv
<1>1. /\ UNCHANGED <<pc, step, pending, age, latencies, chunks, nextSeed, requests, replies,
                      worker, job, executed>>
      /\ pc = "merge" /\ merging.row < ChunkLen
      /\ merging' = [merging EXCEPT !.row = @ + 1]
  BY DEF MergeRow, channels
<1>2. /\ merging'.plan = merging.plan /\ merging'.from = merging.from
      /\ merging'.row = merging.row + 1
      /\ merging' \in [plan : Nat, from : Nat, row : Nat]
  <2>1. merging \in [plan : Nat, from : Nat, row : Nat]
    BY DEF TypeOK
  <2> QED BY <2>1, <1>1
<1>3. RowStep \in Nat /\ RowStep' = RowStep + 1 /\ RowStep < merging.from + ChunkLen
  BY <1>1, <1>2, RecordTypes DEF RowStep
<1>4. RowAction \in Actions
  BY <1>3, RecordTypes DEF RowAction, Actions
<1>5. RowStep <= step + Len(queue)
  BY <1>1 DEF MergeReach
<1>6. queue # <<>> => QueueFront = step
  BY FrontStep
<1>7. RowStep >= step => Index \in 0 .. Len(queue)
  BY <1>1, NeverResetState DEF QueueNeverReset
<1>9. \A i \in DOMAIN queue :
          /\ i \in 1 .. Len(queue) /\ i \in Nat /\ queue[i].step = step + i - 1
          /\ queue[i].from + queue[i].row = queue[i].step
          /\ queue[i].row < ChunkLen
          /\ queue[i].plan <= merging.plan /\ queue[i].from <= merging.from
          /\ queue[i].step < RowStep =>
                 queue[i].plan = merging.plan /\ queue[i].from = merging.from
  BY <1>1, Lengths DEF QueueAligned, QueuePlans
<1>10. /\ RowAction.step = RowStep /\ RowAction.plan = merging.plan
       /\ RowAction.from = merging.from /\ RowAction.row = merging.row
  BY DEF RowAction
<1>11. queue \in Seq(Actions)
  BY DEF TypeOK
<1> DEFINE Fits(q, i) ==
       /\ q[i].step = step + i - 1 /\ q[i].from + q[i].row = q[i].step
       /\ q[i].row < ChunkLen /\ q[i].plan <= merging.plan /\ q[i].from <= merging.from
       /\ q[i].step < RowStep + 1 =>
              q[i].plan = merging.plan /\ q[i].from = merging.from
<1>12. /\ queue' \in Seq(Actions)
       /\ \A i \in DOMAIN queue' : Fits(queue', i)
       /\ RowStep + 1 <= step + Len(queue')
  <2>1. CASE DropRow
    <3>1. RowStep < step /\ queue' = queue
      BY <2>1 DEF DropRow
    <3>2. ASSUME NEW i \in DOMAIN queue PROVE Fits(queue, i)
      BY <3>1, <1>3, <1>9, RecordTypes
    <3> QED BY <3>1, <3>2, <1>3, <1>11, Lengths, RecordTypes
  <2>2. CASE OverwriteRow
    <3> DEFINE k == Index + 1
               a == [RowAction EXCEPT !.step = queue[k].step]
    <3>1. RowStep >= step /\ Index \in 0 .. Len(queue) - 1 /\ queue' = [queue EXCEPT ![k] = a]
      BY <2>2 DEF OverwriteRow
    <3>2. k \in DOMAIN queue /\ k \in Nat /\ Index = RowStep - step /\ RowStep = step + k - 1
      <4>1. Index \in Int /\ 0 <= Index /\ Index < Len(queue) /\ Len(queue) \in Nat
        BY <3>1, Lengths
      <4>2. Index = RowStep - step
        BY <4>1, <1>6, Lengths DEF Index
      <4>3. DOMAIN queue = 1 .. Len(queue) /\ step \in Nat
        BY Lengths, RecordTypes
      <4>4. k \in Nat /\ 1 <= k /\ k <= Len(queue)
        BY <4>1
      <4>5. RowStep = step + k - 1
        BY <4>1, <4>2, <4>3, <1>3
      <4> QED BY <4>1, <4>2, <4>3, <4>4, <4>5
    <3> HIDE DEF k
    <3>3. queue[k].step = RowStep
      BY <3>2, <1>9
    <3>4. a = RowAction
      BY <3>3, <1>4, <1>10 DEF Actions, RowAction
    <3>5. queue' \in Seq(Actions) /\ Len(queue') = Len(queue) /\ DOMAIN queue' = DOMAIN queue
      BY <3>1, <3>2, <3>4, <1>4, <1>11, ExceptSeq
    <3>6. ASSUME NEW i \in DOMAIN queue' PROVE Fits(queue', i)
      <4>1. CASE i = k
        <5>1. queue'[i] = RowAction
          BY <4>1, <3>1, <3>2, <3>4, <1>11
        <5>2. RowStep = step + i - 1
          BY <4>1, <3>2, <1>3, RecordTypes
        <5>3. RowAction.from + RowAction.row = RowAction.step
          BY <1>10 DEF RowStep
        <5> QED BY <5>1, <5>2, <5>3, <1>1, <1>10, RecordTypes
      <4>2. CASE i # k
        <5>1. queue'[i] = queue[i] /\ i \in DOMAIN queue
          BY <4>2, <3>1, <3>5, <1>11
        <5>2. queue[i].step # RowStep
          <6>1. queue[i].step = step + i - 1 /\ i \in Nat
            BY <5>1, <1>9
          <6> QED BY <4>2, <6>1, <3>2, RecordTypes
        <5>3. queue[i].step < RowStep + 1 => queue[i].step < RowStep
          BY <5>1, <5>2, <1>3, RecordTypes
        <5> QED BY <5>1, <5>3, <1>9
      <4> QED BY <4>1, <4>2
    <3>7. RowStep + 1 <= step + Len(queue')
      BY <3>2, <3>5, Lengths, RecordTypes
    <3> QED BY <3>5, <3>6, <3>7
  <2>3. CASE AppendRow
    <3>1. RowStep >= step /\ Index = Len(queue) /\ queue' = Append(queue, RowAction)
      BY <2>3 DEF AppendRow
    <3>2. /\ queue' \in Seq(Actions) /\ Len(queue') = Len(queue) + 1
          /\ DOMAIN queue' = 1 .. Len(queue) + 1 /\ DOMAIN queue = 1 .. Len(queue)
          /\ \A i \in 1 .. Len(queue) : queue'[i] = queue[i]
          /\ queue'[Len(queue) + 1] = RowAction /\ Len(queue) \in Nat
      BY <3>1, <1>4, <1>11, AppendFacts
    <3>3. RowStep = step + Len(queue)
      <4>1. CASE queue # <<>>
        BY <4>1, <3>1, <3>2, <1>3, <1>6, RecordTypes DEF Index
      <4>2. CASE queue = <<>>
        BY <4>2, <3>1, <3>2, <1>3, <1>5, Lengths, RecordTypes
      <4> QED BY <4>1, <4>2
    <3>4. ASSUME NEW i \in DOMAIN queue' PROVE Fits(queue', i)
      <4>1. CASE i = Len(queue) + 1
        <5>1. queue'[i] = RowAction /\ RowStep = step + i - 1
          BY <4>1, <3>2, <3>3, RecordTypes
        <5>2. RowAction.from + RowAction.row = RowAction.step
          BY <1>10 DEF RowStep
        <5> QED BY <5>1, <5>2, <1>1, <1>10, RecordTypes
      <4>2. CASE i # Len(queue) + 1
        <5>1. i \in DOMAIN queue /\ queue'[i] = queue[i]
          BY <4>2, <3>2
        <5>2. queue[i].step < RowStep
          BY <5>1, <3>2, <3>3, <1>9, RecordTypes
        <5> QED BY <5>1, <5>2, <1>9
      <4> QED BY <4>1, <4>2
    <3> QED BY <3>2, <3>3, <3>4, <1>3, RecordTypes
  <2>4. ~ResetQueue
    BY <1>7 DEF ResetQueue
  <2> QED BY <2>1, <2>2, <2>3, <2>4 DEF MergeRow
<1>13. TypeOK'
  BY <1>1, <1>2, <1>12 DEF TypeOK
<1>14. QueueAligned'
  BY <1>1, <1>12 DEF QueueAligned
<1>15. OneInFlight'
  BY <1>1 DEF OneInFlight
<1>16. FlightOK'
  BY <1>1, <1>2 DEF FlightOK, Newer
<1>17. MergingOK'
  BY <1>1, <1>2, RecordTypes DEF MergingOK
<1>18. QueuePlans'
  BY <1>1, <1>2, <1>3, <1>12 DEF QueuePlans
<1>19. MergeReach'
  BY <1>1, <1>3, <1>12 DEF MergeReach
<1> QED BY <1>13, <1>14, <1>15, <1>16, <1>17, <1>18, <1>19

\* What an execution is: the step moves on by one, with the first queued action.
LEMMA ExecuteStep ==
    ASSUME IndInv, Execute
    PROVE  /\ UNCHANGED <<pending, latencies, chunks, nextSeed, merging, requests, replies,
                           worker, job>>
           /\ pc = "execute" /\ pc' = "idle" /\ age' \in Nat
           /\ \/ queue = <<>> /\ UNCHANGED <<queue, step, executed>>
              \/ /\ queue # <<>> /\ queue' = Tail(queue) /\ step' = step + 1
                 /\ executed' = queue[1] /\ queue[1].step = step /\ 1 \in DOMAIN queue
<1>1. /\ UNCHANGED <<pending, latencies, chunks, nextSeed, merging, requests, replies, worker, job>>
      /\ pc = "execute" /\ pc' = "idle"
  BY DEF Execute, channels
<1>2. age' \in Nat
  BY DEF Execute, IndInv, TypeOK
<1>3. CASE queue = <<>>
  BY <1>1, <1>2, <1>3 DEF Execute
<1>4. CASE queue # <<>>
  <2>1. Head(queue) = queue[1] /\ 1 \in DOMAIN queue
    BY <1>4, TailFacts DEF IndInv, TypeOK
  <2>2. queue[1].step = step
    BY <2>1, RecordTypes DEF IndInv, QueueAligned
  <2> QED BY <1>1, <1>2, <1>4, <2>1, <2>2 DEF Execute
<1> QED BY <1>3, <1>4

\* The queue moves one step forward with the robot.
LEMMA ExecuteInv == IndInv /\ Execute => IndInv'
<1> SUFFICES ASSUME IndInv, Execute PROVE IndInv'
  OBVIOUS
<1> USE SizeAssumption DEF IndInv
<1>1. /\ UNCHANGED <<pending, latencies, chunks, nextSeed, merging, requests, replies,
                      worker, job>>
      /\ pc = "execute" /\ pc' = "idle" /\ age' \in Nat
  BY ExecuteStep
<1>2. CASE queue = <<>> /\ UNCHANGED <<queue, step, executed>>
  BY <1>1, <1>2 DEF TypeOK, QueueAligned, OneInFlight, FlightOK, Newer, MergingOK, QueuePlans,
     MergeReach
<1>3. CASE /\ queue # <<>> /\ queue' = Tail(queue) /\ step' = step + 1
           /\ executed' = queue[1] /\ queue[1].step = step /\ 1 \in DOMAIN queue
  <2>1. /\ queue' \in Seq(Actions) /\ Len(queue) \in Nat \ {0} /\ Len(queue') = Len(queue) - 1
        /\ DOMAIN queue' = 1 .. Len(queue) - 1
        /\ \A i \in 1 .. Len(queue) - 1 : queue'[i] = queue[i + 1]
    BY <1>3, TailFacts DEF TypeOK
  <2>2. executed' \in Actions
    BY <1>3, ElementType DEF TypeOK
  <2>3. TypeOK'
    <3>1. step' \in Nat
      BY <1>3, RecordTypes
    <3> QED BY <1>1, <2>1, <2>2, <3>1 DEF TypeOK
  <2>4. ASSUME NEW i \in DOMAIN queue'
        PROVE  i + 1 \in DOMAIN queue /\ queue'[i] = queue[i + 1] /\ i \in Nat
    BY <2>1, Lengths
  <2>5. QueueAligned'
    BY <2>4, <1>3, RecordTypes DEF QueueAligned
  <2>6. OneInFlight'
    BY <1>1 DEF OneInFlight
  <2>7. FlightOK'
    <3>1. \A r : r.from \in Nat /\ r.from <= step => r.from <= step'
      BY <1>3, RecordTypes
    <3>2. ASSUME NEW r, r.from \in Nat, Newer(r)
          PROVE  /\ merging'.plan < r.plan /\ r.plan < nextSeed'
                 /\ merging'.from <= r.from /\ r.from <= step'
      BY <1>1, <3>1, <3>2 DEF Newer
    <3> QED BY <1>1, <3>2, RecordTypes DEF FlightOK, Newer, Reqs, Reps
  <2>8. MergingOK'
    <3>1. executed'.plan <= merging.plan /\ executed'.from <= merging.from
      BY <1>3 DEF QueuePlans
    <3> QED BY <1>1, <1>3, <3>1, RecordTypes DEF MergingOK
  <2>9. QueuePlans' /\ MergeReach'
    BY <1>1, <2>4 DEF QueuePlans, MergeReach
  <2> QED BY <2>3, <2>5, <2>6, <2>7, <2>8, <2>9
<1> QED BY <1>2, <1>3, ExecuteStep

-----------------------------------------------------------------------------
\* The invariant is inductive.
LEMMA NextInv == IndInv /\ [Next]_vars => IndInv'
<1> SUFFICES ASSUME IndInv, [Next]_vars PROVE IndInv'
  OBVIOUS
<1>1. CASE Tick
  BY <1>1, BeginTickInv, ReceiveInv, ReceiveNothingInv, MergeRowInv, MergeEndInv, SendRequestInv,
     RequestFailsInv, NoRequestInv, ExecuteInv DEF Tick
<1>2. CASE Drop \/ Join
  BY <1>2, DropInv, JoinInv
<1>3. CASE Worker
  BY <1>3, TakeRequestInv, PredictInv, WorkerExitsInv DEF Worker
<1>4. CASE WorkerPanics
  BY <1>4, WorkerPanicsInv
<1>5. CASE UNCHANGED vars
  BY <1>5, StutterInv
<1> QED BY <1>1, <1>2, <1>3, <1>4, <1>5 DEF Next

\* Whatever the chunk length, the trigger and the latencies: IndInv always holds.
THEOREM Invariance == Spec => []IndInv
BY InitInv, NextInv, PTL DEF Spec

\* The variables of the control loop and of the worker keep their types.
THEOREM TypeCorrect == Spec => []TypeOK
<1>1. IndInv => TypeOK
  BY DEF IndInv
<1> QED BY <1>1, Invariance, PTL

\* The queue is the run of steps from the current one (merge, and the field's
\* comment): every queued action is the one planned for its step.
THEOREM Aligned == Spec => []QueueAligned
<1>1. IndInv => QueueAligned
  BY DEF IndInv
<1> QED BY <1>1, Invariance, PTL

\* At most one request is in flight, and pending says whether.
THEOREM SingleRequest == Spec => []OneInFlight
<1>1. IndInv => OneInFlight
  BY DEF IndInv
<1> QED BY <1>1, Invariance, PTL

\* The branch of merge() that throws the queue away is unreachable.
THEOREM NeverReset == Spec => []QueueNeverReset
BY NeverResetState, Invariance, PTL

\* One step of the robot is the next step, from a plan no older than the last.
LEMMA InOrderStep ==
    IndInv /\ [Next]_vars =>
        (step' # step => /\ step' = step + 1
                         /\ executed'.step = step
                         /\ executed'.plan >= executed.plan
                         /\ executed'.from >= executed.from)
<1> SUFFICES ASSUME IndInv, [Next]_vars, step' # step
             PROVE  /\ step' = step + 1 /\ executed'.step = step
                    /\ executed'.plan >= executed.plan /\ executed'.from >= executed.from
  OBVIOUS
<1>1. Execute
  BY DEF Next, Tick, Worker, vars, channels, BeginTick, Receive, ReceiveNothing, MergeRow, MergeEnd,
     SendRequest, RequestFails, NoRequest, Drop, Join, TakeRequest, Predict, WorkerExits,
     WorkerPanics
<1>2. /\ pc = "execute" /\ step' = step + 1 /\ executed' = queue[1] /\ queue[1].step = step
      /\ 1 \in DOMAIN queue
  BY <1>1, ExecuteStep
<1>3. queue[1].plan = merging.plan /\ queue[1].from = merging.from
  BY <1>2 DEF IndInv, QueuePlans
<1> QED BY <1>2, <1>3, RecordTypes DEF IndInv, MergingOK

\* Every step is executed once and in order, never from an older plan after a
\* newer one (tick and merge).
THEOREM InOrder == Spec => ExecutesInOrder
<1>1. IndInv /\ [Next]_vars => [step' # step => /\ step' = step + 1
                                               /\ executed'.step = step
                                               /\ executed'.plan >= executed.plan
                                               /\ executed'.from >= executed.from]_vars
  BY InOrderStep
<1> QED BY <1>1, Invariance, PTL DEF Spec, ExecutesInOrder

\* auto_trigger never asks for more than a chunk, and covers the worst latency
\* whenever a chunk can hide it (its doc comment).
THEOREM TriggerCovers ==
    ASSUME NEW d \in Nat, NEW c \in Nat
    PROVE  /\ AutoTrigger(d, c) \in 0 .. c
           /\ 2 * d <= c => AutoTrigger(d, c) >= d
<1>1. d \div 5 \in Nat
  OBVIOUS
<1> QED BY <1>1 DEF AutoTrigger

-----------------------------------------------------------------------------
(* The automatic threshold keeps the robot supplied.                       *)

\* The policy answers, and its latencies are what Threshold::Auto is made for: at most half a
\* chunk, and no further above the ones seen before than the margin of auto_trigger.
SteadyLatencies ==
    /\ AutoAhead /\ ~MayFail /\ ~MayPanic
    /\ 1 <= MaxLatency /\ 2 * MaxLatency <= ChunkLen
    /\ MaxLatency <= MinLatency + (MinLatency \div 5) + 2

Over == pc \in {"closing", "gone"}

\* Every chunk comes, and comes in time.
AgesInv ==
    /\ worker # "exited" /\ \A i \in DOMAIN replies : replies[i].ok
    /\ replies # <<>> => age >= MinLatency
    /\ pending => age <= MaxLatency
    /\ pending /\ pc \in {"idle", "recv"} => age >= 1
    /\ pending /\ (pc \in {"request", "execute"} \/ (pc = "recv" /\ replies = <<>>)) => age < MaxLatency
    /\ pc = "merge" => ~pending /\ age \in MinLatency .. MaxLatency /\ age >= 1

LatenciesInv ==
    /\ \A i \in DOMAIN latencies : latencies[i] \in MinLatency .. MaxLatency /\ latencies[i] >= 1
    /\ chunks > 0 => latencies # <<>>

\* No more steps were executed since a chunk was asked for than ticks.
DistanceInv ==
    /\ \A i \in DOMAIN requests : step <= requests[i].from + age
    /\ \A i \in DOMAIN replies : step <= replies[i].from + age
    /\ worker = "busy" => step <= job.from + age
    /\ pc = "merge" => step <= merging.from + age

\* The queue lasts until the next chunk comes.
SupplyInv ==
    chunks > 0 =>
        /\ pending => Len(queue) + age >= MaxLatency
        /\ ~pending /\ pc \in {"idle", "recv", "request"} => Len(queue) >= MaxLatency
        /\ ~pending /\ pc = "execute" => Len(queue) > MaxLatency

StallInv == Over \/ (AgesInv /\ LatenciesInv /\ DistanceInv /\ SupplyInv)

\* Whichever of the recent latencies is the worst, its trigger covers the worst there is.
LEMMA TriggerSuffices ==
    ASSUME SteadyLatencies, IndInv, LatenciesInv, chunks > 0
    PROVE  Trigger \in Nat /\ Trigger >= MaxLatency
<1> USE SizeAssumption
<1>1. latencies # <<>> /\ latencies \in Seq(Nat)
  BY DEF LatenciesInv, IndInv, TypeOK
<1>2. 1 \in DOMAIN latencies
  BY <1>1, TailFacts
<1>3. Recent \subseteq 0 .. MaxLatency /\ Recent # {}
  BY <1>2 DEF Recent, LatenciesInv
<1>4. PICK w \in Recent : \A y \in Recent : y <= w
  BY <1>3, GreatestOf
<1>5. WorstRecent \in Recent
  BY <1>4 DEF WorstRecent
<1>6. \A d \in Recent : d \in MinLatency .. MaxLatency
  BY DEF Recent, LatenciesInv
<1>7. WorstRecent \in MinLatency .. MaxLatency
  BY <1>5, <1>6
<1>8. \A d \in MinLatency .. MaxLatency : AutoTrigger(d, ChunkLen) \in Nat /\ AutoTrigger(d, ChunkLen) >= MaxLatency
  <2> TAKE d \in MinLatency .. MaxLatency
  <2>1. d \in Nat /\ MinLatency <= d /\ d <= MaxLatency /\ 2 * d <= ChunkLen
    BY DEF SteadyLatencies
  <2>2. d \div 5 \in Nat /\ MinLatency \div 5 <= d \div 5 /\ MinLatency \div 5 \in Nat
    BY <2>1
  <2> QED BY <2>1, <2>2 DEF AutoTrigger, SteadyLatencies
<1>9. Trigger = AutoTrigger(WorstRecent, ChunkLen)
  BY <1>1 DEF Trigger, SteadyLatencies
<1> QED BY <1>7, <1>8, <1>9

\* Without a request in flight nothing is on its way.
LEMMA NothingUnderWay ==
    ASSUME IndInv, ~pending
    PROVE  requests = <<>> /\ replies = <<>> /\ worker # "busy"
BY Lengths DEF IndInv, OneInFlight

LEMMA BeginTickSupplies == ASSUME SteadyLatencies, IndInv, StallInv, BeginTick PROVE StallInv'
<1>1. /\ UNCHANGED <<queue, step, pending, age, latencies, chunks, merging, requests, replies, worker, job>>
      /\ pc = "idle" /\ pc' = "recv"
      /\ ~(pending /\ replies = <<>> /\ worker # "exited" /\ age >= MaxLatency)
  BY DEF BeginTick, channels
<1>2. AgesInv /\ LatenciesInv /\ DistanceInv /\ SupplyInv /\ age \in Nat /\ MaxLatency \in Nat
  BY <1>1, SizeAssumption DEF StallInv, Over, IndInv, TypeOK
<1>3. AgesInv'
  BY <1>1, <1>2 DEF AgesInv
<1>4. LatenciesInv' /\ DistanceInv' /\ SupplyInv'
  BY <1>1, <1>2 DEF LatenciesInv, DistanceInv, SupplyInv
<1> QED BY <1>3, <1>4 DEF StallInv

LEMMA ReceiveSupplies == ASSUME SteadyLatencies, IndInv, StallInv, Receive PROVE StallInv'
<1>1. /\ UNCHANGED <<queue, step, age, latencies, chunks, requests, worker, job>>
      /\ pc = "recv" /\ replies # <<>> /\ pending' = FALSE /\ replies' = Tail(replies)
      /\ Head(replies).ok => pc' = "merge" /\ merging' = [plan |-> Head(replies).plan,
                                                        from |-> Head(replies).from, row |-> 0]
  BY DEF Receive
<1>2. AgesInv /\ LatenciesInv /\ DistanceInv /\ SupplyInv /\ age \in Nat /\ MaxLatency \in Nat
  BY <1>1, SizeAssumption DEF StallInv, Over, IndInv, TypeOK
<1>3. Head(replies) = replies[1] /\ 1 \in DOMAIN replies /\ replies \in Seq(Reps)
  BY <1>1, TailFacts DEF IndInv, TypeOK, Reps
<1>4. pending /\ Len(replies) = 1 /\ requests = <<>> /\ worker # "busy"
  <2>1. Len(replies) \in Nat \ {0} /\ Len(requests) \in Nat /\ (Len(requests) = 0 => requests = <<>>)
    BY <1>1, Lengths DEF IndInv
  <2>2. worker # "exited"
    BY <1>2 DEF AgesInv
  <2>3. Len(requests) + Len(replies) + (IF worker = "busy" THEN 1 ELSE 0) = IF pending THEN 1 ELSE 0
    BY <2>2 DEF IndInv, OneInFlight
  <2> DEFINE a == Len(requests)
             b == Len(replies)
  <2> HIDE DEF a, b
  <2>4. a \in Nat /\ b \in Nat \ {0} /\ a + b + (IF worker = "busy" THEN 1 ELSE 0) = IF pending THEN 1 ELSE 0
    BY <2>1, <2>3 DEF a, b
  <2>5. CASE pending
    <3>1. a = 0 /\ b = 1 /\ worker # "busy"
      BY <2>4, <2>5
    <3> QED BY <2>1, <2>5, <3>1 DEF a, b
  <2>6. CASE ~pending
    BY <2>4, <2>6
  <2> QED BY <2>5, <2>6
<1>5. replies' = <<>>
  <2>1. Tail(replies) \in Seq(Reps) /\ Len(Tail(replies)) = 0
    BY <1>1, <1>3, <1>4, TailFacts
  <2> QED BY <1>1, <2>1, EmptySeq
<1>6. pc' = "merge" /\ merging'.from = replies[1].from
  BY <1>1, <1>2, <1>3 DEF AgesInv
<1>7. step <= replies[1].from + age
  BY <1>2, <1>3 DEF DistanceInv
<1>8. AgesInv'
  BY <1>1, <1>2, <1>4, <1>5, <1>6, SizeAssumption DEF AgesInv
<1>9. DistanceInv'
  <2>1. DOMAIN replies' = {} /\ DOMAIN requests' = {}
    BY <1>1, <1>4, <1>5
  <2> QED BY <1>1, <1>4, <1>6, <1>7, <2>1 DEF DistanceInv
<1>10. LatenciesInv' /\ SupplyInv'
  BY <1>1, <1>2, <1>6 DEF LatenciesInv, SupplyInv
<1> QED BY <1>8, <1>9, <1>10 DEF StallInv

LEMMA ReceiveNothingSupplies == ASSUME SteadyLatencies, IndInv, StallInv, ReceiveNothing PROVE StallInv'
<1>1. /\ UNCHANGED <<queue, step, pending, age, latencies, chunks, merging, requests, replies, worker, job>>
      /\ pc = "recv" /\ replies = <<>> /\ (worker # "exited" => pc' = "request")
  BY DEF ReceiveNothing, channels
<1>2. AgesInv /\ LatenciesInv /\ DistanceInv /\ SupplyInv /\ worker # "exited"
  BY <1>1 DEF StallInv, Over, AgesInv
<1>3. AgesInv'
  BY <1>1, <1>2 DEF AgesInv
<1>4. LatenciesInv' /\ DistanceInv' /\ SupplyInv'
  BY <1>1, <1>2 DEF LatenciesInv, DistanceInv, SupplyInv
<1> QED BY <1>3, <1>4 DEF StallInv

\* Whatever a row does to the queue, the queue is complete when all rows are merged (MergeReach).
LEMMA MergeRowSupplies == ASSUME SteadyLatencies, IndInv, StallInv, MergeRow PROVE StallInv'
<1>1. /\ UNCHANGED <<pc, step, pending, age, latencies, chunks, requests, replies, worker, job>>
      /\ pc = "merge" /\ merging' = [merging EXCEPT !.row = @ + 1]
  BY DEF MergeRow, channels
<1>2. AgesInv /\ LatenciesInv /\ DistanceInv /\ ~pending
  BY <1>1 DEF StallInv, Over, AgesInv
<1>3. merging'.from = merging.from
  BY <1>1 DEF IndInv, TypeOK
<1>4. AgesInv' /\ LatenciesInv' /\ DistanceInv' /\ SupplyInv'
  BY <1>1, <1>2, <1>3 DEF AgesInv, LatenciesInv, DistanceInv, SupplyInv
<1> QED BY <1>4 DEF StallInv

\* What Push keeps of the latencies.
LEMMA PushKeeps ==
    ASSUME NEW S, NEW lat \in Seq(S), NEW d \in S
    PROVE  Push(lat, d) \in Seq(S) /\ Push(lat, d) # <<>> /\ \A i \in DOMAIN Push(lat, d) : Push(lat, d)[i] \in S
<1> DEFINE all == Append(lat, d)
<1>1. all \in Seq(S) /\ Len(all) = Len(lat) + 1 /\ Len(lat) \in Nat
  BY AppendFacts
<1>2. all # <<>>
  BY <1>1, EmptySeq
<1> HIDE DEF all
<1>3. Tail(all) \in Seq(S) /\ Len(Tail(all)) = Len(all) - 1
  BY <1>1, <1>2, TailFacts
<1>4. Len(all) > 5 => Tail(all) # <<>>
  <2>1. Tail(all) = <<>> => Len(Tail(all)) = 0
    BY EmptySeq
  <2> QED BY <1>1, <1>3, <2>1
<1>5. Push(lat, d) = IF Len(all) > 5 THEN Tail(all) ELSE all
  BY DEF Push, all
<1>6. Push(lat, d) \in Seq(S) /\ Push(lat, d) # <<>>
  BY <1>1, <1>2, <1>3, <1>4, <1>5
<1> QED BY <1>6, ElementType

LEMMA MergeEndSupplies == ASSUME SteadyLatencies, IndInv, StallInv, MergeEnd PROVE StallInv'
<1>1. /\ UNCHANGED <<queue, step, pending, age, merging, requests, replies, worker, job>>
      /\ pc = "merge" /\ pc' = "recv" /\ merging.row = ChunkLen
      /\ chunks' = chunks + 1 /\ latencies' = Push(latencies, age)
  BY DEF MergeEnd, channels
<1>2. AgesInv /\ LatenciesInv /\ DistanceInv /\ age \in Nat /\ MaxLatency \in Nat /\ ~pending
  BY <1>1, SizeAssumption DEF StallInv, Over, IndInv, TypeOK, AgesInv
<1>3. AgesInv' /\ DistanceInv'
  BY <1>1, <1>2 DEF AgesInv, DistanceInv
<1>4. LatenciesInv'
  <2> DEFINE S == {d \in MinLatency .. MaxLatency : d >= 1}
  <2>1. age \in S /\ latencies \in Seq(S)
    <3>1. age \in S
      BY <1>1, <1>2 DEF AgesInv
    <3>2. latencies \in Seq(Nat) /\ \A i \in DOMAIN latencies : latencies[i] \in S
      BY <1>2 DEF LatenciesInv, IndInv, TypeOK
    <3>3. latencies \in Seq(S)
      <4>1. Len(latencies) \in Nat /\ DOMAIN latencies = 1 .. Len(latencies)
            /\ latencies = [i \in 1 .. Len(latencies) |-> latencies[i]]
        BY <3>2
      <4> HIDE DEF S
      <4> QED BY <3>2, <4>1
    <3> QED BY <3>1, <3>3
  <2> HIDE DEF S
  <2>2. latencies' # <<>> /\ \A i \in DOMAIN latencies' : latencies'[i] \in S
    BY <1>1, <2>1, PushKeeps
  <2> QED BY <2>2 DEF LatenciesInv, S
<1>5. Len(queue) >= MaxLatency
  <2>1. merging.from + ChunkLen <= step + Len(queue)
    BY <1>1 DEF IndInv, MergeReach, RowStep
  <2>2. step <= merging.from + age /\ age <= MaxLatency
    BY <1>1, <1>2, SizeAssumption DEF DistanceInv, AgesInv
  <2>3. step \in Nat /\ merging.from \in Nat /\ Len(queue) \in Nat /\ ChunkLen \in Nat /\ 2 * MaxLatency <= ChunkLen
    BY RecordTypes, Lengths, SizeAssumption DEF IndInv, SteadyLatencies
  <2> QED BY <1>2, <2>1, <2>2, <2>3
<1>6. SupplyInv'
  BY <1>1, <1>2, <1>5 DEF SupplyInv
<1> QED BY <1>3, <1>4, <1>6 DEF StallInv

LEMMA SendRequestSupplies == ASSUME SteadyLatencies, IndInv, StallInv, SendRequest PROVE StallInv'
<1> DEFINE r == [plan |-> nextSeed, from |-> step]
<1>1. /\ UNCHANGED <<queue, step, latencies, chunks, merging, replies, worker, job>>
      /\ pc = "request" /\ pc' = "execute" /\ ~pending /\ pending' = TRUE /\ age' = 0
      /\ requests' = Append(requests, r)
  BY DEF SendRequest, Wanted
<1>2. AgesInv /\ LatenciesInv /\ SupplyInv /\ MaxLatency \in Nat /\ Len(queue) \in Nat
  BY <1>1, SizeAssumption, Lengths DEF StallInv, Over, IndInv
<1>3. requests = <<>> /\ replies = <<>> /\ worker # "busy"
  BY <1>1, NothingUnderWay
<1>4. AgesInv'
  BY <1>1, <1>2, <1>3, SizeAssumption DEF AgesInv, SteadyLatencies
<1>5. DistanceInv'
  <2>1. r \in Reqs /\ requests \in Seq(Reqs) /\ step \in Nat
    BY DEF IndInv, TypeOK, Reqs
  <2>2. DOMAIN requests' = {1} /\ requests'[1] = r
    <3>1. Len(requests) = 0 /\ DOMAIN requests' = 1 .. Len(requests) + 1 /\ requests'[Len(requests) + 1] = r
      BY <1>1, <1>3, <2>1, AppendFacts
    <3> QED BY <3>1
  <2>3. DOMAIN replies' = {}
    BY <1>1, <1>3
  <2> QED BY <1>1, <1>3, <2>1, <2>2, <2>3 DEF DistanceInv
<1>6. LatenciesInv' /\ SupplyInv'
  BY <1>1, <1>2 DEF LatenciesInv, SupplyInv
<1> QED BY <1>4, <1>5, <1>6 DEF StallInv

LEMMA NoRequestSupplies == ASSUME SteadyLatencies, IndInv, StallInv, NoRequest PROVE StallInv'
<1>1. /\ UNCHANGED <<queue, step, pending, age, latencies, chunks, merging, requests, replies, worker, job>>
      /\ pc = "request" /\ pc' = "execute" /\ (pending \/ ~(Len(queue) <= Trigger))
  BY DEF NoRequest, Wanted, channels
<1>2. AgesInv /\ LatenciesInv /\ DistanceInv /\ SupplyInv
  BY <1>1 DEF StallInv, Over
<1>3. AgesInv' /\ LatenciesInv' /\ DistanceInv'
  BY <1>1, <1>2 DEF AgesInv, LatenciesInv, DistanceInv
<1>4. SupplyInv'
  <2>1. chunks > 0 /\ ~pending => Len(queue) > MaxLatency
    <3>1. chunks > 0 => Trigger \in Nat /\ Trigger >= MaxLatency
      BY <1>2, TriggerSuffices
    <3>2. Len(queue) \in Nat /\ MaxLatency \in Nat
      BY Lengths, SizeAssumption DEF IndInv
    <3> QED BY <1>1, <3>1, <3>2
  <2> QED BY <1>1, <1>2, <2>1 DEF SupplyInv
<1> QED BY <1>3, <1>4 DEF StallInv

\* An action less in the queue, a tick more since the request.
LEMMA ExecuteSupplies == ASSUME SteadyLatencies, IndInv, StallInv, Execute PROVE StallInv'
<1>1. /\ UNCHANGED <<pending, latencies, chunks, merging, requests, replies, worker, job>>
      /\ pc = "execute" /\ pc' = "idle" /\ age' = IF pending THEN age + 1 ELSE age
      /\ \/ queue = <<>> /\ UNCHANGED <<queue, step>>
         \/ queue # <<>> /\ queue' = Tail(queue) /\ step' = step + 1
  BY ExecuteStep DEF Execute
<1>2. AgesInv /\ LatenciesInv /\ DistanceInv /\ SupplyInv
  BY <1>1 DEF StallInv, Over
<1>3. age \in Nat /\ step \in Nat /\ MaxLatency \in Nat /\ MinLatency \in Nat /\ queue \in Seq(Actions)
  BY SizeAssumption DEF IndInv, TypeOK
<1>4. AgesInv'
  BY <1>1, <1>2, <1>3 DEF AgesInv
<1>5. DistanceInv'
  <2>1. CASE pending
    <3>1. /\ \A i \in DOMAIN requests : requests[i].from \in Nat
          /\ \A i \in DOMAIN replies : replies[i].from \in Nat
          /\ job.from \in Nat
      BY RecordTypes DEF Reqs, Reps, IndInv
    <3>2. age' = age + 1 /\ step' <= step + 1 /\ UNCHANGED <<requests, replies, worker, job>>
      BY <1>1, <1>3, <2>1
    <3>3. step' \in Nat
      BY <1>1, <1>3
    <3>4. pc' # "merge"
      BY <1>1
    <3> QED BY <1>2, <1>3, <3>1, <3>2, <3>3, <3>4 DEF DistanceInv
  <2>2. CASE ~pending
    <3>1. DOMAIN requests' = {} /\ DOMAIN replies' = {} /\ worker' # "busy"
      BY <1>1, <2>2, NothingUnderWay
    <3> QED BY <1>1, <3>1 DEF DistanceInv
  <2> QED BY <2>1, <2>2
<1>6. Len(queue) \in Nat /\ Len(queue') \in Nat /\ Len(queue') >= Len(queue) - 1
  BY <1>1, <1>3, TailFacts, Lengths DEF IndInv
<1>7. SupplyInv'
  BY <1>1, <1>2, <1>3, <1>6 DEF SupplyInv
<1>8. LatenciesInv'
  BY <1>1, <1>2 DEF LatenciesInv
<1> QED BY <1>4, <1>5, <1>7, <1>8 DEF StallInv

\* A chunk in the making keeps the step it was asked for at.
LEMMA WorkerSupplies ==
    ASSUME SteadyLatencies, IndInv, StallInv, TakeRequest \/ Predict(TRUE) \/ WorkerExits
    PROVE  StallInv'
<1>1. pc' = pc /\ UNCHANGED <<queue, step, pending, age, latencies, chunks, merging>>
  BY DEF TakeRequest, Predict, WorkerExits
<1>2. CASE Over
  BY <1>1, <1>2 DEF StallInv, Over
<1>3. CASE ~Over
  <2>1. AgesInv /\ LatenciesInv /\ DistanceInv /\ SupplyInv
    BY <1>3 DEF StallInv
  <2>2. LatenciesInv' /\ SupplyInv'
    BY <1>1, <2>1 DEF LatenciesInv, SupplyInv
  <2>3. CASE TakeRequest
    <3>1. /\ requests # <<>> /\ worker' = "busy" /\ job' = Head(requests) /\ requests' = Tail(requests)
          /\ replies' = replies
      BY <2>3 DEF TakeRequest
    <3>2. requests \in Seq(Reqs)
      BY DEF IndInv, TypeOK, Reqs
    <3>3. /\ job' = requests[1] /\ 1 \in DOMAIN requests /\ Len(requests) \in Nat
          /\ DOMAIN requests' = 1 .. Len(requests) - 1 /\ DOMAIN requests = 1 .. Len(requests)
          /\ \A i \in 1 .. Len(requests) - 1 : requests'[i] = requests[i + 1]
      BY <3>1, <3>2, TailFacts, Lengths DEF IndInv
    <3>4. \A i \in DOMAIN requests' : i + 1 \in DOMAIN requests /\ requests'[i] = requests[i + 1]
      BY <3>3
    <3>5. DistanceInv'
      BY <1>1, <2>1, <3>1, <3>3, <3>4 DEF DistanceInv
    <3>6. AgesInv'
      BY <1>1, <2>1, <3>1 DEF AgesInv
    <3> QED BY <2>2, <3>5, <3>6 DEF StallInv
  <2>4. CASE Predict(TRUE)
    <3> DEFINE r == [plan |-> job.plan, from |-> job.from, ok |-> TRUE]
    <3>1. /\ worker = "busy" /\ worker' = "idle" /\ replies' = Append(replies, r) /\ age >= MinLatency
          /\ requests' = requests /\ job' = job
      BY <1>3, <2>4 DEF Predict, Over
    <3>2. r \in Reps /\ replies \in Seq(Reps)
      BY DEF IndInv, TypeOK, Reps
    <3>3. /\ DOMAIN replies = 1 .. Len(replies) /\ DOMAIN replies' = 1 .. Len(replies) + 1
          /\ \A i \in 1 .. Len(replies) : replies'[i] = replies[i]
          /\ replies'[Len(replies) + 1] = r /\ Len(replies) \in Nat
      BY <3>1, <3>2, AppendFacts
    <3>4. \A i \in DOMAIN replies' : (i \in DOMAIN replies /\ replies'[i] = replies[i]) \/ replies'[i] = r
      BY <3>3
    <3>5. r.ok /\ step <= r.from + age
      BY <2>1, <3>1 DEF DistanceInv
    <3>6. DistanceInv'
      BY <1>1, <2>1, <3>1, <3>4, <3>5 DEF DistanceInv
    <3>7. AgesInv'
      BY <1>1, <2>1, <3>1, <3>4, <3>5 DEF AgesInv
    <3> QED BY <2>2, <3>6, <3>7 DEF StallInv
  <2>5. CASE WorkerExits
    BY <1>3, <2>5 DEF WorkerExits, Over
  <2> QED BY <2>3, <2>4, <2>5
<1> QED BY <1>2, <1>3

LEMMA StallInvInit == Init => StallInv
BY DEF Init, StallInv, AgesInv, LatenciesInv, DistanceInv, SupplyInv

LEMMA StallInvNext == ASSUME SteadyLatencies, IndInv, StallInv, [Next]_vars PROVE StallInv'
<1>1. CASE Tick
  <2>1. ~RequestFails \/ Over
    BY DEF RequestFails, SteadyLatencies, StallInv, AgesInv
  <2>2. ~Over
    BY <1>1 DEF Tick, BeginTick, Receive, ReceiveNothing, MergeRow, MergeEnd, SendRequest, RequestFails,
                NoRequest, Execute, Over
  <2> QED
    BY <1>1, <2>1, <2>2, BeginTickSupplies, ReceiveSupplies, ReceiveNothingSupplies, MergeRowSupplies,
       MergeEndSupplies, SendRequestSupplies, NoRequestSupplies, ExecuteSupplies DEF Tick
<1>2. CASE Drop \/ Join
  BY <1>2 DEF Drop, Join, StallInv, Over
<1>3. CASE Worker
  BY <1>3, WorkerSupplies DEF Worker, SteadyLatencies
<1>4. CASE WorkerPanics
  BY <1>4 DEF WorkerPanics, SteadyLatencies
<1>5. CASE UNCHANGED vars
  BY <1>5 DEF vars, channels, StallInv, Over, AgesInv, LatenciesInv, DistanceInv, SupplyInv
<1> QED BY <1>1, <1>2, <1>3, <1>4, <1>5 DEF Next

LEMMA Supplied == IndInv /\ StallInv => NeverStalls
<1> SUFFICES ASSUME IndInv, StallInv, pc = "execute", chunks > 0 PROVE queue # <<>>
  BY DEF NeverStalls
<1>1. SupplyInv /\ AgesInv
  BY DEF StallInv, Over
<1>2. Len(queue) \in Nat /\ age \in Nat /\ MaxLatency \in Nat /\ (queue = <<>> <=> Len(queue) = 0)
  BY Lengths, SizeAssumption DEF IndInv, TypeOK
<1> QED BY <1>1, <1>2 DEF SupplyInv, AgesInv

\* With Threshold::Auto, a policy that answers and latencies of at most half a chunk that rise by
\* no more than auto_trigger's margin, the robot has an action to execute in every control period
\* after its first chunk.
THEOREM NoStall == ASSUME SteadyLatencies PROVE Spec => []NeverStalls
<1>1. IndInv /\ StallInv /\ [Next]_vars => StallInv'
  BY StallInvNext
<1> QED BY <1>1, StallInvInit, Supplied, Invariance, PTL DEF Spec

\* The same of the module that the run VlaAsyncControl checks: a controller with the automatic
\* threshold next to one with a fixed threshold.
THEOREM AutomaticNeverStalls == ASSUME SteadyLatencies PROVE BothSpec => []AutoNeverStalls
<1> DEFINE Supply == threshold = "auto" => IndInv /\ StallInv
<1>1. BothInit => Supply
  BY InitInv, StallInvInit DEF BothInit
<1>2. Supply /\ [BothNext]_bothVars => Supply'
  <2> SUFFICES ASSUME Supply, [BothNext]_bothVars, threshold' = "auto" PROVE (IndInv /\ StallInv)'
    OBVIOUS
  <2>1. threshold = "auto" /\ [Next]_vars
    BY DEF BothNext, AutoNext, FixedNext, bothVars
  <2> QED BY <2>1, NextInv, StallInvNext
<1>3. Supply => AutoNeverStalls
  BY Supplied DEF AutoNeverStalls
<1> QED BY <1>1, <1>2, <1>3, PTL DEF BothSpec
=============================================================================
