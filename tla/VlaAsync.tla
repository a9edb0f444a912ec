------------------------------ MODULE VlaAsync ------------------------------
(***************************************************************************)
(* Asynchronous action chunking (sapient-generate, vla_async.rs).          *)
(*                                                                         *)
(* The robot's control loop calls tick() once per control period: it       *)
(* merges the chunk that has arrived, asks the inference worker for the    *)
(* next one when the queue is at or below the trigger, and executes the    *)
(* action queued for the current step.  The worker is a thread behind two  *)
(* channels.  merge() is a loop: one step of the model per row.            *)
(*                                                                         *)
(* An action is represented by the chunk (plan) and row it comes from;     *)
(* the three Aggregate modes differ only in the numbers they compute for   *)
(* an overlapped row, so all of them record the newest plan.               *)
(***************************************************************************)
EXTENDS Integers, Sequences

CONSTANTS
    ChunkLen,        \* actions per chunk
    AutoAhead,       \* Threshold::Auto, else Threshold::Fraction
    FixedTrigger,    \* the queue length Fraction stands for
    MinLatency,      \* control ticks an inference takes
    MaxLatency,
    MayFail,         \* may observe() or the policy return an error?
    MayPanic,        \* may the worker thread die?
    MaxSteps,        \* bound on executed actions
    MaxRequests      \* bound on requested chunks

ASSUME SizeAssumption ==
    /\ ChunkLen \in Nat \ {0}
    /\ FixedTrigger \in 0 .. ChunkLen
    /\ MinLatency \in Nat /\ MaxLatency \in Nat
    /\ MaxSteps \in Nat /\ MaxRequests \in Nat
ASSUME ModeAssumption ==
    AutoAhead \in BOOLEAN /\ MayFail \in BOOLEAN /\ MayPanic \in BOOLEAN

VARIABLES
    pc,          \* where the control loop is: "idle" between two ticks
    queue,       \* pending actions: [step, plan, from, row]
    step,        \* actions executed so far
    pending,     \* a request is in flight
    age,         \* ticks since that request was sent
    latencies,   \* latency_ticks of the last five chunks
    chunks,      \* chunks merged
    nextSeed,    \* chunks requested; seeds and names the next chunk
    merging,     \* the chunk being merged and the next row of it
    requests, replies,   \* the two channels
    worker,      \* the inference thread: "idle", "busy" or "exited"
    job,         \* the request it works on
    executed     \* history: the last action executed

vars == <<pc, queue, step, pending, age, latencies, chunks, nextSeed, merging, requests,
          replies, worker, job, executed>>
channels == <<requests, replies, worker, job>>

NoPlan == [plan |-> 0, from |-> 0]

Init ==
    /\ pc = "idle" /\ queue = <<>> /\ step = 0 /\ pending = FALSE /\ age = 0
    /\ latencies = <<>> /\ chunks = 0 /\ nextSeed = 1
    /\ merging = [plan |-> 0, from |-> 0, row |-> 0]
    /\ requests = <<>> /\ replies = <<>> /\ worker = "idle" /\ job = NoPlan
    /\ executed = [step |-> 0, plan |-> 0, from |-> 0, row |-> 0]

-----------------------------------------------------------------------------
(* The trigger                                                             *)

\* Mutant: the worst latency is not covered, only half of it.
AutoTrigger_Half(d, c) == IF 2 * d > c THEN 0 ELSE (d \div 2) + 1

\* auto_trigger: the queue length at which Threshold::Auto asks.
AutoTrigger(d, c) ==
    IF 2 * d > c THEN 0
    ELSE IF d + (d \div 5) + 2 < c THEN d + (d \div 5) + 2 ELSE c

Recent == {latencies[i] : i \in DOMAIN latencies}
WorstRecent == CHOOSE d \in Recent : \A e \in Recent : e <= d

Trigger ==
    IF ~AutoAhead THEN FixedTrigger
    ELSE IF latencies = <<>> THEN 0
    ELSE AutoTrigger(WorstRecent, ChunkLen)

\* The last five entries of latency_ticks are all that is ever read.
Push(lat, d) ==
    LET all == Append(lat, d)
    IN  IF Len(all) > 5 THEN Tail(all) ELSE all

-----------------------------------------------------------------------------
(* tick()                                                                  *)

\* The control period begins.  MaxLatency is where a slow inference is late.
BeginTick ==
    /\ pc = "idle"
    /\ step < MaxSteps
    /\ nextSeed <= MaxRequests
    /\ ~(pending /\ replies = <<>> /\ worker # "exited" /\ age >= MaxLatency)
    /\ pc' = "recv"
    /\ UNCHANGED <<queue, step, pending, age, latencies, chunks, nextSeed, merging,
                   channels, executed>>

\* try_recv() finds a reply.  An inference error ends the tick at once.
Receive ==
    /\ pc = "recv" /\ replies # <<>>
    /\ pending' = FALSE
    /\ replies' = Tail(replies)
    /\ IF Head(replies).ok
       THEN /\ pc' = "merge"
            /\ merging' = [plan |-> Head(replies).plan, from |-> Head(replies).from,
                           row |-> 0]
       ELSE pc' = "idle" /\ UNCHANGED merging
    /\ UNCHANGED <<queue, step, age, latencies, chunks, nextSeed, requests, worker, job,
                   executed>>

\* try_recv() finds nothing: go on, or fail when the worker is gone.
ReceiveNothing ==
    /\ pc = "recv" /\ replies = <<>>
    /\ pc' = IF worker = "exited" THEN "idle" ELSE "request"
    /\ UNCHANGED <<queue, step, pending, age, latencies, chunks, nextSeed, merging,
                   channels, executed>>

\* The step the next row of the arriving chunk is for, and its queue index.
RowStep == merging.from + merging.row
QueueFront == IF queue = <<>> THEN RowStep ELSE Head(queue).step
Index == RowStep - QueueFront

RowAction == [step |-> RowStep, plan |-> merging.plan, from |-> merging.from,
              row |-> merging.row]

\* merge(), one row: too late, over a queued action, or behind the queue.
\* Any other index throws the queue away ("cannot happen").
DropRow == RowStep < step /\ UNCHANGED queue

\* Mutant: the row replaces the queued action after the one it is for.
OverwriteRow_OffByOne ==
    /\ RowStep >= step /\ Index \in 0 .. Len(queue) - 1
    /\ LET i == IF Index + 2 <= Len(queue) THEN Index + 2 ELSE Index + 1
       IN  queue' = [queue EXCEPT ![i] = [RowAction EXCEPT !.step = queue[i].step]]

OverwriteRow ==
    /\ RowStep >= step /\ Index \in 0 .. Len(queue) - 1
    /\ queue' = [queue EXCEPT ![Index + 1] =
                     [RowAction EXCEPT !.step = queue[Index + 1].step]]
AppendRow ==
    /\ RowStep >= step /\ Index = Len(queue)
    /\ queue' = Append(queue, RowAction)
ResetQueue ==
    /\ RowStep >= step /\ Index \notin 0 .. Len(queue)
    /\ queue' = <<RowAction>>

MergeRow ==
    /\ pc = "merge" /\ merging.row < ChunkLen
    /\ DropRow \/ OverwriteRow \/ AppendRow \/ ResetQueue
    /\ merging' = [merging EXCEPT !.row = @ + 1]
    /\ UNCHANGED <<pc, step, pending, age, latencies, chunks, nextSeed, channels,
                   executed>>

MergeEnd ==
    /\ pc = "merge" /\ merging.row = ChunkLen
    /\ pc' = "recv"
    /\ chunks' = chunks + 1
    /\ latencies' = Push(latencies, age)
    /\ UNCHANGED <<queue, step, pending, age, nextSeed, merging, channels, executed>>

Wanted == ~pending /\ Len(queue) <= Trigger

\* Observe and ask for a chunk.
SendRequest ==
    /\ pc = "request" /\ Wanted /\ worker # "exited"
    /\ requests' = Append(requests, [plan |-> nextSeed, from |-> step])
    /\ nextSeed' = nextSeed + 1
    /\ pending' = TRUE /\ age' = 0
    /\ pc' = "execute"
    /\ UNCHANGED <<queue, step, latencies, chunks, merging, replies, worker, job, executed>>

\* Mutant: pending is set before observe() is called.
RequestFails_Pending ==
    /\ pc = "request" /\ Wanted
    /\ \/ MayFail /\ UNCHANGED nextSeed
       \/ worker = "exited" /\ nextSeed' = nextSeed + 1
    /\ pc' = "idle" /\ pending' = TRUE
    /\ UNCHANGED <<queue, step, age, latencies, chunks, merging, channels, executed>>

\* observe() fails, or the worker died since try_recv(): the tick is over.
RequestFails ==
    /\ pc = "request" /\ Wanted
    /\ \/ MayFail /\ UNCHANGED nextSeed
       \/ worker = "exited" /\ nextSeed' = nextSeed + 1
    /\ pc' = "idle"
    /\ UNCHANGED <<queue, step, pending, age, latencies, chunks, merging, channels, executed>>

NoRequest ==
    /\ pc = "request" /\ ~Wanted
    /\ pc' = "execute"
    /\ UNCHANGED <<queue, step, pending, age, latencies, chunks, nextSeed, merging,
                   channels, executed>>

\* Mutant: a tick without an action still counts as a step of the plan.
Execute_StallAdvances ==
    /\ pc = "execute"
    /\ IF queue # <<>> /\ Head(queue).step = step
       THEN queue' = Tail(queue) /\ executed' = Head(queue)
       ELSE UNCHANGED <<queue, executed>>
    /\ step' = step + 1
    /\ age' = IF pending THEN age + 1 ELSE age
    /\ pc' = "idle"
    /\ UNCHANGED <<pending, latencies, chunks, nextSeed, merging, channels>>

\* The action of this tick, if one is queued for the current step.
Execute ==
    /\ pc = "execute"
    /\ IF queue # <<>> /\ Head(queue).step = step
       THEN queue' = Tail(queue) /\ step' = step + 1 /\ executed' = Head(queue)
       ELSE UNCHANGED <<queue, step, executed>>
    /\ age' = IF pending THEN age + 1 ELSE age
    /\ pc' = "idle"
    /\ UNCHANGED <<pending, latencies, chunks, nextSeed, merging, channels>>

\* Drop: the request channel closes, then the worker is joined.
Drop ==
    /\ pc = "idle"
    /\ pc' = "closing"
    /\ UNCHANGED <<queue, step, pending, age, latencies, chunks, nextSeed, merging,
                   channels, executed>>

Join ==
    /\ pc = "closing" /\ worker = "exited"
    /\ pc' = "gone"
    /\ UNCHANGED <<queue, step, pending, age, latencies, chunks, nextSeed, merging,
                   channels, executed>>

-----------------------------------------------------------------------------
(* The worker thread                                                       *)

TakeRequest ==
    /\ worker = "idle" /\ requests # <<>>
    /\ worker' = "busy" /\ job' = Head(requests) /\ requests' = Tail(requests)
    /\ UNCHANGED <<pc, queue, step, pending, age, latencies, chunks, nextSeed, merging,
                   replies, executed>>

Predict(ok) ==
    /\ worker = "busy" /\ (age >= MinLatency \/ pc = "closing")
    /\ worker' = "idle"
    /\ replies' = Append(replies, [plan |-> job.plan, from |-> job.from, ok |-> ok])
    /\ UNCHANGED <<pc, queue, step, pending, age, latencies, chunks, nextSeed, merging,
                   requests, job, executed>>

\* Mutant: the worker waits for another request although the channel is closed.
WorkerExits_Never ==
    /\ worker = "idle" /\ requests # <<>> /\ pc = "closing"
    /\ worker' = "exited"
    /\ UNCHANGED <<pc, queue, step, pending, age, latencies, chunks, nextSeed, merging,
                   requests, replies, job, executed>>

\* The request channel is closed and empty.
WorkerExits ==
    /\ worker = "idle" /\ requests = <<>> /\ pc = "closing"
    /\ worker' = "exited"
    /\ UNCHANGED <<pc, queue, step, pending, age, latencies, chunks, nextSeed, merging,
                   requests, replies, job, executed>>

\* predict_chunk panics: the thread ends and its channel ends are dropped.
WorkerPanics ==
    /\ MayPanic /\ worker = "busy"
    /\ worker' = "exited"
    /\ UNCHANGED <<pc, queue, step, pending, age, latencies, chunks, nextSeed, merging,
                   requests, replies, job, executed>>

-----------------------------------------------------------------------------
Tick ==
    \/ BeginTick \/ Receive \/ ReceiveNothing \/ MergeRow \/ MergeEnd \/ SendRequest
    \/ RequestFails \/ NoRequest \/ Execute
Worker ==
    \/ TakeRequest \/ Predict(TRUE) \/ (MayFail /\ Predict(FALSE)) \/ WorkerExits

Next == Tick \/ Drop \/ Join \/ Worker \/ WorkerPanics

Spec == Init /\ [][Next]_vars

\* The control loop keeps ticking and the worker keeps computing.
FairSpec == Spec /\ WF_vars(Tick) /\ WF_vars(Worker) /\ WF_vars(Join)

-----------------------------------------------------------------------------
(* Properties                                                              *)

Actions == [step : Nat, plan : Nat, from : Nat, row : Nat]

\* Types of the variables.
TypeOK ==
    /\ pc \in {"idle", "recv", "merge", "request", "execute", "closing", "gone"}
    /\ queue \in Seq(Actions)
    /\ step \in Nat /\ pending \in BOOLEAN /\ age \in Nat
    /\ latencies \in Seq(Nat) /\ Len(latencies) <= 5 /\ chunks \in Nat /\ nextSeed \in Nat
    /\ merging \in [plan : Nat, from : Nat, row : Nat]
    /\ requests \in Seq([plan : Nat, from : Nat])
    /\ replies \in Seq([plan : Nat, from : Nat, ok : BOOLEAN])
    /\ worker \in {"idle", "busy", "exited"}
    /\ job \in [plan : Nat, from : Nat]
    /\ executed \in Actions

\* "(step, action), consecutive steps from the front": the queue is the run of
\* steps from the current one, and every action is the row planned for its step.
QueueAligned ==
    \A i \in DOMAIN queue :
        /\ queue[i].step = step + i - 1
        /\ queue[i].from + queue[i].row = queue[i].step

\* "Cannot happen with one request in flight": merge never throws the queue away.
QueueNeverReset ==
    pc = "merge" /\ merging.row < ChunkLen /\ RowStep >= step => Index \in 0 .. Len(queue)

\* pending is exactly "one request is queued, being computed or answered",
\* unless the worker died with it.
OneInFlight ==
    LET inFlight == Len(requests) + Len(replies) + IF worker = "busy" THEN 1 ELSE 0
    IN  IF pending /\ worker = "exited" THEN inFlight <= 1
        ELSE inFlight = IF pending THEN 1 ELSE 0

\* The robot executes every step once, in order, and never goes back from a
\* plan made from a newer observation to one made from an older one.
ExecutesInOrder ==
    [][step' # step => /\ step' = step + 1
                       /\ executed'.step = step
                       /\ executed'.plan >= executed.plan
                       /\ executed'.from >= executed.from]_vars

\* Threshold::Auto, d <= c/2: after the first chunk there is always an action
\* to execute, as long as the latency stays within the trigger's margin.
NeverStalls == pc = "execute" /\ chunks > 0 => queue # <<>>

\* The errors of a policy or of a camera.
Fails == RequestFails \/ (Receive /\ ~Head(replies).ok)

\* As long as the control loop ticks the robot moves on, unless its policy or its camera fails
\* for ever: an error leaves a state from which a later tick asks again.  (A worker that has
\* died is never replaced: every tick returns an error from then on.)
KeepsMoving ==
    \/ []<><<Fails>>_vars
    \/ \A s \in 0 .. MaxSteps - 1 :
          step = s ~> step > s \/ pc \in {"closing", "gone"} \/ worker = "exited" \/ nextSeed > MaxRequests

\* Dropping the pipeline never hangs, whatever the worker is doing.
DropReturns == pc = "closing" ~> pc = "gone"

-----------------------------------------------------------------------------
(* The inductive invariant: why "cannot happen" cannot happen.             *)

\* A chunk that is requested, being computed or answered was asked for at or
\* before the current step, and after the chunk that was merged last.
Newer(r) ==
    /\ merging.plan < r.plan /\ r.plan < nextSeed
    /\ merging.from <= r.from /\ r.from <= step
FlightOK ==
    /\ \A i \in DOMAIN requests : Newer(requests[i])
    /\ \A i \in DOMAIN replies : Newer(replies[i])
    /\ worker = "busy" => Newer(job)

\* The chunk being merged, or merged last.
MergingOK ==
    /\ merging.from <= step /\ merging.row <= ChunkLen
    /\ merging.plan < nextSeed
    /\ executed.plan <= merging.plan /\ executed.from <= merging.from

\* Merging replaces the queue from the front: rows already merged are the new
\* plan's, the others come from an older plan of the same length.
QueuePlans ==
    \A i \in DOMAIN queue :
        /\ queue[i].row < ChunkLen
        /\ queue[i].plan <= merging.plan /\ queue[i].from <= merging.from
        /\ (pc # "merge" \/ queue[i].step < RowStep) =>
               queue[i].plan = merging.plan /\ queue[i].from = merging.from

\* A merge reaches no further than one action behind the queue.
MergeReach == pc = "merge" => RowStep <= step + Len(queue)

IndInv ==
    /\ TypeOK /\ QueueAligned /\ OneInFlight /\ FlightOK /\ MergingOK /\ QueuePlans
    /\ MergeReach
=============================================================================
