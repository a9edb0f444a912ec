------------------------------ MODULE Executor ------------------------------
(***************************************************************************)
(* Batched execution (sapient-scheduler): clients send requests over a     *)
(* channel; run_async drains it into a StaticBatchScheduler or a           *)
(* DynamicBatchScheduler, executes the batches they form on a blocking     *)
(* thread, and answers every request over its own oneshot channel.         *)
(***************************************************************************)
EXTENDS Naturals, Sequences, SequencesExt

CONSTANTS
    Jobs,   \* the requests clients may send
    BATCH       \* batch_size, max_batch_size

ASSUME ExecutorAssumption == BATCH \in Nat \ {0}

VARIABLES
    scheduler,  \* "static" or "dynamic"
    open,       \* some client still holds a sender
    chan,       \* sent and not yet received
    queue,      \* the scheduler's queue
    window,     \* DynamicBatchScheduler.window_start: none, open, or older than max_wait
    batch,      \* the batch being executed
    epc,        \* where run_async is
    ran,        \* requests of executed batches, in order
    reply       \* request -> what its client has got: nothing yet, an answer, a closed channel

exVars == <<scheduler, open, chan, queue, window, batch, epc, ran, reply>>

Sent == ran \o batch \o queue \o chan

ExInit ==
    /\ scheduler \in {"static", "dynamic"}
    /\ open = TRUE
    /\ chan = <<>> /\ queue = <<>> /\ batch = <<>> /\ ran = <<>>
    /\ window = "none"
    /\ epc = "drain"
    /\ reply = [r \in Jobs |-> "none"]

-----------------------------------------------------------------------------
(* Clients, and time.                                                      *)

Send(r) ==
    /\ open /\ epc # "done"
    /\ r \notin ToSet(Sent)
    /\ chan' = Append(chan, r)
    /\ UNCHANGED <<scheduler, open, queue, window, batch, epc, ran, reply>>

DropSenders ==
    /\ open
    /\ open' = FALSE
    /\ UNCHANGED <<scheduler, chan, queue, window, batch, epc, ran, reply>>

\* max_wait passes since the window was opened.
Elapse ==
    /\ window = "open"
    /\ window' = "elapsed"
    /\ UNCHANGED <<scheduler, open, chan, queue, batch, epc, ran, reply>>

-----------------------------------------------------------------------------
(* run_async.                                                              *)

\* try_recv returns a request: BatchScheduler::submit.
Submit ==
    /\ epc = "drain"
    /\ chan # <<>>
    /\ queue' = Append(queue, Head(chan))
    /\ chan' = Tail(chan)
    /\ window' = IF scheduler = "dynamic" /\ window = "none" THEN "open" ELSE window
    /\ UNCHANGED <<scheduler, open, batch, epc, ran, reply>>

\* try_recv finds the channel empty.
Drained ==
    /\ epc = "drain"
    /\ chan = <<>>
    /\ epc' = "form"
    /\ UNCHANGED <<scheduler, open, chan, queue, window, batch, ran, reply>>

Emits ==
    /\ queue # <<>>
    /\ Len(queue) >= BATCH \/ (scheduler = "dynamic" /\ window = "elapsed")

Least(a, b) == IF a < b THEN a ELSE b

\* Mutant: the window is closed although requests are left behind.
TryFormBatch_ClearsWindow ==
    /\ epc = "form"
    /\ Emits
    /\ LET size == Least(Len(queue), BATCH)
       IN  /\ batch' = SubSeq(queue, 1, size)
           /\ queue' = SubSeq(queue, size + 1, Len(queue))
    /\ window' = "none"
    /\ epc' = "run"
    /\ UNCHANGED <<scheduler, open, chan, ran, reply>>

\* try_form_batch: the oldest requests; the window stays with those left behind.
TryFormBatch ==
    /\ epc = "form"
    /\ Emits
    /\ LET size == Least(Len(queue), BATCH)
       IN  /\ batch' = SubSeq(queue, 1, size)
           /\ queue' = SubSeq(queue, size + 1, Len(queue))
    /\ window' = IF queue' = <<>> THEN "none" ELSE window
    /\ epc' = "run"
    /\ UNCHANGED <<scheduler, open, chan, ran, reply>>

NoBatch ==
    /\ epc = "form"
    /\ ~Emits
    /\ epc' = "check"
    /\ UNCHANGED <<scheduler, open, chan, queue, window, batch, ran, reply>>

Answer(rs, what) == [r \in Jobs |-> IF r \in rs THEN what ELSE reply[r]]

\* execute_batch on a blocking thread: one result, or one error, for every request of the batch.
RunBatch ==
    /\ epc = "run"
    /\ reply' = Answer(ToSet(batch), "answered")
    /\ ran' = ran \o batch /\ batch' = <<>>
    /\ epc' = "check"
    /\ UNCHANGED <<scheduler, open, chan, queue, window>>

\* It panics (a tensor of another dtype than f32): the join error is dropped, and the senders
\* stay in response_map.
BatchPanics ==
    /\ epc = "run"
    /\ ran' = ran \o batch /\ batch' = <<>>
    /\ epc' = "check"
    /\ UNCHANGED <<scheduler, open, chan, queue, window, reply>>

\* Mutant: closed means there is nothing left to do.
CheckClosed_NoFlush ==
    /\ epc = "check"
    /\ epc' = IF open THEN "drain" ELSE "exit"
    /\ UNCHANGED <<scheduler, open, chan, queue, window, batch, ran, reply>>

\* rx.is_closed(): the next round, or a last batch of all that is queued.
CheckClosed ==
    /\ epc = "check"
    /\ IF open THEN epc' = "drain" /\ UNCHANGED <<queue, window, batch>>
       ELSE /\ batch' = queue /\ queue' = <<>>
            /\ window' = IF queue = <<>> THEN window ELSE "none"
            /\ epc' = IF queue = <<>> THEN "exit" ELSE "flush"
    /\ UNCHANGED <<scheduler, open, chan, ran, reply>>

\* The flushed batch runs on run_async's own task.
Flush ==
    /\ epc = "flush"
    /\ reply' = Answer(ToSet(batch), "answered")
    /\ ran' = ran \o batch /\ batch' = <<>>
    /\ epc' = "exit"
    /\ UNCHANGED <<scheduler, open, chan, queue, window>>

FlushPanics ==
    /\ epc = "flush"
    /\ ran' = ran \o batch /\ batch' = <<>>
    /\ epc' = "exit"
    /\ UNCHANGED <<scheduler, open, chan, queue, window, reply>>

\* Returning drops response_map and what is still in the channel: those clients see it closed.
Return ==
    /\ epc = "exit"
    /\ epc' = "done"
    /\ reply' = [r \in Jobs |-> IF r \in ToSet(Sent) /\ reply[r] = "none" THEN "closed" ELSE reply[r]]
    /\ UNCHANGED <<scheduler, open, chan, queue, window, batch, ran>>

RunAsync == Submit \/ Drained \/ TryFormBatch \/ NoBatch \/ RunBatch \/ BatchPanics \/ CheckClosed \/ Flush \/ FlushPanics \/ Return

ExNext == (\E r \in Jobs : Send(r)) \/ DropSenders \/ Elapse \/ RunAsync

ExSpec == ExInit /\ [][ExNext]_exVars

\* The task is polled again and again, its blocking thread runs, and time passes.
ExFairness == WF_exVars(RunAsync) /\ WF_exVars(Elapse)

-----------------------------------------------------------------------------

\* No queued request is left without a clock: as long as the dynamic queue holds one, the
\* window of the oldest is running, so that a batch is due although nobody sends again.
WindowCoversQueue == scheduler = "dynamic" /\ queue # <<>> => window # "none"

\* No request is lost, repeated or overtaken between its client and its execution: batches,
\* queue and channel, one after the other, only ever grow by the request sent last; and when
\* run_async returns, all that it ever received has been executed.
ExecutedInOrder ==
    [][ /\ IsPrefix(Sent, Sent')
        /\ epc' = "done" => queue' = <<>> /\ batch' = <<>>
      ]_exVars

\* A request the dynamic scheduler holds is executed, without any further request.
QueueDrains == \A r \in Jobs : (scheduler = "dynamic" /\ r \in ToSet(queue)) ~> (r \in ToSet(ran))
=============================================================================
