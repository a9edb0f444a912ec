------------------------------ MODULE SpinPool ------------------------------
(***************************************************************************)
(* The persistent spin-wait pool of sapient-backends/cpu (spinpool.rs).    *)
(*                                                                         *)
(* A publisher executes run(n, f): it serializes on `publish`, closes the  *)
(* door (generation odd), drains `active`, rewrites the op slot, opens the *)
(* door (generation even), wakes parked workers and then claims blocks of  *)
(* chunks itself.  A worker waits for a new even generation (spinning,     *)
(* then parked on a condition variable), registers in `active`, validates  *)
(* the generation, copies the slot and claims blocks until none is left.   *)
(*                                                                         *)
(* Every access to a shared atomic is a step of its own.  The op slot is a *)
(* plain (non atomic) cell, so writing it and copying it take two steps:   *)
(* the closure pointer first, the chunk geometry second.                   *)
(***************************************************************************)
EXTENDS Integers, FiniteSets

CONSTANTS
    Workers,         \* the pool's threads
    Publishers,      \* threads that call run()
    MaxChunks,       \* n_chunks of a run is in 0..MaxChunks
    MaxRuns,         \* bound: how often one publisher calls run()
    BlockOverride,   \* SAPIENT_SPINPOOL_BLOCK, 0 when it is not set
    NoThread,        \* nobody: the free mutex, the null closure
    StaleRecheck     \* may a parking worker's Acquire load read an old value?

ASSUME ThreadsAssumption ==
    /\ IsFiniteSet(Workers)
    /\ IsFiniteSet(Publishers)
    /\ Workers \cap Publishers = {}
    /\ NoThread \notin Workers \cup Publishers
ASSUME BoundsAssumption ==
    /\ MaxChunks \in Nat
    /\ MaxRuns \in Nat
    /\ BlockOverride \in Nat
    /\ StaleRecheck \in BOOLEAN

Threads == Workers \cup Publishers

\* The closure pointer `ctx`: the k-th run of publisher p.  Run 0 never
\* exists: it stands for the null pointer of the default slot.
Ctxs == [pub : Publishers \cup {NoThread}, run : Nat]
NullCtx == [pub |-> NoThread, run |-> 0]

\* Mutant: the last, shorter block is forgotten.
NumBlocks_Floor(n, block) == n \div block

\* n_chunks.div_ceil(block)
NumBlocks(n, block) == (n + block - 1) \div block

\* Chunks per claimed block for an op of n chunks.
BlockSize(n) ==
    LET guided == n \div (3 * (Cardinality(Workers) + 1))
    IN  IF BlockOverride > 0 THEN BlockOverride
        ELSE IF guided >= 1 THEN guided ELSE 1

VARIABLES
    generation,   \* even: an op is published; odd: the slot is being rewritten
    slot,         \* the shared OpSlot
    nextBlock, completed, active, parked,       \* the shared counters
    publish,      \* holder of the publish mutex
    sleep,        \* holder of the sleep mutex
    waiting,      \* workers blocked in Condvar::wait
    pc,           \* program counter of every thread
    local,        \* every thread's own copy of the op it executes
    lo, hi,       \* the chunks of the claimed block that are still to be called
    seen, g,      \* a worker's locals
    runs,         \* history: runs a publisher has started
    calls         \* history: how often f(c) was called in the current run

shared == <<generation, slot, nextBlock, completed, active>>
park == <<parked, sleep, waiting>>
exec == <<lo, hi, calls>>
vars == <<shared, park, publish, pc, local, exec, seen, g, runs>>

Goto(t, from, to) == pc[t] = from /\ pc' = [pc EXCEPT ![t] = to]

New(gen, w) == gen % 2 = 0 /\ gen # seen[w]

Chunks == 0 .. MaxChunks - 1

\* The pc values between a worker's registration in `active` and its leave.
RegisteredPcs == {"check", "backout", "copyCtx", "copyDims", "claim", "call",
                  "complete", "leave"}
\* The pc values at which a publisher owns the `publish` mutex.
RewritingPcs == {"writeCtx", "writeDims", "resetNext", "resetCompleted", "open"}
ExecutingPcs == {"checkParked", "notify", "claim", "call", "complete", "await"}
HoldingPcs == {"close", "drain"} \cup RewritingPcs \cup ExecutingPcs
PublisherPcs == {"idle", "inline", "lock"} \cup HoldingPcs
WorkerPcs == {"spin", "park", "recheck", "wait", "unpark", "reload", "join"}
                 \cup RegisteredPcs

Init ==
    /\ generation = 0
    /\ slot = [ctx |-> NullCtx, n |-> 0, block |-> 1]
    /\ nextBlock = 0 /\ completed = 0 /\ active = 0 /\ parked = 0
    /\ publish = NoThread /\ sleep = NoThread /\ waiting = {}
    /\ pc = [t \in Threads |-> IF t \in Workers THEN "spin" ELSE "idle"]
    /\ local = [t \in Threads |-> slot]
    /\ lo = [t \in Threads |-> 0] /\ hi = [t \in Threads |-> 0]
    /\ seen = [w \in Workers |-> 0] /\ g = [w \in Workers |-> 0]
    /\ runs = [p \in Publishers |-> 0]
    /\ calls = [p \in Publishers |-> [c \in Chunks |-> 0]]

-----------------------------------------------------------------------------
(* run(): the publisher                                                    *)

\* run(n, f) is called.  An empty op returns at once; a single chunk, or a
\* pool without workers, runs inline on the calling thread.
StartRun(p, n) ==
    /\ runs[p] < MaxRuns
    /\ Goto(p, "idle", IF n = 0 THEN "idle"
                       ELSE IF n = 1 \/ Workers = {} THEN "inline" ELSE "lock")
    /\ runs' = [runs EXCEPT ![p] = @ + 1]
    /\ local' = [local EXCEPT ![p] = [ctx |-> [pub |-> p, run |-> runs[p] + 1],
                                      n |-> n, block |-> BlockSize(n)]]
    /\ lo' = [lo EXCEPT ![p] = 0] /\ hi' = [hi EXCEPT ![p] = n]
    /\ calls' = [calls EXCEPT ![p] = [c \in Chunks |-> 0]]
    /\ UNCHANGED <<shared, park, publish, seen, g>>

InlineChunk(p) ==
    /\ lo[p] < hi[p]
    /\ Goto(p, "inline", "inline")
    /\ calls' = [calls EXCEPT ![p][lo[p]] = @ + 1]
    /\ lo' = [lo EXCEPT ![p] = @ + 1]
    /\ UNCHANGED <<shared, park, publish, local, hi, seen, g, runs>>

InlineReturn(p) ==
    /\ lo[p] = hi[p]
    /\ Goto(p, "inline", "idle")
    /\ UNCHANGED <<shared, park, publish, local, exec, seen, g, runs>>

LockPublish(p) ==
    /\ publish = NoThread
    /\ Goto(p, "lock", "close")
    /\ publish' = p
    /\ UNCHANGED <<shared, park, local, exec, seen, g, runs>>

CloseDoor(p) ==
    /\ Goto(p, "close", "drain")
    /\ generation' = generation + 1
    /\ UNCHANGED <<slot, nextBlock, completed, active, park, publish, local, exec,
                   seen, g, runs>>

\* Mutant: the slot is rewritten without waiting for the workers inside.
DrainActive_NoWait(p) ==
    /\ Goto(p, "drain", "writeCtx")
    /\ UNCHANGED <<shared, park, publish, local, exec, seen, g, runs>>

DrainActive(p) ==
    /\ active = 0
    /\ Goto(p, "drain", "writeCtx")
    /\ UNCHANGED <<shared, park, publish, local, exec, seen, g, runs>>

WriteCtx(p) ==
    /\ Goto(p, "writeCtx", "writeDims")
    /\ slot' = [slot EXCEPT !.ctx = local[p].ctx]
    /\ UNCHANGED <<generation, nextBlock, completed, active, park, publish, local,
                   exec, seen, g, runs>>

WriteDims(p) ==
    /\ Goto(p, "writeDims", "resetNext")
    /\ slot' = [slot EXCEPT !.n = local[p].n, !.block = local[p].block]
    /\ UNCHANGED <<generation, nextBlock, completed, active, park, publish, local,
                   exec, seen, g, runs>>

ResetNext(p) ==
    /\ Goto(p, "resetNext", "resetCompleted")
    /\ nextBlock' = 0
    /\ UNCHANGED <<generation, slot, completed, active, park, publish, local, exec,
                   seen, g, runs>>

ResetCompleted(p) ==
    /\ Goto(p, "resetCompleted", "open")
    /\ completed' = 0
    /\ UNCHANGED <<generation, slot, nextBlock, active, park, publish, local, exec,
                   seen, g, runs>>

OpenDoor(p) ==
    /\ Goto(p, "open", "checkParked")
    /\ generation' = generation + 1
    /\ UNCHANGED <<slot, nextBlock, completed, active, park, publish, local, exec,
                   seen, g, runs>>

CheckParked(p) ==
    /\ Goto(p, "checkParked", IF parked > 0 THEN "notify" ELSE "claim")
    /\ UNCHANGED <<shared, park, publish, local, exec, seen, g, runs>>

\* notify_all under the sleep mutex.
NotifyAll(p) ==
    /\ sleep = NoThread
    /\ Goto(p, "notify", "claim")
    /\ waiting' = {}
    /\ UNCHANGED <<shared, parked, sleep, publish, local, exec, seen, g, runs>>

\* The completion barrier; leaving run() releases `publish`.
AwaitCompleted(p) ==
    /\ completed >= NumBlocks(local[p].n, local[p].block)
    /\ Goto(p, "await", "idle")
    /\ publish' = NoThread
    /\ UNCHANGED <<shared, park, local, exec, seen, g, runs>>

-----------------------------------------------------------------------------
(* execute_blocks(): publishers and workers                                *)

ClaimBlock(t) ==
    LET start == nextBlock * local[t].block
        end == start + local[t].block
    IN  /\ nextBlock' = nextBlock + 1
        /\ \/ /\ start < local[t].n
              /\ Goto(t, "claim", "call")
              /\ lo' = [lo EXCEPT ![t] = start]
              /\ hi' = [hi EXCEPT ![t] = IF end < local[t].n THEN end ELSE local[t].n]
           \/ /\ start >= local[t].n
              /\ Goto(t, "claim", IF t \in Workers THEN "leave" ELSE "await")
              /\ UNCHANGED <<lo, hi>>
        /\ UNCHANGED <<generation, slot, completed, active, park, publish, local, calls,
                       seen, g, runs>>

\* One call of the closure, through the ctx pointer the thread copied.
CallChunk(t) ==
    /\ Goto(t, "call", IF lo[t] + 1 = hi[t] THEN "complete" ELSE "call")
    /\ calls' = [calls EXCEPT ![local[t].ctx.pub][lo[t]] = @ + 1]
    /\ lo' = [lo EXCEPT ![t] = @ + 1]
    /\ UNCHANGED <<shared, park, publish, local, hi, seen, g, runs>>

CompleteBlock(t) ==
    /\ Goto(t, "complete", "claim")
    /\ completed' = completed + 1
    /\ UNCHANGED <<generation, slot, nextBlock, active, park, publish, local, exec,
                   seen, g, runs>>

-----------------------------------------------------------------------------
(* worker_loop()                                                           *)

\* A spinning worker reads a new even generation.
SpinSees(w) ==
    /\ New(generation, w)
    /\ Goto(w, "spin", "join")
    /\ g' = [g EXCEPT ![w] = generation]
    /\ UNCHANGED <<shared, park, publish, local, exec, seen, runs>>

\* spin_iters is used up: take the sleep mutex.
LockSleep(w) ==
    /\ sleep = NoThread
    /\ Goto(w, "spin", "park")
    /\ sleep' = w
    /\ UNCHANGED <<shared, parked, waiting, publish, local, exec, seen, g, runs>>

Park(w) ==
    /\ Goto(w, "park", "recheck")
    /\ parked' = parked + 1
    /\ UNCHANGED <<shared, sleep, waiting, publish, local, exec, seen, g, runs>>

\* Mutant: the worker waits without looking at the generation again.
Recheck_WaitBlindly(w) ==
    /\ Goto(w, "recheck", "wait")
    /\ waiting' = waiting \cup {w}
    /\ sleep' = NoThread
    /\ UNCHANGED <<shared, parked, publish, local, exec, seen, g, runs>>

\* The check under the sleep mutex: go on, or wait and release the mutex.
\* The load is only Acquire, so it may return the value before the latest bump.
Recheck(w) ==
    \E read \in {generation} \cup IF StaleRecheck /\ generation > 0
                                  THEN {generation - 1} ELSE {} :
        /\ \/ /\ New(read, w)
              /\ Goto(w, "recheck", "unpark")
              /\ UNCHANGED <<sleep, waiting>>
           \/ /\ ~New(read, w)
              /\ Goto(w, "recheck", "wait")
              /\ waiting' = waiting \cup {w}
              /\ sleep' = NoThread
        /\ UNCHANGED <<shared, parked, publish, local, exec, seen, g, runs>>

\* A notified worker gets the sleep mutex back.
Wake(w) ==
    /\ w \notin waiting
    /\ sleep = NoThread
    /\ Goto(w, "wait", "recheck")
    /\ sleep' = w
    /\ UNCHANGED <<shared, parked, waiting, publish, local, exec, seen, g, runs>>

\* Condvar::wait may return without a notification.
SpuriousWake(w) ==
    /\ w \in waiting
    /\ waiting' = waiting \ {w}
    /\ UNCHANGED <<shared, parked, sleep, publish, pc, local, exec, seen, g, runs>>

Unpark(w) ==
    /\ Goto(w, "unpark", "reload")
    /\ parked' = parked - 1
    /\ UNCHANGED <<shared, sleep, waiting, publish, local, exec, seen, g, runs>>

\* The generation is read again; an odd or old value sends the worker back.
Reload(w) ==
    /\ Goto(w, "reload", IF New(generation, w) THEN "join" ELSE "spin")
    /\ g' = [g EXCEPT ![w] = generation]
    /\ sleep' = NoThread
    /\ UNCHANGED <<shared, parked, waiting, publish, local, exec, seen, runs>>

Join(w) ==
    /\ Goto(w, "join", "check")
    /\ active' = active + 1
    /\ UNCHANGED <<generation, slot, nextBlock, completed, park, publish, local, exec,
                   seen, g, runs>>

\* Mutant: the worker trusts the generation it saw before it registered.
Check_Trusting(w) ==
    /\ Goto(w, "check", "copyCtx")
    /\ UNCHANGED <<shared, park, publish, local, exec, seen, g, runs>>

\* The authoritative read of the generation.
Check(w) ==
    /\ Goto(w, "check", IF generation = g[w] THEN "copyCtx" ELSE "backout")
    /\ UNCHANGED <<shared, park, publish, local, exec, seen, g, runs>>

\* Mutant: a worker that backs out stays registered.
BackOut_StaysActive(w) ==
    /\ Goto(w, "backout", "spin")
    /\ UNCHANGED <<shared, park, publish, local, exec, seen, g, runs>>

BackOut(w) ==
    /\ Goto(w, "backout", "spin")
    /\ active' = active - 1
    /\ UNCHANGED <<generation, slot, nextBlock, completed, park, publish, local, exec,
                   seen, g, runs>>

CopyCtx(w) ==
    /\ Goto(w, "copyCtx", "copyDims")
    /\ local' = [local EXCEPT ![w].ctx = slot.ctx]
    /\ UNCHANGED <<shared, park, publish, exec, seen, g, runs>>

CopyDims(w) ==
    /\ Goto(w, "copyDims", "claim")
    /\ local' = [local EXCEPT ![w] = [@ EXCEPT !.n = slot.n, !.block = slot.block]]
    /\ UNCHANGED <<shared, park, publish, exec, seen, g, runs>>

Leave(w) ==
    /\ Goto(w, "leave", "spin")
    /\ active' = active - 1
    /\ seen' = [seen EXCEPT ![w] = g[w]]
    /\ UNCHANGED <<generation, slot, nextBlock, completed, park, publish, local, exec,
                   g, runs>>

-----------------------------------------------------------------------------
Publish(p) ==
    \/ LockPublish(p) \/ CloseDoor(p) \/ DrainActive(p) \/ WriteCtx(p)
    \/ WriteDims(p) \/ ResetNext(p) \/ ResetCompleted(p) \/ OpenDoor(p)
    \/ CheckParked(p) \/ NotifyAll(p) \/ AwaitCompleted(p)
    \/ InlineChunk(p) \/ InlineReturn(p)

ExecuteBlocks(t) == ClaimBlock(t) \/ CallChunk(t) \/ CompleteBlock(t)

WorkerLoop(w) ==
    \/ SpinSees(w) \/ LockSleep(w) \/ Park(w) \/ Recheck(w) \/ Wake(w) \/ Unpark(w)
    \/ Reload(w) \/ Join(w) \/ Check(w) \/ BackOut(w) \/ CopyCtx(w) \/ CopyDims(w)
    \/ Leave(w)

Next ==
    \/ \E p \in Publishers : Publish(p) \/ \E n \in 0 .. MaxChunks : StartRun(p, n)
    \/ \E t \in Threads : ExecuteBlocks(t)
    \/ \E w \in Workers : WorkerLoop(w) \/ SpuriousWake(w)

Spec == Init /\ [][Next]_vars

\* The operating system keeps running every thread that can take a step.
\* Nothing forces a publisher to call run() or a condvar to wake spuriously.
\* The sleep mutex, free again and again, is at last given to the notifier
\* (workers could otherwise wake spuriously for ever and always be faster).
Fairness ==
    /\ \A p \in Publishers : /\ WF_vars(Publish(p) \/ ExecuteBlocks(p))
                             /\ SF_vars(NotifyAll(p))
    /\ \A w \in Workers : WF_vars(WorkerLoop(w) \/ ExecuteBlocks(w))

FairSpec == Spec /\ Fairness

-----------------------------------------------------------------------------
(* Properties                                                              *)

OpSlots == [ctx : Ctxs, n : 0 .. MaxChunks, block : Nat \ {0}]

\* Types of the variables.
TypeOK ==
    /\ generation \in Nat
    /\ slot \in OpSlots
    /\ nextBlock \in Nat /\ completed \in Nat /\ active \in Nat /\ parked \in Nat
    /\ publish \in Publishers \cup {NoThread}
    /\ sleep \in Workers \cup {NoThread}
    /\ waiting \in SUBSET Workers
    /\ pc \in [Threads -> PublisherPcs \cup WorkerPcs]
    /\ \A p \in Publishers : pc[p] \in PublisherPcs
    /\ \A w \in Workers : pc[w] \in WorkerPcs
    /\ local \in [Threads -> OpSlots]
    /\ lo \in [Threads -> Nat] /\ hi \in [Threads -> Nat]
    /\ seen \in [Workers -> Nat] /\ g \in [Workers -> Nat]
    /\ runs \in [Publishers -> Nat]
    /\ calls \in [Publishers -> [Chunks -> Nat]]

\* The safety argument of the op-handoff protocol: while a publisher rewrites
\* the slot no worker is copying it, so no worker ever executes a torn op.
NoTornCopy ==
    \A p \in Publishers, w \in Workers :
        pc[p] \in RewritingPcs => pc[w] \notin {"copyCtx", "copyDims"}

\* "ctx outlives the op": a closure is only ever called for the run that its
\* publisher is still inside, and only with a chunk of that run.  A worker that
\* wakes late may hold an old ctx, but then it finds no block to claim.
CtxLive ==
    \A t \in Threads :
        pc[t] = "call" =>
            LET ctx == local[t].ctx
            IN  /\ ctx.pub \in Publishers
                /\ ctx.run = runs[ctx.pub]
                /\ pc[ctx.pub] # "idle"
                /\ lo[t] < local[ctx.pub].n

\* The contract of run(): every chunk is called at most once, whoever claims
\* it, and when run() has returned every chunk was called exactly once.
ExactlyOnce ==
    \A p \in Publishers, c \in Chunks :
        /\ calls[p][c] <= IF c < local[p].n THEN 1 ELSE 0
        /\ pc[p] = "idle" /\ c < local[p].n => calls[p][c] = 1

\* A worker that waits although a new op is published is going to be notified:
\* the publisher of that op has not yet passed its notify_all.
NoLostWakeup ==
    \A w \in waiting :
        New(generation, w) =>
            \E p \in Publishers : pc[p] \in {"checkParked", "notify"}

\* The pool implements the abstract parallel loop.
RunningRuns == {p \in Publishers : pc[p] # "idle"}
TodoChunks == [p \in Publishers |-> {c \in 0 .. local[p].n - 1 : calls[p][c] = 0}]
Loop == INSTANCE ParallelFor WITH running <- RunningRuns, todo <- TodoChunks
ImplementsLoop == Loop!Spec

\* "Concurrent publishers serialize on a lock (never a deadlock)": every run()
\* returns, whatever the workers do and even if every wake-up is missed.
RunReturns == \A p \in Publishers : pc[p] # "idle" ~> pc[p] = "idle"

-----------------------------------------------------------------------------
(* The inductive invariant: why the op-handoff protocol works.             *)

\* What the owner of the publish mutex is doing.
OwnerPc == IF publish = NoThread THEN "free" ELSE pc[publish]

ClosedPcs == {"drain"} \cup RewritingPcs
ValidatedPcs == {"copyCtx", "copyDims", "claim", "call", "complete", "leave"}

Registered == {w \in Workers : pc[w] \in RegisteredPcs}
Parked == {w \in Workers : pc[w] \in {"recheck", "wait", "unpark"}}
Running == {t \in Threads : pc[t] \in {"call", "complete"}}

\* The counters count threads, and the mutex is held where the code holds it.
ActiveCount == active = Cardinality(Registered)
ParkedCount == parked = Cardinality(Parked)
PublishMutex == \A p \in Publishers : pc[p] \in HoldingPcs <=> publish = p

\* The generation is odd exactly while the door is closed.
Parity == generation % 2 = 1 <=> OwnerPc \in ClosedPcs

\* A validated worker holds back the rewrite: the generation it validated is
\* the current one, or the publisher has closed the door and is draining.
Validated ==
    \A w \in Workers :
        /\ pc[w] \in {"join"} \cup RegisteredPcs => g[w] % 2 = 0
        /\ pc[w] \in ValidatedPcs =>
               \/ generation = g[w]
               \/ generation = g[w] + 1 /\ OwnerPc = "drain"

\* Private copies agree with the slot.
Copies ==
    /\ \A w \in Workers :
           /\ pc[w] = "copyDims" => local[w].ctx = slot.ctx
           /\ pc[w] \in {"claim", "call", "complete"} => local[w] = slot
    /\ \A p \in Publishers :
           /\ local[p].ctx.run = runs[p]
           /\ pc[p] # "idle" => local[p].ctx.pub = p
           /\ pc[p] = "writeDims" => slot.ctx = local[p].ctx
           /\ pc[p] \in {"resetNext", "resetCompleted", "open"} \cup ExecutingPcs =>
                  slot = local[p]

\* Every claimed block is complete or is being run, and when no op is being
\* executed all blocks of the last one are complete.
BlocksOf(op) == NumBlocks(op.n, op.block)
Progress ==
    /\ OwnerPc \in {"resetCompleted", "open"} => nextBlock = 0
    /\ OwnerPc = "open" => completed = 0
    /\ OwnerPc \notin RewritingPcs =>
           completed + Cardinality(Running) =
               IF nextBlock < BlocksOf(slot) THEN nextBlock ELSE BlocksOf(slot)
    /\ OwnerPc \notin RewritingPcs \cup ExecutingPcs => completed = BlocksOf(slot)

\* The chunks a running thread still has to call are its alone.
Ranges ==
    /\ \A t \in Threads :
           /\ pc[t] = "call" => lo[t] < hi[t]
           /\ pc[t] \in {"call", "complete"} =>
                  hi[t] <= slot.n /\ hi[t] <= nextBlock * slot.block
    /\ \A t, u \in Threads :
           pc[t] = "call" /\ pc[u] = "call" /\ t # u => hi[t] <= lo[u] \/ hi[u] <= lo[t]

Outstanding(c) == \E t \in Threads : pc[t] = "call" /\ lo[t] <= c /\ c < hi[t]
Called(c) == c < slot.n /\ c < nextBlock * slot.block /\ ~Outstanding(c)

\* calls is determined by what has been claimed and what is outstanding.
CallsMade ==
    \A p \in Publishers :
        /\ pc[p] = "idle" =>
               \A c \in Chunks : calls[p][c] = IF c < local[p].n THEN 1 ELSE 0
        /\ pc[p] = "inline" =>
               /\ lo[p] <= hi[p] /\ hi[p] = local[p].n
               /\ \A c \in Chunks : calls[p][c] = IF c < lo[p] THEN 1 ELSE 0
        /\ pc[p] \in {"lock", "close"} \cup ClosedPcs =>
               \A c \in Chunks : calls[p][c] = 0
        /\ pc[p] \in ExecutingPcs =>
               \A c \in Chunks : calls[p][c] = IF Called(c) THEN 1 ELSE 0

IndInv ==
    /\ TypeOK /\ ActiveCount /\ ParkedCount /\ PublishMutex /\ Parity /\ Validated
    /\ Copies /\ Progress /\ Ranges /\ CallsMade
=============================================================================
