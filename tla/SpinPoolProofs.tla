--------------------------- MODULE SpinPoolProofs ---------------------------
(***************************************************************************)
(* Proofs about SpinPool, for any number of workers, publishers, chunks    *)
(* and runs, and any block size.  IndInv (module SpinPool) is shown to  *)
(* be inductive with one lemma per action; the safety properties and the   *)
(* refinement of ParallelFor follow from it.                               *)
(***************************************************************************)
EXTENDS SpinPool, FiniteSetTheorems, TLAPS

-----------------------------------------------------------------------------
(* Arithmetic of blocks and generations                                    *)

\* The blocks that start below n are the first NumBlocks(n, block).
LEMMA BlockCount ==
    ASSUME NEW n \in Nat, NEW block \in Nat \ {0}, NEW k \in Nat
    PROVE  /\ NumBlocks(n, block) \in Nat
           /\ k * block < n <=> k < NumBlocks(n, block)
  <1>1. NumBlocks(n, block) \in Nat
    BY SMT DEF NumBlocks
  <1>2. k * block < n <=> k < NumBlocks(n, block)
    BY SMT DEF NumBlocks
  <1> QED BY <1>1, <1>2

\* The next block starts where this one ends.
LEMMA NextBlockStart ==
    ASSUME NEW block \in Nat \ {0}, NEW k \in Nat
    PROVE  k * block \in Nat /\ (k + 1) * block = k * block + block
  BY SMT

\* One bump turns an even generation odd and an odd one even.
LEMMA Bump ==
    ASSUME NEW n \in Nat
    PROVE  n % 2 \in {0, 1} /\ ((n + 1) % 2 = 1 <=> n % 2 = 0)
  BY SMT

\* n_chunks / (3 * participants), at least 1, is a positive block size.
LEMMA BlockSizePositive ==
    ASSUME NEW n \in Nat
    PROVE  BlockSize(n) \in Nat \ {0}
  <1>1. Cardinality(Workers) \in Nat
    BY ThreadsAssumption, FS_CardinalityType
  <1>2. n \div (3 * (Cardinality(Workers) + 1)) \in Int
    BY <1>1, SMT
  <1> QED BY <1>1, <1>2, BoundsAssumption, SMT DEF BlockSize

\* The sets whose sizes the counters hold are finite.
LEMMA FiniteThreads ==
    /\ IsFiniteSet(Registered) /\ IsFiniteSet(Parked) /\ IsFiniteSet(Running)
  BY ThreadsAssumption, FS_Subset, FS_Union
     DEF Registered, Parked, Running, Threads

\* Op slots are determined by their fields.
LEMMA SameSlot ==
    ASSUME NEW a \in OpSlots, NEW b \in OpSlots,
           a.ctx = b.ctx, a.n = b.n, a.block = b.block
    PROVE  a = b
  BY DEF OpSlots

\* The geometry of the published op.
LEMMA SlotGeometry ==
    ASSUME TypeOK
    PROVE  /\ slot.n \in Nat /\ slot.n <= MaxChunks /\ slot.block \in Nat \ {0}
           /\ BlocksOf(slot) \in Nat
           /\ nextBlock \in Nat /\ nextBlock * slot.block \in Nat
           /\ nextBlock * slot.block < slot.n <=> nextBlock < BlocksOf(slot)
  <1>1. slot.n \in Nat /\ slot.n <= MaxChunks /\ slot.block \in Nat \ {0} /\ nextBlock \in Nat
    BY BoundsAssumption DEF TypeOK, OpSlots
  <1> QED BY <1>1, BlockCount, NextBlockStart DEF BlocksOf

USE DEF HoldingPcs, RewritingPcs, ExecutingPcs, ClosedPcs, RegisteredPcs,
        ValidatedPcs, PublisherPcs, WorkerPcs, Threads, Goto, New, shared, park, exec

-----------------------------------------------------------------------------
(* What the invariant says about who may be doing what                     *)

\* While the slot is rewritten nobody copies it, claims a block or calls f.
LEMMA RewriteIsAlone ==
    ASSUME IndInv, NEW p \in Publishers, pc[p] \in RewritingPcs
    PROVE  /\ \A w \in Workers : pc[w] \notin ValidatedPcs
           /\ \A t \in Threads : pc[t] \notin {"claim", "call", "complete"}
           /\ Running = {}
  <1>1. publish = p /\ OwnerPc = pc[p] /\ p # NoThread
    BY ThreadsAssumption DEF IndInv, PublishMutex, OwnerPc
  <1>2. generation % 2 = 1
    BY <1>1 DEF IndInv, Parity
  <1>3. \A w \in Workers : pc[w] \notin ValidatedPcs
    BY <1>1, <1>2 DEF IndInv, Validated
  <1>4. \A q \in Publishers : pc[q] \notin {"claim", "call", "complete"}
    BY <1>1 DEF IndInv, PublishMutex
  <1>5. \A t \in Threads : pc[t] \notin {"claim", "call", "complete"}
    BY <1>3, <1>4
  <1> QED BY <1>3, <1>5 DEF Running

\* A thread about to claim holds the published op, and the slot is not being
\* rewritten.
LEMMA ClaimingThread ==
    ASSUME IndInv, NEW t \in Threads, pc[t] \in {"claim", "call", "complete"}
    PROVE  /\ local[t] = slot
           /\ OwnerPc \notin RewritingPcs
           /\ slot.n \in Nat /\ slot.n <= MaxChunks /\ slot.block \in Nat \ {0}
           /\ nextBlock \in Nat
  <1>1. local[t] = slot
    BY DEF IndInv, Copies
  <1>2. slot.n \in Nat /\ slot.n <= MaxChunks /\ slot.block \in Nat \ {0} /\ nextBlock \in Nat
    BY BoundsAssumption DEF IndInv, TypeOK, OpSlots
  <1>3. OwnerPc \notin RewritingPcs
    BY RewriteIsAlone DEF IndInv, TypeOK, OwnerPc
  <1> QED BY <1>1, <1>2, <1>3

\* A thread inside a block works for the run of the publisher that holds the
\* mutex and is executing: the closure it calls is alive.
LEMMA RunningThread ==
    ASSUME IndInv, NEW t \in Threads, pc[t] \in {"call", "complete"}
    PROVE  /\ publish \in Publishers
           /\ pc[publish] \in ExecutingPcs
           /\ slot = local[publish]
           /\ slot.ctx.pub = publish /\ slot.ctx.run = runs[publish]
  <1>1. OwnerPc \notin RewritingPcs
    BY ClaimingThread
  <1>2. Running # {} /\ Cardinality(Running) \in Nat
    BY FiniteThreads, FS_CardinalityType DEF Running
  <1>3. Cardinality(Running) # 0
    BY <1>2, FiniteThreads, FS_EmptySet
  <1>4. BlocksOf(slot) \in Nat /\ completed \in Nat /\ nextBlock \in Nat
    BY SlotGeometry DEF IndInv, TypeOK
  <1>5. OwnerPc \in ExecutingPcs
    BY <1>1, <1>2, <1>3, <1>4 DEF IndInv, Progress
  <1>6. publish \in Publishers /\ pc[publish] \in ExecutingPcs
    BY <1>5 DEF IndInv, TypeOK, OwnerPc
  <1>7. slot = local[publish] /\ local[publish].ctx.pub = publish
        /\ local[publish].ctx.run = runs[publish]
    BY <1>6 DEF IndInv, Copies
  <1> QED BY <1>6, <1>7


-----------------------------------------------------------------------------
(* Every action preserves the invariant.  Each lemma says first what the   *)
(* step does to the three sets of threads that the counters count.         *)


LEMMA InlineChunkKeeps ==
    ASSUME IndInv, NEW p \in Publishers, InlineChunk(p)
    PROVE  IndInv'
  <1> USE ThreadsAssumption, BoundsAssumption DEF IndInv, InlineChunk
  <1>1. Registered' = Registered
    BY DEF TypeOK, Registered
  <1>2. Parked' = Parked
    BY DEF TypeOK, Parked
  <1>3. Running' = Running
    BY DEF TypeOK, Running
  <1>4. TypeOK'
    <2>1. lo[p] \in Nat /\ hi[p] = local[p].n /\ local[p].n \in 0 .. MaxChunks
      BY DEF TypeOK, OpSlots, CallsMade
    <2>2. lo[p] \in Chunks
      BY <2>1, lo[p] < hi[p] DEF Chunks
    <2>3. calls' \in [Publishers -> [Chunks -> Nat]]
      BY <2>2 DEF TypeOK
    <2> QED BY <2>3 DEF TypeOK
  <1>5. ActiveCount'
    BY <1>1 DEF ActiveCount
  <1>6. ParkedCount'
    BY <1>2 DEF ParkedCount
  <1>7. PublishMutex'
    BY DEF TypeOK, PublishMutex
  <1>8. Parity'
    BY DEF TypeOK, PublishMutex, Parity, OwnerPc
  <1>9. Validated'
    BY DEF TypeOK, PublishMutex, Validated, Parity, OwnerPc
  <1>10. Copies'
    BY DEF TypeOK, PublishMutex, Copies, OpSlots
  <1>11. Progress'
    BY <1>3 DEF TypeOK, PublishMutex, Progress, OwnerPc, BlocksOf
  <1>12. Ranges'
    BY DEF TypeOK, PublishMutex, Ranges
  <1>13. CallsMade'
    <2>1. \A c \in Chunks : calls'[p][c] = IF c = lo[p] THEN calls[p][c] + 1 ELSE calls[p][c]
      BY DEF TypeOK
    <2>2. \A q \in Publishers \ {p} : calls'[q] = calls[q] /\ pc'[q] = pc[q] /\ lo'[q] = lo[q]
      BY DEF TypeOK
    <2>3. \A c \in Chunks : calls'[p][c] = IF c < lo'[p] THEN 1 ELSE 0
      BY <2>1 DEF TypeOK, CallsMade, Chunks
    <2>4. \A c : Called(c)' <=> Called(c)
      BY DEF TypeOK, Called, Outstanding
    <2> QED BY <2>2, <2>3, <2>4 DEF TypeOK, CallsMade
  <1> QED BY <1>4, <1>5, <1>6, <1>7, <1>8, <1>9, <1>10, <1>11, <1>12, <1>13

LEMMA InlineReturnKeeps ==
    ASSUME IndInv, NEW p \in Publishers, InlineReturn(p)
    PROVE  IndInv'
  <1> USE ThreadsAssumption, BoundsAssumption DEF IndInv, InlineReturn
  <1>1. Registered' = Registered
    BY DEF TypeOK, Registered
  <1>2. Parked' = Parked
    BY DEF TypeOK, Parked
  <1>3. Running' = Running
    BY DEF TypeOK, Running
  <1>4. TypeOK'
    BY DEF TypeOK, OpSlots
  <1>5. ActiveCount'
    BY <1>1 DEF ActiveCount
  <1>6. ParkedCount'
    BY <1>2 DEF ParkedCount
  <1>7. PublishMutex'
    BY DEF TypeOK, PublishMutex
  <1>8. Parity'
    BY DEF TypeOK, PublishMutex, Parity, OwnerPc
  <1>9. Validated'
    BY DEF TypeOK, PublishMutex, Validated, Parity, OwnerPc
  <1>10. Copies'
    BY DEF TypeOK, PublishMutex, Copies, OpSlots
  <1>11. Progress'
    BY <1>3 DEF TypeOK, PublishMutex, Progress, OwnerPc, BlocksOf
  <1>12. Ranges'
    BY DEF TypeOK, PublishMutex, Ranges, OpSlots
  <1>13. CallsMade'
    BY DEF TypeOK, PublishMutex, CallsMade, Called, Outstanding, OpSlots
  <1> QED BY <1>4, <1>5, <1>6, <1>7, <1>8, <1>9, <1>10, <1>11, <1>12, <1>13

LEMMA LockPublishKeeps ==
    ASSUME IndInv, NEW p \in Publishers, LockPublish(p)
    PROVE  IndInv'
  <1> USE ThreadsAssumption, BoundsAssumption DEF IndInv, LockPublish
  <1>1. Registered' = Registered
    BY DEF TypeOK, Registered
  <1>2. Parked' = Parked
    BY DEF TypeOK, Parked
  <1>3. Running' = Running
    BY DEF TypeOK, Running
  <1>4. TypeOK'
    BY DEF TypeOK
  <1>5. ActiveCount'
    BY <1>1 DEF ActiveCount
  <1>6. ParkedCount'
    BY <1>2 DEF ParkedCount
  <1>7. PublishMutex'
    BY DEF TypeOK, PublishMutex
  <1>8. Parity'
    BY DEF TypeOK, PublishMutex, Parity, OwnerPc
  <1>9. Validated'
    BY DEF TypeOK, PublishMutex, Validated, Parity, OwnerPc
  <1>10. Copies'
    BY DEF TypeOK, PublishMutex, Copies, OpSlots
  <1>11. Progress'
    BY <1>3 DEF TypeOK, PublishMutex, Progress, OwnerPc, BlocksOf
  <1>12. Ranges'
    BY DEF TypeOK, PublishMutex, Ranges, OpSlots
  <1>13. CallsMade'
    BY DEF TypeOK, PublishMutex, CallsMade, Called, Outstanding, OpSlots
  <1> QED BY <1>4, <1>5, <1>6, <1>7, <1>8, <1>9, <1>10, <1>11, <1>12, <1>13

LEMMA CloseDoorKeeps ==
    ASSUME IndInv, NEW p \in Publishers, CloseDoor(p)
    PROVE  IndInv'
  <1> USE ThreadsAssumption, BoundsAssumption DEF IndInv, CloseDoor
  <1>1. Registered' = Registered
    BY DEF TypeOK, Registered
  <1>2. Parked' = Parked
    BY DEF TypeOK, Parked
  <1>3. Running' = Running
    BY DEF TypeOK, Running
  <1>4. TypeOK'
    BY DEF TypeOK
  <1>5. ActiveCount'
    BY <1>1 DEF ActiveCount
  <1>6. ParkedCount'
    BY <1>2 DEF ParkedCount
  <1>7. PublishMutex'
    BY DEF TypeOK, PublishMutex
  <1>8. Parity'
    <2>1. OwnerPc = "close" /\ OwnerPc' = "drain"
      BY DEF TypeOK, PublishMutex, OwnerPc
    <2>2. generation % 2 = 0
      BY <2>1, Bump DEF TypeOK, Parity
    <2>3. generation' % 2 = 1
      BY <2>2, Bump DEF TypeOK
    <2> QED BY <2>1, <2>3 DEF Parity
  <1>9. Validated'
    BY DEF TypeOK, PublishMutex, Validated, Parity, OwnerPc
  <1>10. Copies'
    BY DEF TypeOK, PublishMutex, Copies, OpSlots
  <1>11. Progress'
    BY <1>3 DEF TypeOK, PublishMutex, Progress, OwnerPc, BlocksOf
  <1>12. Ranges'
    BY DEF TypeOK, PublishMutex, Ranges, OpSlots
  <1>13. CallsMade'
    BY DEF TypeOK, PublishMutex, CallsMade, Called, Outstanding, OpSlots
  <1> QED BY <1>4, <1>5, <1>6, <1>7, <1>8, <1>9, <1>10, <1>11, <1>12, <1>13

LEMMA DrainActiveKeeps ==
    ASSUME IndInv, NEW p \in Publishers, DrainActive(p)
    PROVE  IndInv'
  <1> USE ThreadsAssumption, BoundsAssumption DEF IndInv, DrainActive
  <1>1. Registered' = Registered
    BY DEF TypeOK, Registered
  <1>2. Parked' = Parked
    BY DEF TypeOK, Parked
  <1>3. Running' = Running
    BY DEF TypeOK, Running
  <1>4. TypeOK'
    BY DEF TypeOK
  <1>5. ActiveCount'
    BY <1>1 DEF ActiveCount
  <1>6. ParkedCount'
    BY <1>2 DEF ParkedCount
  <1>7. PublishMutex'
    BY DEF TypeOK, PublishMutex
  <1>8. Parity'
    BY DEF TypeOK, PublishMutex, Parity, OwnerPc
  <1>9. Validated'
    <2>1. Registered = {}
      BY FiniteThreads, FS_EmptySet DEF ActiveCount
    <2>2. \A w \in Workers : pc'[w] \notin RegisteredPcs
      BY <2>1 DEF TypeOK, Registered
    <2> QED BY <2>2 DEF TypeOK, Validated
  <1>10. Copies'
    BY DEF TypeOK, PublishMutex, Copies, OpSlots
  <1>11. Progress'
    BY <1>3 DEF TypeOK, PublishMutex, Progress, OwnerPc, BlocksOf
  <1>12. Ranges'
    BY DEF TypeOK, PublishMutex, Ranges, OpSlots
  <1>13. CallsMade'
    BY DEF TypeOK, PublishMutex, CallsMade, Called, Outstanding, OpSlots
  <1> QED BY <1>4, <1>5, <1>6, <1>7, <1>8, <1>9, <1>10, <1>11, <1>12, <1>13

LEMMA WriteCtxKeeps ==
    ASSUME IndInv, NEW p \in Publishers, WriteCtx(p)
    PROVE  IndInv'
  <1> USE ThreadsAssumption, BoundsAssumption DEF IndInv, WriteCtx
  <1>1. Registered' = Registered
    BY DEF TypeOK, Registered
  <1>2. Parked' = Parked
    BY DEF TypeOK, Parked
  <1>3. Running' = Running
    BY DEF TypeOK, Running
  <1>4. TypeOK'
    BY DEF TypeOK, OpSlots
  <1>5. ActiveCount'
    BY <1>1 DEF ActiveCount
  <1>6. ParkedCount'
    BY <1>2 DEF ParkedCount
  <1>7. PublishMutex'
    BY DEF TypeOK, PublishMutex
  <1>8. Parity'
    BY DEF TypeOK, PublishMutex, Parity, OwnerPc
  <1>9. Validated'
    BY DEF TypeOK, PublishMutex, Validated, Parity, OwnerPc
  <1>10. Copies'
    <2>1. \A w \in Workers : pc'[w] \notin ValidatedPcs
      BY RewriteIsAlone DEF TypeOK
    <2>2. \A q \in Publishers : q # p => pc'[q] \notin HoldingPcs
      BY DEF PublishMutex, TypeOK
    <2>3. slot'.ctx = local'[p].ctx
      BY DEF TypeOK, OpSlots
    <2> QED BY <2>1, <2>2, <2>3 DEF TypeOK, Copies
  <1>11. Progress'
    BY <1>3 DEF TypeOK, PublishMutex, Progress, OwnerPc, BlocksOf
  <1>12. Ranges'
    BY DEF TypeOK, PublishMutex, Ranges, OpSlots
  <1>13. CallsMade'
    BY DEF TypeOK, PublishMutex, CallsMade, Called, Outstanding, OpSlots
  <1> QED BY <1>4, <1>5, <1>6, <1>7, <1>8, <1>9, <1>10, <1>11, <1>12, <1>13

LEMMA WriteDimsKeeps ==
    ASSUME IndInv, NEW p \in Publishers, WriteDims(p)
    PROVE  IndInv'
  <1> USE ThreadsAssumption, BoundsAssumption DEF IndInv, WriteDims
  <1>1. Registered' = Registered
    BY DEF TypeOK, Registered
  <1>2. Parked' = Parked
    BY DEF TypeOK, Parked
  <1>3. Running' = Running
    BY DEF TypeOK, Running
  <1>4. TypeOK'
    <2>1. slot' \in OpSlots
      BY DEF TypeOK, OpSlots
    <2> QED BY <2>1 DEF TypeOK
  <1>5. ActiveCount'
    BY <1>1 DEF ActiveCount
  <1>6. ParkedCount'
    BY <1>2 DEF ParkedCount
  <1>7. PublishMutex'
    BY DEF TypeOK, PublishMutex
  <1>8. Parity'
    BY DEF TypeOK, PublishMutex, Parity, OwnerPc
  <1>9. Validated'
    BY DEF TypeOK, PublishMutex, Validated, Parity, OwnerPc
  <1>10. Copies'
    <2>1. \A w \in Workers : pc'[w] \notin ValidatedPcs
      BY RewriteIsAlone DEF TypeOK
    <2>2. \A q \in Publishers : q # p => pc'[q] \notin HoldingPcs
      BY DEF PublishMutex, TypeOK
    <2>3. slot'.ctx = local[p].ctx /\ slot'.n = local[p].n /\ slot'.block = local[p].block
      BY DEF TypeOK, OpSlots, Copies
    <2>a. slot' \in OpSlots /\ local[p] \in OpSlots /\ local' = local
      BY <1>4 DEF TypeOK
    <2>4. slot' = local'[p]
      BY <2>3, <2>a, SameSlot
    <2> QED BY <2>1, <2>2, <2>4 DEF TypeOK, Copies
  <1>11. Progress'
    BY <1>3 DEF TypeOK, PublishMutex, Progress, OwnerPc, BlocksOf
  <1>12. Ranges'
    <2>1. \A t \in Threads : pc'[t] \notin {"call", "complete"}
      BY RewriteIsAlone DEF TypeOK
    <2> QED BY <2>1 DEF Ranges
  <1>13. CallsMade'
    BY DEF TypeOK, PublishMutex, CallsMade, Called, Outstanding, OpSlots
  <1> QED BY <1>4, <1>5, <1>6, <1>7, <1>8, <1>9, <1>10, <1>11, <1>12, <1>13

LEMMA ResetNextKeeps ==
    ASSUME IndInv, NEW p \in Publishers, ResetNext(p)
    PROVE  IndInv'
  <1> USE ThreadsAssumption, BoundsAssumption DEF IndInv, ResetNext
  <1>1. Registered' = Registered
    BY DEF TypeOK, Registered
  <1>2. Parked' = Parked
    BY DEF TypeOK, Parked
  <1>3. Running' = Running
    BY DEF TypeOK, Running
  <1>4. TypeOK'
    BY DEF TypeOK
  <1>5. ActiveCount'
    BY <1>1 DEF ActiveCount
  <1>6. ParkedCount'
    BY <1>2 DEF ParkedCount
  <1>7. PublishMutex'
    BY DEF TypeOK, PublishMutex
  <1>8. Parity'
    BY DEF TypeOK, PublishMutex, Parity, OwnerPc
  <1>9. Validated'
    BY DEF TypeOK, PublishMutex, Validated, Parity, OwnerPc
  <1>10. Copies'
    BY DEF TypeOK, PublishMutex, Copies, OpSlots
  <1>11. Progress'
    BY <1>3 DEF TypeOK, PublishMutex, Progress, OwnerPc, BlocksOf
  <1>12. Ranges'
    <2>1. \A t \in Threads : pc'[t] \notin {"call", "complete"}
      BY RewriteIsAlone DEF TypeOK
    <2> QED BY <2>1 DEF Ranges
  <1>13. CallsMade'
    BY DEF TypeOK, PublishMutex, CallsMade, Called, Outstanding, OpSlots
  <1> QED BY <1>4, <1>5, <1>6, <1>7, <1>8, <1>9, <1>10, <1>11, <1>12, <1>13

LEMMA ResetCompletedKeeps ==
    ASSUME IndInv, NEW p \in Publishers, ResetCompleted(p)
    PROVE  IndInv'
  <1> USE ThreadsAssumption, BoundsAssumption DEF IndInv, ResetCompleted
  <1>1. Registered' = Registered
    BY DEF TypeOK, Registered
  <1>2. Parked' = Parked
    BY DEF TypeOK, Parked
  <1>3. Running' = Running
    BY DEF TypeOK, Running
  <1>4. TypeOK'
    BY DEF TypeOK
  <1>5. ActiveCount'
    BY <1>1 DEF ActiveCount
  <1>6. ParkedCount'
    BY <1>2 DEF ParkedCount
  <1>7. PublishMutex'
    BY DEF TypeOK, PublishMutex
  <1>8. Parity'
    BY DEF TypeOK, PublishMutex, Parity, OwnerPc
  <1>9. Validated'
    BY DEF TypeOK, PublishMutex, Validated, Parity, OwnerPc
  <1>10. Copies'
    BY DEF TypeOK, PublishMutex, Copies, OpSlots
  <1>11. Progress'
    BY <1>3 DEF TypeOK, PublishMutex, Progress, OwnerPc, BlocksOf
  <1>12. Ranges'
    BY DEF TypeOK, PublishMutex, Ranges, OpSlots
  <1>13. CallsMade'
    BY DEF TypeOK, PublishMutex, CallsMade, Called, Outstanding, OpSlots
  <1> QED BY <1>4, <1>5, <1>6, <1>7, <1>8, <1>9, <1>10, <1>11, <1>12, <1>13

LEMMA OpenDoorKeeps ==
    ASSUME IndInv, NEW p \in Publishers, OpenDoor(p)
    PROVE  IndInv'
  <1> USE ThreadsAssumption, BoundsAssumption DEF IndInv, OpenDoor
  <1>1. Registered' = Registered
    BY DEF TypeOK, Registered
  <1>2. Parked' = Parked
    BY DEF TypeOK, Parked
  <1>3. Running' = Running
    BY DEF TypeOK, Running
  <1>4. TypeOK'
    BY DEF TypeOK
  <1>5. ActiveCount'
    BY <1>1 DEF ActiveCount
  <1>6. ParkedCount'
    BY <1>2 DEF ParkedCount
  <1>7. PublishMutex'
    BY DEF TypeOK, PublishMutex
  <1>8. Parity'
    <2>1. OwnerPc = "open" /\ OwnerPc' = "checkParked"
      BY DEF TypeOK, PublishMutex, OwnerPc
    <2>2. generation % 2 = 1
      BY <2>1 DEF Parity
    <2>3. generation' % 2 # 1
      BY <2>2, Bump DEF TypeOK
    <2> QED BY <2>1, <2>3 DEF Parity
  <1>9. Validated'
    BY RewriteIsAlone DEF TypeOK, Validated
  <1>10. Copies'
    BY DEF TypeOK, PublishMutex, Copies, OpSlots
  <1>11. Progress'
    <2>1. OwnerPc = "open" /\ OwnerPc' = "checkParked"
      BY DEF TypeOK, PublishMutex, OwnerPc
    <2>2. nextBlock = 0 /\ completed = 0
      BY <2>1 DEF Progress
    <2>3. Cardinality(Running') = 0
      BY <1>3, RewriteIsAlone, FS_EmptySet
    <2>4. BlocksOf(slot)' = BlocksOf(slot) /\ BlocksOf(slot) \in Nat
      BY SlotGeometry DEF BlocksOf
    <2> QED BY <2>1, <2>2, <2>3, <2>4 DEF Progress
  <1>12. Ranges'
    BY DEF TypeOK, PublishMutex, Ranges, OpSlots
  <1>13. CallsMade'
    <2>1. nextBlock = 0 /\ slot.block \in Nat
      BY DEF TypeOK, OpSlots, PublishMutex, Progress, OwnerPc
    <2>2. nextBlock' * slot'.block = 0
      BY <2>1, SMT
    <2>3. \A c \in Chunks : ~Called(c)'
      BY <2>2 DEF Called, Chunks
    <2>4. \A q \in Publishers : q # p => pc'[q] \notin HoldingPcs /\ pc'[q] = pc[q]
      BY DEF TypeOK, PublishMutex
    <2> QED BY <2>3, <2>4 DEF TypeOK, CallsMade
  <1> QED BY <1>4, <1>5, <1>6, <1>7, <1>8, <1>9, <1>10, <1>11, <1>12, <1>13

LEMMA CheckParkedKeeps ==
    ASSUME IndInv, NEW p \in Publishers, CheckParked(p)
    PROVE  IndInv'
  <1> USE ThreadsAssumption, BoundsAssumption DEF IndInv, CheckParked
  <1>1. Registered' = Registered
    BY DEF TypeOK, Registered
  <1>2. Parked' = Parked
    BY DEF TypeOK, Parked
  <1>3. Running' = Running
    BY DEF TypeOK, Running
  <1>4. TypeOK'
    BY DEF TypeOK
  <1>5. ActiveCount'
    BY <1>1 DEF ActiveCount
  <1>6. ParkedCount'
    BY <1>2 DEF ParkedCount
  <1>7. PublishMutex'
    BY DEF TypeOK, PublishMutex
  <1>8. Parity'
    BY DEF TypeOK, PublishMutex, Parity, OwnerPc
  <1>9. Validated'
    BY DEF TypeOK, PublishMutex, Validated, Parity, OwnerPc
  <1>10. Copies'
    BY DEF TypeOK, PublishMutex, Copies, OpSlots
  <1>11. Progress'
    BY <1>3 DEF TypeOK, PublishMutex, Progress, OwnerPc, BlocksOf
  <1>12. Ranges'
    BY DEF TypeOK, PublishMutex, Ranges, OpSlots
  <1>13. CallsMade'
    BY DEF TypeOK, PublishMutex, CallsMade, Called, Outstanding, OpSlots
  <1> QED BY <1>4, <1>5, <1>6, <1>7, <1>8, <1>9, <1>10, <1>11, <1>12, <1>13

LEMMA NotifyAllKeeps ==
    ASSUME IndInv, NEW p \in Publishers, NotifyAll(p)
    PROVE  IndInv'
  <1> USE ThreadsAssumption, BoundsAssumption DEF IndInv, NotifyAll
  <1>1. Registered' = Registered
    BY DEF TypeOK, Registered
  <1>2. Parked' = Parked
    BY DEF TypeOK, Parked
  <1>3. Running' = Running
    BY DEF TypeOK, Running
  <1>4. TypeOK'
    BY DEF TypeOK
  <1>5. ActiveCount'
    BY <1>1 DEF ActiveCount
  <1>6. ParkedCount'
    BY <1>2 DEF ParkedCount
  <1>7. PublishMutex'
    BY DEF TypeOK, PublishMutex
  <1>8. Parity'
    BY DEF TypeOK, PublishMutex, Parity, OwnerPc
  <1>9. Validated'
    BY DEF TypeOK, PublishMutex, Validated, Parity, OwnerPc
  <1>10. Copies'
    BY DEF TypeOK, PublishMutex, Copies, OpSlots
  <1>11. Progress'
    BY <1>3 DEF TypeOK, PublishMutex, Progress, OwnerPc, BlocksOf
  <1>12. Ranges'
    BY DEF TypeOK, PublishMutex, Ranges, OpSlots
  <1>13. CallsMade'
    BY DEF TypeOK, PublishMutex, CallsMade, Called, Outstanding, OpSlots
  <1> QED BY <1>4, <1>5, <1>6, <1>7, <1>8, <1>9, <1>10, <1>11, <1>12, <1>13

LEMMA AwaitCompletedKeeps ==
    ASSUME IndInv, NEW p \in Publishers, AwaitCompleted(p)
    PROVE  IndInv'
  <1> USE ThreadsAssumption, BoundsAssumption DEF IndInv, AwaitCompleted
  <1>a. OwnerPc = "await" /\ OwnerPc' = "free" /\ slot = local[p]
    BY DEF TypeOK, PublishMutex, OwnerPc, Copies
  <1>b. BlocksOf(slot) \in Nat /\ slot.n \in Nat /\ slot.block \in Nat \ {0}
    BY SlotGeometry
  <1>c. Cardinality(Running) \in Nat
    BY FiniteThreads, FS_CardinalityType
  <1>d. completed = BlocksOf(slot) /\ Cardinality(Running) = 0 /\ nextBlock >= BlocksOf(slot)
    BY <1>a, <1>b, <1>c DEF TypeOK, Progress, BlocksOf
  <1>e. Running = {}
    BY <1>d, FiniteThreads, FS_EmptySet
  <1>1. Registered' = Registered
    BY DEF TypeOK, Registered
  <1>2. Parked' = Parked
    BY DEF TypeOK, Parked
  <1>3. Running' = Running
    BY DEF TypeOK, Running
  <1>4. TypeOK'
    BY DEF TypeOK
  <1>5. ActiveCount'
    BY <1>1 DEF ActiveCount
  <1>6. ParkedCount'
    BY <1>2 DEF ParkedCount
  <1>7. PublishMutex'
    BY DEF TypeOK, PublishMutex
  <1>8. Parity'
    BY DEF TypeOK, PublishMutex, Parity, OwnerPc
  <1>9. Validated'
    BY DEF TypeOK, PublishMutex, Validated, Parity, OwnerPc
  <1>10. Copies'
    BY DEF TypeOK, PublishMutex, Copies, OpSlots
  <1>11. Progress'
    <2>1. BlocksOf(slot)' = BlocksOf(slot)
      BY DEF BlocksOf
    <2> QED BY <1>3, <1>a, <1>b, <1>d, <2>1 DEF TypeOK, Progress
  <1>12. Ranges'
    BY DEF TypeOK, PublishMutex, Ranges, OpSlots
  <1>13. CallsMade'
    <2>1. nextBlock * slot.block >= slot.n
      BY <1>b, <1>d, SlotGeometry
    <2>2. \A c \in Chunks : ~Outstanding(c)
      BY <1>e DEF Outstanding, Running
    <2>3. \A c \in Chunks : c < slot.n => c < nextBlock * slot.block
      BY <1>b, <2>1, SlotGeometry DEF Chunks
    <2>4. \A c \in Chunks : Called(c) <=> c < local[p].n
      BY <1>a, <2>2, <2>3 DEF Called
    <2>5. \A c \in Chunks : calls[p][c] = IF c < local[p].n THEN 1 ELSE 0
      BY <2>4 DEF CallsMade
    <2>6. \A q \in Publishers : q # p => pc'[q] \notin HoldingPcs /\ pc'[q] = pc[q]
      BY DEF TypeOK, PublishMutex
    <2> QED BY <2>5, <2>6 DEF TypeOK, CallsMade
  <1> QED BY <1>4, <1>5, <1>6, <1>7, <1>8, <1>9, <1>10, <1>11, <1>12, <1>13

LEMMA SpinSeesKeeps ==
    ASSUME IndInv, NEW w \in Workers, SpinSees(w)
    PROVE  IndInv'
  <1> USE ThreadsAssumption, BoundsAssumption DEF IndInv, SpinSees
  <1>1. Registered' = Registered
    BY DEF TypeOK, Registered
  <1>2. Parked' = Parked
    BY DEF TypeOK, Parked
  <1>3. Running' = Running
    BY DEF TypeOK, Running
  <1>4. TypeOK'
    BY DEF TypeOK
  <1>5. ActiveCount'
    BY <1>1 DEF ActiveCount
  <1>6. ParkedCount'
    BY <1>2 DEF ParkedCount
  <1>7. PublishMutex'
    BY DEF TypeOK, PublishMutex
  <1>8. Parity'
    BY DEF TypeOK, PublishMutex, Parity, OwnerPc
  <1>9. Validated'
    BY DEF TypeOK, PublishMutex, Validated, Parity, OwnerPc
  <1>10. Copies'
    BY DEF TypeOK, PublishMutex, Copies, OpSlots
  <1>11. Progress'
    BY <1>3 DEF TypeOK, PublishMutex, Progress, OwnerPc, BlocksOf
  <1>12. Ranges'
    BY DEF TypeOK, PublishMutex, Ranges, OpSlots
  <1>13. CallsMade'
    BY DEF TypeOK, PublishMutex, CallsMade, Called, Outstanding, OpSlots
  <1> QED BY <1>4, <1>5, <1>6, <1>7, <1>8, <1>9, <1>10, <1>11, <1>12, <1>13

LEMMA LockSleepKeeps ==
    ASSUME IndInv, NEW w \in Workers, LockSleep(w)
    PROVE  IndInv'
  <1> USE ThreadsAssumption, BoundsAssumption DEF IndInv, LockSleep
  <1>1. Registered' = Registered
    BY DEF TypeOK, Registered
  <1>2. Parked' = Parked
    BY DEF TypeOK, Parked
  <1>3. Running' = Running
    BY DEF TypeOK, Running
  <1>4. TypeOK'
    BY DEF TypeOK
  <1>5. ActiveCount'
    BY <1>1 DEF ActiveCount
  <1>6. ParkedCount'
    BY <1>2 DEF ParkedCount
  <1>7. PublishMutex'
    BY DEF TypeOK, PublishMutex
  <1>8. Parity'
    BY DEF TypeOK, PublishMutex, Parity, OwnerPc
  <1>9. Validated'
    BY DEF TypeOK, PublishMutex, Validated, Parity, OwnerPc
  <1>10. Copies'
    BY DEF TypeOK, PublishMutex, Copies, OpSlots
  <1>11. Progress'
    BY <1>3 DEF TypeOK, PublishMutex, Progress, OwnerPc, BlocksOf
  <1>12. Ranges'
    BY DEF TypeOK, PublishMutex, Ranges, OpSlots
  <1>13. CallsMade'
    BY DEF TypeOK, PublishMutex, CallsMade, Called, Outstanding, OpSlots
  <1> QED BY <1>4, <1>5, <1>6, <1>7, <1>8, <1>9, <1>10, <1>11, <1>12, <1>13

LEMMA ParkKeeps ==
    ASSUME IndInv, NEW w \in Workers, Park(w)
    PROVE  IndInv'
  <1> USE ThreadsAssumption, BoundsAssumption DEF IndInv, Park
  <1>1. Registered' = Registered
    BY DEF TypeOK, Registered
  <1>2. Parked' = Parked \cup {w}
    BY DEF TypeOK, Parked
  <1>3. Running' = Running
    BY DEF TypeOK, Running
  <1>4. TypeOK'
    BY DEF TypeOK
  <1>5. ActiveCount'
    BY <1>1 DEF ActiveCount
  <1>6. ParkedCount'
    <2>1. w \notin Parked
      BY DEF Parked
    <2> QED BY <1>2, <2>1, FS_AddElement, FiniteThreads DEF ParkedCount
  <1>7. PublishMutex'
    BY DEF TypeOK, PublishMutex
  <1>8. Parity'
    BY DEF TypeOK, PublishMutex, Parity, OwnerPc
  <1>9. Validated'
    BY DEF TypeOK, PublishMutex, Validated, Parity, OwnerPc
  <1>10. Copies'
    BY DEF TypeOK, PublishMutex, Copies, OpSlots
  <1>11. Progress'
    BY <1>3 DEF TypeOK, PublishMutex, Progress, OwnerPc, BlocksOf
  <1>12. Ranges'
    BY DEF TypeOK, PublishMutex, Ranges, OpSlots
  <1>13. CallsMade'
    BY DEF TypeOK, PublishMutex, CallsMade, Called, Outstanding, OpSlots
  <1> QED BY <1>4, <1>5, <1>6, <1>7, <1>8, <1>9, <1>10, <1>11, <1>12, <1>13

LEMMA RecheckKeeps ==
    ASSUME IndInv, NEW w \in Workers, Recheck(w)
    PROVE  IndInv'
  <1> USE ThreadsAssumption, BoundsAssumption DEF IndInv, Recheck
  <1>a. \/ pc' = [pc EXCEPT ![w] = "unpark"] /\ UNCHANGED <<sleep, waiting>>
        \/ /\ pc' = [pc EXCEPT ![w] = "wait"]
           /\ waiting' = waiting \cup {w} /\ sleep' = NoThread
    OBVIOUS
  <1>b. /\ pc[w] = "recheck"
        /\ UNCHANGED <<shared, parked, publish, local, exec, seen, g, runs>>
    OBVIOUS
  <1> HIDE DEF Recheck
  <1>1. Registered' = Registered
    BY <1>a, <1>b DEF TypeOK, Registered
  <1>2. Parked' = Parked
    BY <1>a, <1>b DEF TypeOK, Parked
  <1>3. Running' = Running
    BY <1>a, <1>b DEF TypeOK, Running
  <1>4. TypeOK'
    BY <1>a, <1>b DEF TypeOK
  <1>5. ActiveCount'
    BY <1>1, <1>b DEF ActiveCount
  <1>6. ParkedCount'
    BY <1>2, <1>b DEF ParkedCount
  <1>7. PublishMutex'
    BY <1>a, <1>b DEF TypeOK, PublishMutex
  <1>8. Parity'
    BY <1>a, <1>b DEF TypeOK, PublishMutex, Parity, OwnerPc
  <1>9. Validated'
    BY <1>a, <1>b DEF TypeOK, PublishMutex, Validated, Parity, OwnerPc
  <1>10. Copies'
    BY <1>a, <1>b DEF TypeOK, PublishMutex, Copies, OpSlots
  <1>11. Progress'
    BY <1>3, <1>a, <1>b DEF TypeOK, PublishMutex, Progress, OwnerPc, BlocksOf
  <1>12. Ranges'
    BY <1>a, <1>b DEF TypeOK, PublishMutex, Ranges, OpSlots
  <1>13. CallsMade'
    <2>1. \A u \in Threads : pc'[u] = "call" <=> pc[u] = "call"
      BY <1>a, <1>b DEF TypeOK
    <2>2. \A q \in Publishers : pc'[q] = pc[q]
      BY <1>a, <1>b DEF TypeOK
    <2> QED BY <1>b, <2>1, <2>2 DEF CallsMade, Called, Outstanding
  <1> QED BY <1>4, <1>5, <1>6, <1>7, <1>8, <1>9, <1>10, <1>11, <1>12, <1>13

LEMMA WakeKeeps ==
    ASSUME IndInv, NEW w \in Workers, Wake(w)
    PROVE  IndInv'
  <1> USE ThreadsAssumption, BoundsAssumption DEF IndInv, Wake
  <1>1. Registered' = Registered
    BY DEF TypeOK, Registered
  <1>2. Parked' = Parked
    BY DEF TypeOK, Parked
  <1>3. Running' = Running
    BY DEF TypeOK, Running
  <1>4. TypeOK'
    BY DEF TypeOK
  <1>5. ActiveCount'
    BY <1>1 DEF ActiveCount
  <1>6. ParkedCount'
    BY <1>2 DEF ParkedCount
  <1>7. PublishMutex'
    BY DEF TypeOK, PublishMutex
  <1>8. Parity'
    BY DEF TypeOK, PublishMutex, Parity, OwnerPc
  <1>9. Validated'
    BY DEF TypeOK, PublishMutex, Validated, Parity, OwnerPc
  <1>10. Copies'
    BY DEF TypeOK, PublishMutex, Copies, OpSlots
  <1>11. Progress'
    BY <1>3 DEF TypeOK, PublishMutex, Progress, OwnerPc, BlocksOf
  <1>12. Ranges'
    BY DEF TypeOK, PublishMutex, Ranges, OpSlots
  <1>13. CallsMade'
    BY DEF TypeOK, PublishMutex, CallsMade, Called, Outstanding, OpSlots
  <1> QED BY <1>4, <1>5, <1>6, <1>7, <1>8, <1>9, <1>10, <1>11, <1>12, <1>13

LEMMA SpuriousWakeKeeps ==
    ASSUME IndInv, NEW w \in Workers, SpuriousWake(w)
    PROVE  IndInv'
  <1> USE ThreadsAssumption, BoundsAssumption DEF IndInv, SpuriousWake
  <1>1. Registered' = Registered
    BY DEF TypeOK, Registered
  <1>2. Parked' = Parked
    BY DEF TypeOK, Parked
  <1>3. Running' = Running
    BY DEF TypeOK, Running
  <1>4. TypeOK'
    BY DEF TypeOK
  <1>5. ActiveCount'
    BY <1>1 DEF ActiveCount
  <1>6. ParkedCount'
    BY <1>2 DEF ParkedCount
  <1>7. PublishMutex'
    BY DEF TypeOK, PublishMutex
  <1>8. Parity'
    BY DEF TypeOK, PublishMutex, Parity, OwnerPc
  <1>9. Validated'
    BY DEF TypeOK, PublishMutex, Validated, Parity, OwnerPc
  <1>10. Copies'
    BY DEF TypeOK, PublishMutex, Copies, OpSlots
  <1>11. Progress'
    BY <1>3 DEF TypeOK, PublishMutex, Progress, OwnerPc, BlocksOf
  <1>12. Ranges'
    BY DEF TypeOK, PublishMutex, Ranges, OpSlots
  <1>13. CallsMade'
    BY DEF TypeOK, PublishMutex, CallsMade, Called, Outstanding, OpSlots
  <1> QED BY <1>4, <1>5, <1>6, <1>7, <1>8, <1>9, <1>10, <1>11, <1>12, <1>13

LEMMA UnparkKeeps ==
    ASSUME IndInv, NEW w \in Workers, Unpark(w)
    PROVE  IndInv'
  <1> USE ThreadsAssumption, BoundsAssumption DEF IndInv, Unpark
  <1>1. Registered' = Registered
    BY DEF TypeOK, Registered
  <1>2. Parked' = Parked \ {w}
    BY DEF TypeOK, Parked
  <1>3. Running' = Running
    BY DEF TypeOK, Running
  <1>a. w \in Parked
    BY DEF Parked
  <1>b. ParkedCount'
    BY <1>2, <1>a, FS_RemoveElement, FiniteThreads DEF ParkedCount
  <1>c. parked' \in Nat
    BY <1>2, <1>b, FiniteThreads, FS_RemoveElement, FS_CardinalityType DEF ParkedCount
  <1>4. TypeOK'
    BY <1>c DEF TypeOK
  <1>5. ActiveCount'
    BY <1>1 DEF ActiveCount
  <1>6. ParkedCount'
    BY <1>b
  <1>7. PublishMutex'
    BY DEF TypeOK, PublishMutex
  <1>8. Parity'
    BY DEF TypeOK, PublishMutex, Parity, OwnerPc
  <1>9. Validated'
    BY DEF TypeOK, PublishMutex, Validated, Parity, OwnerPc
  <1>10. Copies'
    BY DEF TypeOK, PublishMutex, Copies, OpSlots
  <1>11. Progress'
    BY <1>3 DEF TypeOK, PublishMutex, Progress, OwnerPc, BlocksOf
  <1>12. Ranges'
    BY DEF TypeOK, PublishMutex, Ranges, OpSlots
  <1>13. CallsMade'
    BY DEF TypeOK, PublishMutex, CallsMade, Called, Outstanding, OpSlots
  <1> QED BY <1>4, <1>5, <1>6, <1>7, <1>8, <1>9, <1>10, <1>11, <1>12, <1>13

LEMMA ReloadKeeps ==
    ASSUME IndInv, NEW w \in Workers, Reload(w)
    PROVE  IndInv'
  <1> USE ThreadsAssumption, BoundsAssumption DEF IndInv, Reload
  <1>1. Registered' = Registered
    BY DEF TypeOK, Registered
  <1>2. Parked' = Parked
    BY DEF TypeOK, Parked
  <1>3. Running' = Running
    BY DEF TypeOK, Running
  <1>4. TypeOK'
    BY DEF TypeOK
  <1>5. ActiveCount'
    BY <1>1 DEF ActiveCount
  <1>6. ParkedCount'
    BY <1>2 DEF ParkedCount
  <1>7. PublishMutex'
    BY DEF TypeOK, PublishMutex
  <1>8. Parity'
    BY DEF TypeOK, PublishMutex, Parity, OwnerPc
  <1>9. Validated'
    BY DEF TypeOK, PublishMutex, Validated, Parity, OwnerPc
  <1>10. Copies'
    BY DEF TypeOK, PublishMutex, Copies, OpSlots
  <1>11. Progress'
    BY <1>3 DEF TypeOK, PublishMutex, Progress, OwnerPc, BlocksOf
  <1>12. Ranges'
    BY DEF TypeOK, PublishMutex, Ranges, OpSlots
  <1>13. CallsMade'
    BY DEF TypeOK, PublishMutex, CallsMade, Called, Outstanding, OpSlots
  <1> QED BY <1>4, <1>5, <1>6, <1>7, <1>8, <1>9, <1>10, <1>11, <1>12, <1>13

LEMMA JoinKeeps ==
    ASSUME IndInv, NEW w \in Workers, Join(w)
    PROVE  IndInv'
  <1> USE ThreadsAssumption, BoundsAssumption DEF IndInv, Join
  <1>1. Registered' = Registered \cup {w}
    BY DEF TypeOK, Registered
  <1>2. Parked' = Parked
    BY DEF TypeOK, Parked
  <1>3. Running' = Running
    BY DEF TypeOK, Running
  <1>4. TypeOK'
    BY DEF TypeOK
  <1>5. ActiveCount'
    <2>1. w \notin Registered
      BY DEF Registered
    <2> QED BY <1>1, <2>1, FS_AddElement, FiniteThreads DEF ActiveCount
  <1>6. ParkedCount'
    BY <1>2 DEF ParkedCount
  <1>7. PublishMutex'
    BY DEF TypeOK, PublishMutex
  <1>8. Parity'
    BY DEF TypeOK, PublishMutex, Parity, OwnerPc
  <1>9. Validated'
    BY DEF TypeOK, PublishMutex, Validated, Parity, OwnerPc
  <1>10. Copies'
    BY DEF TypeOK, PublishMutex, Copies, OpSlots
  <1>11. Progress'
    BY <1>3 DEF TypeOK, PublishMutex, Progress, OwnerPc, BlocksOf
  <1>12. Ranges'
    BY DEF TypeOK, PublishMutex, Ranges, OpSlots
  <1>13. CallsMade'
    BY DEF TypeOK, PublishMutex, CallsMade, Called, Outstanding, OpSlots
  <1> QED BY <1>4, <1>5, <1>6, <1>7, <1>8, <1>9, <1>10, <1>11, <1>12, <1>13

LEMMA CheckKeeps ==
    ASSUME IndInv, NEW w \in Workers, Check(w)
    PROVE  IndInv'
  <1> USE ThreadsAssumption, BoundsAssumption DEF IndInv, Check
  <1>1. Registered' = Registered
    BY DEF TypeOK, Registered
  <1>2. Parked' = Parked
    BY DEF TypeOK, Parked
  <1>3. Running' = Running
    BY DEF TypeOK, Running
  <1>4. TypeOK'
    BY DEF TypeOK
  <1>5. ActiveCount'
    BY <1>1 DEF ActiveCount
  <1>6. ParkedCount'
    BY <1>2 DEF ParkedCount
  <1>7. PublishMutex'
    BY DEF TypeOK, PublishMutex
  <1>8. Parity'
    BY DEF TypeOK, PublishMutex, Parity, OwnerPc
  <1>9. Validated'
    BY DEF TypeOK, PublishMutex, Validated, Parity, OwnerPc
  <1>10. Copies'
    BY DEF TypeOK, PublishMutex, Copies, OpSlots
  <1>11. Progress'
    BY <1>3 DEF TypeOK, PublishMutex, Progress, OwnerPc, BlocksOf
  <1>12. Ranges'
    BY DEF TypeOK, PublishMutex, Ranges, OpSlots
  <1>13. CallsMade'
    BY DEF TypeOK, PublishMutex, CallsMade, Called, Outstanding, OpSlots
  <1> QED BY <1>4, <1>5, <1>6, <1>7, <1>8, <1>9, <1>10, <1>11, <1>12, <1>13

LEMMA BackOutKeeps ==
    ASSUME IndInv, NEW w \in Workers, BackOut(w)
    PROVE  IndInv'
  <1> USE ThreadsAssumption, BoundsAssumption DEF IndInv, BackOut
  <1>1. Registered' = Registered \ {w}
    BY DEF TypeOK, Registered
  <1>2. Parked' = Parked
    BY DEF TypeOK, Parked
  <1>3. Running' = Running
    BY DEF TypeOK, Running
  <1>a. w \in Registered
    BY DEF Registered
  <1>b. ActiveCount'
    BY <1>1, <1>a, FS_RemoveElement, FiniteThreads DEF ActiveCount
  <1>c. active' \in Nat
    BY <1>1, <1>b, FiniteThreads, FS_RemoveElement, FS_CardinalityType DEF ActiveCount
  <1>4. TypeOK'
    BY <1>c DEF TypeOK
  <1>5. ActiveCount'
    BY <1>b
  <1>6. ParkedCount'
    BY <1>2 DEF ParkedCount
  <1>7. PublishMutex'
    BY DEF TypeOK, PublishMutex
  <1>8. Parity'
    BY DEF TypeOK, PublishMutex, Parity, OwnerPc
  <1>9. Validated'
    BY DEF TypeOK, PublishMutex, Validated, Parity, OwnerPc
  <1>10. Copies'
    BY DEF TypeOK, PublishMutex, Copies, OpSlots
  <1>11. Progress'
    BY <1>3 DEF TypeOK, PublishMutex, Progress, OwnerPc, BlocksOf
  <1>12. Ranges'
    BY DEF TypeOK, PublishMutex, Ranges, OpSlots
  <1>13. CallsMade'
    BY DEF TypeOK, PublishMutex, CallsMade, Called, Outstanding, OpSlots
  <1> QED BY <1>4, <1>5, <1>6, <1>7, <1>8, <1>9, <1>10, <1>11, <1>12, <1>13

LEMMA CopyCtxKeeps ==
    ASSUME IndInv, NEW w \in Workers, CopyCtx(w)
    PROVE  IndInv'
  <1> USE ThreadsAssumption, BoundsAssumption DEF IndInv, CopyCtx
  <1>1. Registered' = Registered
    BY DEF TypeOK, Registered
  <1>2. Parked' = Parked
    BY DEF TypeOK, Parked
  <1>3. Running' = Running
    BY DEF TypeOK, Running
  <1>4. TypeOK'
    BY DEF TypeOK, OpSlots
  <1>5. ActiveCount'
    BY <1>1 DEF ActiveCount
  <1>6. ParkedCount'
    BY <1>2 DEF ParkedCount
  <1>7. PublishMutex'
    BY DEF TypeOK, PublishMutex
  <1>8. Parity'
    BY DEF TypeOK, PublishMutex, Parity, OwnerPc
  <1>9. Validated'
    BY DEF TypeOK, PublishMutex, Validated, Parity, OwnerPc
  <1>10. Copies'
    BY DEF TypeOK, PublishMutex, Copies, OpSlots
  <1>11. Progress'
    BY <1>3 DEF TypeOK, PublishMutex, Progress, OwnerPc, BlocksOf
  <1>12. Ranges'
    BY DEF TypeOK, PublishMutex, Ranges, OpSlots
  <1>13. CallsMade'
    BY DEF TypeOK, PublishMutex, CallsMade, Called, Outstanding, OpSlots
  <1> QED BY <1>4, <1>5, <1>6, <1>7, <1>8, <1>9, <1>10, <1>11, <1>12, <1>13

LEMMA CopyDimsKeeps ==
    ASSUME IndInv, NEW w \in Workers, CopyDims(w)
    PROVE  IndInv'
  <1> USE ThreadsAssumption, BoundsAssumption DEF IndInv, CopyDims
  <1>1. Registered' = Registered
    BY DEF TypeOK, Registered
  <1>2. Parked' = Parked
    BY DEF TypeOK, Parked
  <1>3. Running' = Running
    BY DEF TypeOK, Running
  <1>4. TypeOK'
    <2>1. [local[w] EXCEPT !.n = slot.n, !.block = slot.block] \in OpSlots
      BY DEF TypeOK, OpSlots
    <2> QED BY <2>1 DEF TypeOK
  <1>5. ActiveCount'
    BY <1>1 DEF ActiveCount
  <1>6. ParkedCount'
    BY <1>2 DEF ParkedCount
  <1>7. PublishMutex'
    BY DEF TypeOK, PublishMutex
  <1>8. Parity'
    BY DEF TypeOK, PublishMutex, Parity, OwnerPc
  <1>9. Validated'
    BY DEF TypeOK, PublishMutex, Validated, Parity, OwnerPc
  <1>10. Copies'
    <2>1. local'[w] \in OpSlots /\ slot \in OpSlots
      BY <1>4 DEF TypeOK
    <2>2. local'[w].ctx = slot.ctx /\ local'[w].n = slot.n /\ local'[w].block = slot.block
      BY DEF TypeOK, OpSlots, Copies
    <2>3. local'[w] = slot
      BY <2>1, <2>2, SameSlot
    <2> QED BY <2>3 DEF TypeOK, Copies
  <1>11. Progress'
    BY <1>3 DEF TypeOK, PublishMutex, Progress, OwnerPc, BlocksOf
  <1>12. Ranges'
    BY DEF TypeOK, PublishMutex, Ranges, OpSlots
  <1>13. CallsMade'
    BY DEF TypeOK, PublishMutex, CallsMade, Called, Outstanding, OpSlots
  <1> QED BY <1>4, <1>5, <1>6, <1>7, <1>8, <1>9, <1>10, <1>11, <1>12, <1>13

LEMMA LeaveKeeps ==
    ASSUME IndInv, NEW w \in Workers, Leave(w)
    PROVE  IndInv'
  <1> USE ThreadsAssumption, BoundsAssumption DEF IndInv, Leave
  <1>1. Registered' = Registered \ {w}
    BY DEF TypeOK, Registered
  <1>2. Parked' = Parked
    BY DEF TypeOK, Parked
  <1>3. Running' = Running
    BY DEF TypeOK, Running
  <1>a. w \in Registered
    BY DEF Registered
  <1>b. ActiveCount'
    BY <1>1, <1>a, FS_RemoveElement, FiniteThreads DEF ActiveCount
  <1>c. active' \in Nat
    BY <1>1, <1>b, FiniteThreads, FS_RemoveElement, FS_CardinalityType DEF ActiveCount
  <1>4. TypeOK'
    BY <1>c DEF TypeOK
  <1>5. ActiveCount'
    BY <1>b
  <1>6. ParkedCount'
    BY <1>2 DEF ParkedCount
  <1>7. PublishMutex'
    BY DEF TypeOK, PublishMutex
  <1>8. Parity'
    BY DEF TypeOK, PublishMutex, Parity, OwnerPc
  <1>9. Validated'
    BY DEF TypeOK, PublishMutex, Validated, Parity, OwnerPc
  <1>10. Copies'
    BY DEF TypeOK, PublishMutex, Copies, OpSlots
  <1>11. Progress'
    BY <1>3 DEF TypeOK, PublishMutex, Progress, OwnerPc, BlocksOf
  <1>12. Ranges'
    BY DEF TypeOK, PublishMutex, Ranges, OpSlots
  <1>13. CallsMade'
    BY DEF TypeOK, PublishMutex, CallsMade, Called, Outstanding, OpSlots
  <1> QED BY <1>4, <1>5, <1>6, <1>7, <1>8, <1>9, <1>10, <1>11, <1>12, <1>13

LEMMA ClaimBlockKeeps ==
    ASSUME IndInv, NEW t \in Threads, ClaimBlock(t)
    PROVE  IndInv'
  <1> USE ThreadsAssumption, BoundsAssumption DEF IndInv, ClaimBlock
  <1> DEFINE start == nextBlock * slot.block
             end == IF start + slot.block < slot.n THEN start + slot.block ELSE slot.n
  <1>a. /\ local[t] = slot /\ OwnerPc \notin RewritingPcs /\ slot.n \in Nat
        /\ slot.block \in Nat \ {0} /\ nextBlock \in Nat
    BY ClaimingThread
  <1>b. start \in Nat /\ nextBlock' * slot'.block = start + slot.block
    BY <1>a, NextBlockStart
  <1>c. BlocksOf(slot) \in Nat /\ (start < slot.n <=> nextBlock < BlocksOf(slot))
    BY SlotGeometry
  <1>d. \/ /\ start < slot.n
           /\ pc' = [pc EXCEPT ![t] = "call"]
           /\ lo' = [lo EXCEPT ![t] = start]
           /\ hi' = [hi EXCEPT ![t] = end]
        \/ /\ start >= slot.n
           /\ pc' = [pc EXCEPT ![t] = IF t \in Workers THEN "leave" ELSE "await"]
           /\ UNCHANGED <<lo, hi>>
    BY <1>a
  <1>e. /\ nextBlock' = nextBlock + 1 /\ pc[t] = "claim"
        /\ UNCHANGED <<generation, slot, completed, active, park, publish, local, calls,
                       seen, g, runs>>
    OBVIOUS
  <1>f. end \in Nat /\ (start < slot.n => start < end /\ end <= slot.n /\ end <= start + slot.block)
    BY <1>a, <1>b
  <1> HIDE DEF start, end, ClaimBlock
  <1>1. Registered' = Registered
    BY <1>d, <1>e DEF TypeOK, Registered
  <1>2. Parked' = Parked
    BY <1>d, <1>e DEF TypeOK, Parked
  <1>3. /\ start < slot.n => Running' = Running \cup {t} /\ t \notin Running
        /\ ~(start < slot.n) => Running' = Running
    BY <1>a, <1>b, <1>d, <1>e DEF TypeOK, Running
  <1>4. TypeOK'
    <2>1. lo' \in [Threads -> Nat] /\ hi' \in [Threads -> Nat]
      BY <1>b, <1>d, <1>f DEF TypeOK
    <2>2. /\ pc' \in [Threads -> PublisherPcs \cup WorkerPcs]
          /\ \A p \in Publishers : pc'[p] \in PublisherPcs
          /\ \A w \in Workers : pc'[w] \in WorkerPcs
      <3>1. /\ pc'[t] \in {"call", IF t \in Workers THEN "leave" ELSE "await"}
            /\ \A u \in Threads : u # t => pc'[u] = pc[u]
            /\ pc' = [pc EXCEPT ![t] = pc'[t]]
        BY <1>d DEF TypeOK
      <3>2. t \in Workers => pc'[t] \in WorkerPcs
        BY <3>1
      <3>3. t \in Publishers => pc'[t] \in PublisherPcs
        BY <3>1, ThreadsAssumption
      <3>4. pc' \in [Threads -> PublisherPcs \cup WorkerPcs]
        BY <3>1, <3>2, <3>3 DEF TypeOK
      <3> QED BY <3>1, <3>2, <3>3, <3>4 DEF TypeOK
    <2>3. nextBlock' \in Nat
      BY <1>a, <1>e
    <2> QED BY <1>e, <2>1, <2>2, <2>3 DEF TypeOK
  <1>5. ActiveCount'
    BY <1>1, <1>e DEF ActiveCount
  <1>6. ParkedCount'
    BY <1>2, <1>e DEF ParkedCount
  <1>7. PublishMutex'
    BY <1>d, <1>e DEF TypeOK, PublishMutex
  <1>8. Parity'
    BY <1>d, <1>e DEF TypeOK, PublishMutex, Parity, OwnerPc
  <1>9. Validated'
    BY <1>d, <1>e DEF TypeOK, PublishMutex, Validated, Parity, OwnerPc
  <1>10. Copies'
    BY <1>d, <1>e DEF TypeOK, PublishMutex, Copies, OpSlots
  <1>11. Progress'
    <2>1. Cardinality(Running) \in Nat
      BY FiniteThreads, FS_CardinalityType
    <2>2. Cardinality(Running') = Cardinality(Running) + IF start < slot.n THEN 1 ELSE 0
      BY <1>3, <2>1, FiniteThreads, FS_AddElement
    <2>3. BlocksOf(slot)' = BlocksOf(slot) /\ completed' = completed /\ completed \in Nat
      BY <1>e DEF BlocksOf, TypeOK
    <2>4. OwnerPc' \notin RewritingPcs /\ (OwnerPc \in ExecutingPcs => OwnerPc' \in ExecutingPcs)
      BY <1>a, <1>d, <1>e DEF TypeOK, OwnerPc
    <2>5. completed + Cardinality(Running) =
             IF nextBlock < BlocksOf(slot) THEN nextBlock ELSE BlocksOf(slot)
      BY <1>a DEF Progress
    <2>6. completed' + Cardinality(Running') =
             IF nextBlock' < BlocksOf(slot) THEN nextBlock' ELSE BlocksOf(slot)
      BY <1>a, <1>c, <1>e, <2>1, <2>2, <2>3, <2>5
    <2>7. OwnerPc \notin ExecutingPcs => completed = BlocksOf(slot)
      BY <1>a DEF Progress
    <2> QED BY <2>3, <2>4, <2>6, <2>7 DEF Progress
  <1>12. Ranges'
    <2>1. slot' = slot
      BY <1>e
    <2>2. \A u \in Threads :
             /\ u # t => pc'[u] = pc[u] /\ lo'[u] = lo[u] /\ hi'[u] = hi[u]
             /\ lo[u] \in Nat /\ hi[u] \in Nat
      BY <1>d, <1>e DEF TypeOK
    <2>3. pc'[t] \in {"call", "complete"} => start < slot.n /\ lo'[t] = start /\ hi'[t] = end
      BY <1>d, <1>e DEF TypeOK
    <2>4. \A u \in Threads : u # t /\ pc[u] \in {"call", "complete"} => hi[u] <= start
      BY DEF Ranges, start
    <2>5. \A u \in Threads :
             /\ pc'[u] = "call" => lo'[u] < hi'[u]
             /\ pc'[u] \in {"call", "complete"} =>
                    hi'[u] <= slot.n /\ hi'[u] <= start + slot.block
      <3> SUFFICES ASSUME NEW u \in Threads
                   PROVE  /\ pc'[u] = "call" => lo'[u] < hi'[u]
                          /\ pc'[u] \in {"call", "complete"} =>
                                hi'[u] <= slot.n /\ hi'[u] <= start + slot.block
        OBVIOUS
      <3>1. CASE u = t
        BY <1>f, <2>3, <3>1
      <3>2. CASE u # t
        BY <1>a, <1>b, <2>2, <2>4, <3>2 DEF Ranges
      <3> QED BY <3>1, <3>2
    <2>6. \A u, v \in Threads : pc'[u] = "call" /\ pc'[v] = "call" /\ u # v =>
             hi'[u] <= lo'[v] \/ hi'[v] <= lo'[u]
      <3> SUFFICES ASSUME NEW u \in Threads, NEW v \in Threads, u # v,
                          pc'[u] = "call", pc'[v] = "call"
                   PROVE  hi'[u] <= lo'[v] \/ hi'[v] <= lo'[u]
        OBVIOUS
      <3>1. CASE u = t
        BY <2>2, <2>3, <2>4, <3>1
      <3>2. CASE v = t
        BY <2>2, <2>3, <2>4, <3>2
      <3>3. CASE u # t /\ v # t
        BY <2>2, <3>3 DEF Ranges
      <3> QED BY <3>1, <3>2, <3>3
    <2>7. \A u \in Threads : pc'[u] \in {"call", "complete"} =>
             hi'[u] <= slot'.n /\ hi'[u] <= nextBlock' * slot'.block
      BY <1>b, <2>1, <2>5
    <2> QED BY <2>5, <2>6, <2>7 DEF Ranges
  <1>13. CallsMade'
    <2>1. \A c \in Chunks : start < slot.n =>
             (Outstanding(c)' <=> Outstanding(c) \/ (start <= c /\ c < end))
      <3> SUFFICES ASSUME NEW c \in Chunks, start < slot.n
                   PROVE  Outstanding(c)' <=> Outstanding(c) \/ (start <= c /\ c < end)
        OBVIOUS
      <3>1. pc'[t] = "call" /\ lo'[t] = start /\ hi'[t] = end /\ pc[t] # "call"
        BY <1>a, <1>b, <1>d, <1>e DEF TypeOK
      <3>2. \A u \in Threads : u # t => pc'[u] = pc[u] /\ lo'[u] = lo[u] /\ hi'[u] = hi[u]
        BY <1>d, <1>e DEF TypeOK
      <3> QED BY <3>1, <3>2 DEF Outstanding
    <2>2. \A c \in Chunks : ~(start < slot.n) => (Outstanding(c)' <=> Outstanding(c))
      BY <1>a, <1>b, <1>d, <1>e DEF TypeOK, Outstanding
    <2>3. \A c \in Chunks : Called(c) <=> c < slot.n /\ c < start /\ ~Outstanding(c)
      BY DEF Called, start
    <2>4. \A c \in Chunks : Called(c)' <=>
             c < slot.n /\ c < start + slot.block /\ ~Outstanding(c)'
      BY <1>b, <1>e DEF Called
    <2>5. \A c \in Chunks : Called(c)' <=> Called(c)
      <3> SUFFICES ASSUME NEW c \in Chunks
                   PROVE  Called(c)' <=> Called(c)
        OBVIOUS
      <3>1. c \in Nat
        BY DEF Chunks
      <3>2. CASE start < slot.n
        BY <1>a, <1>b, <2>1, <2>3, <2>4, <3>1, <3>2 DEF end
      <3>3. CASE ~(start < slot.n)
        BY <1>a, <1>b, <2>2, <2>3, <2>4, <3>1, <3>3
      <3> QED BY <3>2, <3>3
    <2>6. calls' = calls /\ local' = local
      BY <1>e
    <2>7. \A q \in Publishers :
             /\ pc'[q] \in ExecutingPcs <=> pc[q] \in ExecutingPcs
             /\ pc[q] \notin ExecutingPcs => pc'[q] = pc[q] /\ lo'[q] = lo[q] /\ hi'[q] = hi[q]
      BY <1>d, <1>e, ThreadsAssumption DEF TypeOK
    <2> QED BY <2>5, <2>6, <2>7 DEF CallsMade
  <1> QED BY <1>4, <1>5, <1>6, <1>7, <1>8, <1>9, <1>10, <1>11, <1>12, <1>13

LEMMA CallChunkKeeps ==
    ASSUME IndInv, NEW t \in Threads, CallChunk(t)
    PROVE  IndInv'
  <1> USE ThreadsAssumption, BoundsAssumption DEF IndInv, CallChunk
  <1>a. publish \in Publishers /\ slot = local[publish] /\ slot.ctx.pub = publish
        /\ pc[publish] \in ExecutingPcs
    BY RunningThread
  <1>b. local[t] = slot /\ slot.n \in Nat /\ slot.n <= MaxChunks
    BY ClaimingThread
  <1>c. lo[t] < hi[t] /\ hi[t] <= slot.n /\ lo[t] \in Chunks
    BY <1>b DEF TypeOK, Ranges, Chunks
  <1>d. calls' = [calls EXCEPT ![publish] = [calls[publish] EXCEPT ![lo[t]] = @ + 1]]
    BY <1>a, <1>b
  <1>1. Registered' = Registered
    BY <1>d DEF TypeOK, Registered
  <1>2. Parked' = Parked
    BY <1>d DEF TypeOK, Parked
  <1>3. Running' = Running
    BY <1>d DEF TypeOK, Running
  <1>4. TypeOK'
    <2>1. calls' \in [Publishers -> [Chunks -> Nat]]
      BY <1>a, <1>c, <1>d DEF TypeOK
    <2> QED BY <2>1 DEF TypeOK
  <1>5. ActiveCount'
    BY <1>1 DEF ActiveCount
  <1>6. ParkedCount'
    BY <1>2 DEF ParkedCount
  <1>7. PublishMutex'
    BY <1>d DEF TypeOK, PublishMutex
  <1>8. Parity'
    BY <1>d DEF TypeOK, PublishMutex, Parity, OwnerPc
  <1>9. Validated'
    BY <1>d DEF TypeOK, PublishMutex, Validated, Parity, OwnerPc
  <1>10. Copies'
    BY <1>d DEF TypeOK, PublishMutex, Copies, OpSlots
  <1>11. Progress'
    BY <1>3, <1>d DEF TypeOK, PublishMutex, Progress, OwnerPc, BlocksOf
  <1>12. Ranges'
    <2>1. \A u \in Threads : hi'[u] = hi[u] /\ (u # t => lo'[u] = lo[u] /\ pc'[u] = pc[u])
      BY DEF TypeOK
    <2>2. lo'[t] = lo[t] + 1 /\ pc'[t] = IF lo[t] + 1 = hi[t] THEN "complete" ELSE "call"
      BY DEF TypeOK
    <2>3. slot' = slot /\ nextBlock' = nextBlock
      OBVIOUS
    <2>4. \A u \in Threads : lo[u] \in Nat /\ hi[u] \in Nat
      BY DEF TypeOK
    <2>5. \A u \in Threads :
             /\ pc'[u] = "call" => lo'[u] < hi'[u]
             /\ pc'[u] \in {"call", "complete"} =>
                    hi'[u] <= slot.n /\ hi'[u] <= nextBlock * slot.block
      BY <1>c, <2>1, <2>2, <2>4 DEF Ranges
    <2>6. \A u, v \in Threads : pc'[u] = "call" /\ pc'[v] = "call" /\ u # v =>
             hi'[u] <= lo'[v] \/ hi'[v] <= lo'[u]
      <3> SUFFICES ASSUME NEW u \in Threads, NEW v \in Threads, u # v,
                          pc'[u] = "call", pc'[v] = "call"
                   PROVE  hi'[u] <= lo'[v] \/ hi'[v] <= lo'[u]
        OBVIOUS
      <3>1. hi[u] <= lo[v] \/ hi[v] <= lo[u]
        BY <2>1, <2>2 DEF Ranges
      <3> QED BY <2>1, <2>2, <2>4, <3>1
    <2> QED BY <2>3, <2>5, <2>6 DEF Ranges
  <1>13. CallsMade'
    <2>1. \A c \in Chunks : calls'[publish][c] =
             IF c = lo[t] THEN calls[publish][c] + 1 ELSE calls[publish][c]
      BY <1>a, <1>c, <1>d DEF TypeOK
    <2>2. \A q \in Publishers : q # publish => calls'[q] = calls[q] /\ pc[q] \notin HoldingPcs
      BY <1>d DEF TypeOK, PublishMutex
    <2>3. \A q \in Publishers : pc'[q] \in ExecutingPcs <=> q = publish
      BY <1>a, <2>2 DEF TypeOK, PublishMutex
    <2>4. \A q \in Publishers : q # publish =>
             pc'[q] = pc[q] /\ lo'[q] = lo[q] /\ hi'[q] = hi[q] /\ local'[q] = local[q]
      BY <1>a, <2>2 DEF TypeOK
    <2>5. \A c \in Chunks : c # lo[t] => (Outstanding(c)' <=> Outstanding(c))
      BY <1>c DEF TypeOK, Outstanding, Chunks
    <2>6. Outstanding(lo[t])
      BY <1>c DEF Outstanding, TypeOK
    <2>7. \A c \in Chunks : c = lo[t] =>
             ~Outstanding(c)' /\ c < slot.n /\ c < nextBlock * slot.block
      <3>1. lo[t] < slot.n /\ lo[t] < nextBlock * slot.block
        BY <1>b, <1>c, SlotGeometry DEF Ranges, TypeOK
      <3>2. \A u \in Threads : u # t /\ pc'[u] = "call" => ~(lo'[u] <= lo[t] /\ lo[t] < hi'[u])
        <4> SUFFICES ASSUME NEW u \in Threads, u # t, pc'[u] = "call"
                     PROVE  ~(lo'[u] <= lo[t] /\ lo[t] < hi'[u])
          OBVIOUS
        <4>1. pc[u] = "call" /\ lo'[u] = lo[u] /\ hi'[u] = hi[u]
          BY DEF TypeOK
        <4>2. hi[u] <= lo[t] \/ hi[t] <= lo[u]
          BY <4>1 DEF Ranges
        <4>3. lo[t] \in Nat /\ lo[u] \in Nat /\ hi[t] \in Nat /\ hi[u] \in Nat
          BY DEF TypeOK
        <4> QED BY <1>c, <4>1, <4>2, <4>3
      <3>3. lo'[t] = lo[t] + 1
        BY DEF TypeOK
      <3> QED BY <1>c, <3>1, <3>2, <3>3 DEF Outstanding, Chunks
    <2>8. \A c \in Chunks : calls'[publish][c] = IF Called(c)' THEN 1 ELSE 0
      BY <1>a, <1>c, <2>1, <2>5, <2>6, <2>7 DEF CallsMade, Called
    <2> QED BY <1>a, <2>2, <2>3, <2>4, <2>8 DEF CallsMade
  <1> QED BY <1>4, <1>5, <1>6, <1>7, <1>8, <1>9, <1>10, <1>11, <1>12, <1>13

LEMMA CompleteBlockKeeps ==
    ASSUME IndInv, NEW t \in Threads, CompleteBlock(t)
    PROVE  IndInv'
  <1> USE ThreadsAssumption, BoundsAssumption DEF IndInv, CompleteBlock
  <1>1. Registered' = Registered
    BY DEF TypeOK, Registered
  <1>2. Parked' = Parked
    BY DEF TypeOK, Parked
  <1>3. Running' = Running \ {t} /\ t \in Running
    BY DEF TypeOK, Running
  <1>a. Cardinality(Running') = Cardinality(Running) - 1 /\ Cardinality(Running) \in Nat
    BY <1>3, FiniteThreads, FS_RemoveElement, FS_CardinalityType
  <1>4. TypeOK'
    BY DEF TypeOK
  <1>5. ActiveCount'
    BY <1>1 DEF ActiveCount
  <1>6. ParkedCount'
    BY <1>2 DEF ParkedCount
  <1>7. PublishMutex'
    BY DEF TypeOK, PublishMutex
  <1>8. Parity'
    BY DEF TypeOK, PublishMutex, Parity, OwnerPc
  <1>9. Validated'
    BY DEF TypeOK, PublishMutex, Validated, Parity, OwnerPc
  <1>10. Copies'
    BY DEF TypeOK, PublishMutex, Copies, OpSlots
  <1>11. Progress'
    <2>1. publish \in Publishers /\ pc[publish] \in ExecutingPcs /\ publish # NoThread
      BY RunningThread, ThreadsAssumption
    <2>2. OwnerPc \in ExecutingPcs /\ OwnerPc' \in ExecutingPcs
      BY <2>1 DEF TypeOK, OwnerPc
    <2>3. BlocksOf(slot)' = BlocksOf(slot)
      BY DEF BlocksOf
    <2>4. BlocksOf(slot) \in Nat
      BY SlotGeometry
    <2>5. completed + Cardinality(Running) =
             IF nextBlock < BlocksOf(slot) THEN nextBlock ELSE BlocksOf(slot)
      BY <2>2 DEF Progress
    <2>6. completed' + Cardinality(Running') = completed + Cardinality(Running)
      BY <1>a DEF TypeOK
    <2> QED BY <2>2, <2>3, <2>5, <2>6 DEF Progress
  <1>12. Ranges'
    BY DEF TypeOK, PublishMutex, Ranges, OpSlots
  <1>13. CallsMade'
    BY DEF TypeOK, PublishMutex, CallsMade, Called, Outstanding, OpSlots
  <1> QED BY <1>4, <1>5, <1>6, <1>7, <1>8, <1>9, <1>10, <1>11, <1>12, <1>13

LEMMA StartRunKeeps ==
    ASSUME IndInv, NEW p \in Publishers, NEW n \in 0 .. MaxChunks, StartRun(p, n)
    PROVE  IndInv'
  <1> DEFINE op == [ctx |-> [pub |-> p, run |-> runs[p] + 1], n |-> n, block |-> BlockSize(n)]
             next == IF n = 0 THEN "idle"
                     ELSE IF n = 1 \/ Workers = {} THEN "inline" ELSE "lock"
  <1> USE ThreadsAssumption, BoundsAssumption DEF IndInv
  <1>a. /\ pc[p] = "idle" /\ pc' = [pc EXCEPT ![p] = next]
        /\ runs' = [runs EXCEPT ![p] = @ + 1]
        /\ local' = [local EXCEPT ![p] = op]
        /\ lo' = [lo EXCEPT ![p] = 0] /\ hi' = [hi EXCEPT ![p] = n]
        /\ calls' = [calls EXCEPT ![p] = [c \in Chunks |-> 0]]
        /\ UNCHANGED <<shared, park, publish, seen, g>>
    BY DEF StartRun
  <1>b. op \in OpSlots
    BY BlockSizePositive DEF TypeOK, OpSlots, Ctxs
  <1>c. next \in {"idle", "inline", "lock"} /\ (next = "idle" => n = 0) /\ n \in Nat
    OBVIOUS
  <1>d. op.n = n /\ op.ctx.pub = p /\ op.ctx.run = runs[p] + 1
    OBVIOUS
  <1> HIDE DEF op, next
  <1>e. /\ pc'[p] = next /\ runs'[p] = runs[p] + 1 /\ local'[p] = op /\ lo'[p] = 0
        /\ hi'[p] = n /\ \A c \in Chunks : calls'[p][c] = 0
    BY <1>a DEF TypeOK
  <1>f. \A t \in Threads : t # p => pc'[t] = pc[t] /\ local'[t] = local[t] /\ lo'[t] = lo[t]
                                    /\ hi'[t] = hi[t]
    BY <1>a DEF TypeOK
  <1>g. \A q \in Publishers : q # p => runs'[q] = runs[q] /\ calls'[q] = calls[q]
    BY <1>a DEF TypeOK
  <1>h. p \notin Workers /\ p # NoThread
    OBVIOUS
  <1>i. publish # p
    BY <1>a DEF PublishMutex
  <1>1. Registered' = Registered
    BY <1>f, <1>h DEF TypeOK, Registered
  <1>2. Parked' = Parked
    BY <1>f, <1>h DEF TypeOK, Parked
  <1>3. Running' = Running
    BY <1>a, <1>c, <1>e, <1>f DEF TypeOK, Running
  <1>4. TypeOK'
    <2>1. local' \in [Threads -> OpSlots] /\ calls' \in [Publishers -> [Chunks -> Nat]]
      BY <1>a, <1>b DEF TypeOK
    <2>2. lo' \in [Threads -> Nat] /\ hi' \in [Threads -> Nat] /\ runs' \in [Publishers -> Nat]
      BY <1>a, <1>c DEF TypeOK
    <2>3. /\ pc' \in [Threads -> PublisherPcs \cup WorkerPcs]
          /\ \A q \in Publishers : pc'[q] \in PublisherPcs
          /\ \A w \in Workers : pc'[w] \in WorkerPcs
      BY <1>a, <1>c, <1>e, <1>f, <1>h DEF TypeOK
    <2> QED BY <1>a, <2>1, <2>2, <2>3 DEF TypeOK
  <1>5. ActiveCount'
    BY <1>1, <1>a DEF ActiveCount
  <1>6. ParkedCount'
    BY <1>2, <1>a DEF ParkedCount
  <1>7. PublishMutex'
    BY <1>a, <1>c, <1>e, <1>f DEF PublishMutex
  <1>8. OwnerPc' = OwnerPc
    BY <1>a, <1>f, <1>i DEF TypeOK, OwnerPc
  <1>9. Parity' /\ Validated'
    BY <1>a, <1>f, <1>h, <1>8 DEF Parity, Validated
  <1>10. Copies'
    BY <1>a, <1>c, <1>d, <1>e, <1>f, <1>g, <1>h DEF Copies, TypeOK
  <1>11. Progress'
    BY <1>a, <1>3, <1>8 DEF Progress, BlocksOf
  <1>12. Ranges'
    <2>1. \A t \in Threads : pc'[t] \in {"call", "complete"} => t # p /\ pc'[t] = pc[t]
      BY <1>c, <1>e, <1>f
    <2> QED BY <1>a, <1>f, <2>1 DEF Ranges
  <1>13. CallsMade'
    <2>1. \A c \in Chunks : Called(c)' <=> Called(c)
      <3>1. \A t \in Threads : pc'[t] = "call" => t # p
        BY <1>c, <1>e
      <3>2. \A c \in Chunks : Outstanding(c)' <=> Outstanding(c)
        BY <1>a, <1>f, <3>1 DEF Outstanding
      <3> QED BY <1>a, <3>2 DEF Called
    <2>2. \A q \in Publishers : q # p => calls'[q] = calls[q] /\ pc'[q] = pc[q]
             /\ local'[q] = local[q] /\ lo'[q] = lo[q] /\ hi'[q] = hi[q]
      BY <1>f, <1>g
    <2>3. \A c \in Chunks : c \in Nat /\ ~(c < 0)
      BY DEF Chunks
    <2>4. /\ pc'[p] = "idle" => \A c \in Chunks : calls'[p][c] = IF c < local'[p].n THEN 1 ELSE 0
          /\ pc'[p] = "inline" =>
                /\ lo'[p] <= hi'[p] /\ hi'[p] = local'[p].n
                /\ \A c \in Chunks : calls'[p][c] = IF c < lo'[p] THEN 1 ELSE 0
          /\ pc'[p] \in {"lock", "close"} \cup ClosedPcs => \A c \in Chunks : calls'[p][c] = 0
          /\ pc'[p] \notin ExecutingPcs
      BY <1>c, <1>d, <1>e, <2>3
    <2> QED BY <2>1, <2>2, <2>4 DEF CallsMade
  <1> QED BY <1>4, <1>5, <1>6, <1>7, <1>9, <1>10, <1>11, <1>12, <1>13


-----------------------------------------------------------------------------
(* The theorems                                                            *)

LEMMA InitInv == Init => IndInv
  <1> SUFFICES ASSUME Init PROVE IndInv
    OBVIOUS
  <1> USE ThreadsAssumption, BoundsAssumption DEF Init
  <1>1. Registered = {} /\ Parked = {} /\ Running = {}
    BY DEF Registered, Parked, Running
  <1>2. slot \in OpSlots /\ slot.n = 0 /\ slot.ctx.run = 0
    BY DEF OpSlots, Ctxs, NullCtx
  <1>3. TypeOK
    <2>1. local \in [Threads -> OpSlots]
      BY <1>2
    <2>2. calls \in [Publishers -> [Chunks -> Nat]]
      OBVIOUS
    <2> QED BY <1>2, <2>1, <2>2 DEF TypeOK
  <1>4. ActiveCount /\ ParkedCount
    BY <1>1, FS_EmptySet DEF ActiveCount, ParkedCount
  <1>5. OwnerPc = "free" /\ PublishMutex
    BY DEF OwnerPc, PublishMutex
  <1>6. Parity /\ Validated
    BY <1>5 DEF Parity, Validated
  <1>7. Copies
    BY <1>2 DEF Copies
  <1>8. Progress
    <2>1. BlocksOf(slot) \in Nat /\ ~(0 < BlocksOf(slot))
      BY <1>2, <1>3, SlotGeometry DEF OpSlots
    <2> QED BY <1>1, <1>5, <2>1, FS_EmptySet DEF Progress
  <1>9. Ranges
    BY DEF Ranges
  <1>10. CallsMade
    BY <1>2 DEF CallsMade, Chunks
  <1> QED BY <1>3, <1>4, <1>5, <1>6, <1>7, <1>8, <1>9, <1>10 DEF IndInv

LEMMA NextKeeps == IndInv /\ [Next]_vars => IndInv'
  <1> SUFFICES ASSUME IndInv, [Next]_vars PROVE IndInv'
    OBVIOUS
  <1>1. CASE \E p \in Publishers : Publish(p)
    BY <1>1, InlineChunkKeeps, InlineReturnKeeps, LockPublishKeeps, CloseDoorKeeps,
       DrainActiveKeeps, WriteCtxKeeps, WriteDimsKeeps, ResetNextKeeps,
       ResetCompletedKeeps, OpenDoorKeeps, CheckParkedKeeps, NotifyAllKeeps,
       AwaitCompletedKeeps DEF Publish
  <1>2. CASE \E p \in Publishers, n \in 0 .. MaxChunks : StartRun(p, n)
    BY <1>2, StartRunKeeps
  <1>3. CASE \E t \in Threads : ExecuteBlocks(t)
    BY <1>3, ClaimBlockKeeps, CallChunkKeeps, CompleteBlockKeeps DEF ExecuteBlocks
  <1>4. CASE \E w \in Workers : WorkerLoop(w)
    BY <1>4, SpinSeesKeeps, LockSleepKeeps, ParkKeeps, RecheckKeeps, WakeKeeps,
       UnparkKeeps, ReloadKeeps, JoinKeeps, CheckKeeps, BackOutKeeps, CopyCtxKeeps,
       CopyDimsKeeps, LeaveKeeps DEF WorkerLoop
  <1>5. CASE \E w \in Workers : SpuriousWake(w)
    BY <1>5, SpuriousWakeKeeps
  <1>6. CASE UNCHANGED vars
    <2>1. /\ UNCHANGED <<generation, slot, nextBlock, completed, active>>
          /\ UNCHANGED <<parked, sleep, waiting, publish, pc, local>>
          /\ UNCHANGED <<lo, hi, calls, seen, g, runs>>
      BY <1>6 DEF vars
    <2>2. Registered' = Registered /\ Parked' = Parked /\ Running' = Running
      BY <2>1 DEF Registered, Parked, Running
    <2>3. OwnerPc' = OwnerPc /\ BlocksOf(slot)' = BlocksOf(slot)
      BY <2>1 DEF OwnerPc, BlocksOf
    <2>4. \A c : Called(c)' <=> Called(c)
      BY <2>1 DEF Called, Outstanding
    <2>5. TypeOK'
      BY <2>1 DEF IndInv, TypeOK
    <2>6. ActiveCount' /\ ParkedCount' /\ PublishMutex' /\ Parity' /\ Validated'
      BY <2>1, <2>2, <2>3
         DEF IndInv, ActiveCount, ParkedCount, PublishMutex, Parity, Validated
    <2>7. Copies' /\ Progress' /\ Ranges' /\ CallsMade'
      BY <2>1, <2>2, <2>3, <2>4 DEF IndInv, Copies, Progress, Ranges, CallsMade
    <2> QED BY <2>5, <2>6, <2>7 DEF IndInv
  <1> QED BY <1>1, <1>2, <1>3, <1>4, <1>5, <1>6 DEF Next

\* The invariant holds in every reachable state.
THEOREM Invariance == Spec => []IndInv
  BY InitInv, NextKeeps, PTL DEF Spec

\* Type correctness.
THEOREM TypeCorrect == Spec => []TypeOK
  <1>1. IndInv => TypeOK
    BY DEF IndInv
  <1> QED BY <1>1, Invariance, PTL

\* No worker copies the op slot while a publisher rewrites it (the SAFETY
\* comments of worker_loop and run).
THEOREM TornCopyFree == Spec => []NoTornCopy
  <1>1. IndInv => NoTornCopy
    BY RewriteIsAlone DEF NoTornCopy
  <1> QED BY <1>1, Invariance, PTL

\* A closure is only called while the run() that owns it has not returned.
THEOREM ClosureAlive == Spec => []CtxLive
  <1>1. IndInv => CtxLive
    <2> SUFFICES ASSUME IndInv, NEW t \in Threads, pc[t] = "call"
                 PROVE  /\ local[t].ctx.pub \in Publishers
                        /\ local[t].ctx.run = runs[local[t].ctx.pub]
                        /\ pc[local[t].ctx.pub] # "idle"
                        /\ lo[t] < local[local[t].ctx.pub].n
      BY DEF CtxLive
    <2>1. /\ publish \in Publishers /\ pc[publish] \in ExecutingPcs
          /\ slot = local[publish] /\ slot.ctx.pub = publish
          /\ slot.ctx.run = runs[publish]
      BY RunningThread
    <2>2. local[t] = slot /\ slot.n \in Nat
      BY ClaimingThread
    <2>3. lo[t] < hi[t] /\ hi[t] <= slot.n /\ lo[t] \in Nat /\ hi[t] \in Nat
      BY DEF IndInv, TypeOK, Ranges
    <2> QED BY <2>1, <2>2, <2>3
  <1> QED BY <1>1, Invariance, PTL

\* The contract of run(): at most once at any time, exactly once on return.
THEOREM CallsExactlyOnce == Spec => []ExactlyOnce
  <1>1. IndInv => ExactlyOnce
    <2> SUFFICES ASSUME IndInv, NEW p \in Publishers, NEW c \in Chunks
                 PROVE  /\ calls[p][c] <= IF c < local[p].n THEN 1 ELSE 0
                        /\ pc[p] = "idle" /\ c < local[p].n => calls[p][c] = 1
      BY DEF ExactlyOnce
    <2>1. c \in Nat
      BY BoundsAssumption DEF Chunks
    <2>2. lo[p] \in Nat /\ hi[p] \in Nat /\ pc[p] \in PublisherPcs
      BY DEF IndInv, TypeOK
    <2>3. local[p].n \in Nat
      BY BoundsAssumption DEF IndInv, TypeOK, OpSlots
    <2>4. pc[p] \in ExecutingPcs => slot = local[p]
      BY DEF IndInv, Copies
    <2>5. pc[p] \in ExecutingPcs => calls[p][c] = IF Called(c) THEN 1 ELSE 0
      BY DEF IndInv, CallsMade
    <2>6. pc[p] \in ExecutingPcs => calls[p][c] <= IF c < local[p].n THEN 1 ELSE 0
      BY <2>1, <2>3, <2>4, <2>5 DEF Called
    <2>7. pc[p] \notin ExecutingPcs => calls[p][c] <= IF c < local[p].n THEN 1 ELSE 0
      BY <2>1, <2>2, <2>3 DEF IndInv, CallsMade
    <2>8. pc[p] = "idle" /\ c < local[p].n => calls[p][c] = 1
      BY DEF IndInv, CallsMade
    <2> QED BY <2>6, <2>7, <2>8
  <1> QED BY <1>1, Invariance, PTL

-----------------------------------------------------------------------------
(* The pool implements the abstract parallel loop                          *)

\* A call of chunk c of publisher q removes c from what q has still to do.
LEMMA ACallIsACall ==
    ASSUME TypeOK, NEW q \in Publishers, NEW c \in Chunks, pc[q] # "idle",
           c < local[q].n, calls[q][c] = 0, pc'[q] # "idle",
           calls' = [calls EXCEPT ![q] = [calls[q] EXCEPT ![c] = @ + 1]],
           local' = local,
           \A p \in Publishers : pc'[p] = "idle" <=> pc[p] = "idle"
    PROVE  Loop!Next
  <1>1. RunningRuns' = RunningRuns /\ q \in RunningRuns
    BY DEF RunningRuns
  <1>2. c \in 0 .. MaxChunks - 1 /\ local[q].n \in Int /\ c \in TodoChunks[q]
    BY BoundsAssumption DEF TypeOK, OpSlots, Chunks, TodoChunks
  <1>3. calls'[q][c] = 1 /\ \A d \in Chunks : d # c => calls'[q][d] = calls[q][d]
    BY DEF TypeOK
  <1>4. \A p \in Publishers : p # q => calls'[p] = calls[p]
    BY DEF TypeOK
  <1>5. \A p \in Publishers : local[p].n \in Nat /\ local[p].n <= MaxChunks
    BY BoundsAssumption DEF TypeOK, OpSlots
  <1>6. TodoChunks'[q] = TodoChunks[q] \ {c}
    BY <1>3, <1>5 DEF TodoChunks, Chunks
  <1>7. \A p \in Publishers : p # q => TodoChunks'[p] = TodoChunks[p]
    BY <1>4 DEF TodoChunks
  <1>8. TodoChunks' = [TodoChunks EXCEPT ![q] = @ \ {c}]
    BY <1>6, <1>7 DEF TodoChunks
  <1>9. Loop!Call(q, c)
    BY <1>1, <1>2, <1>8 DEF Loop!Call
  <1> QED BY <1>2, <1>9 DEF Loop!Next

\* A publisher that leaves run() has nothing left to do.
LEMMA AReturnIsAReturn ==
    ASSUME TypeOK, ExactlyOnce, ExactlyOnce', NEW q \in Publishers, pc[q] # "idle",
           pc' = [pc EXCEPT ![q] = "idle"], calls' = calls, local' = local
    PROVE  Loop!Next
  <1>1. RunningRuns' = RunningRuns \ {q} /\ q \in RunningRuns
    BY DEF RunningRuns, TypeOK
  <1>2. TodoChunks' = TodoChunks
    BY DEF TodoChunks
  <1>3. pc'[q] = "idle"
    BY DEF TypeOK
  <1>4. \A c \in Chunks : c < local[q].n => calls[q][c] = 1
    BY <1>3 DEF ExactlyOnce
  <1>5. local[q].n \in Nat /\ local[q].n <= MaxChunks
    BY BoundsAssumption DEF TypeOK, OpSlots
  <1>6. TodoChunks[q] = {}
    BY <1>4, <1>5, BoundsAssumption DEF TodoChunks, Chunks
  <1>7. Loop!Return(q)
    BY <1>1, <1>2, <1>6 DEF Loop!Return
  <1> QED BY <1>7 DEF Loop!Next

\* A step that no caller can see.
LEMMA InternalStep ==
    ASSUME \A p \in Publishers : /\ pc'[p] = "idle" <=> pc[p] = "idle"
                                 /\ local'[p] = local[p],
           calls' = calls
    PROVE  UNCHANGED Loop!vars
  <1>1. RunningRuns' = RunningRuns /\ TodoChunks' = TodoChunks
    BY DEF RunningRuns, TodoChunks
  <1> QED BY <1>1 DEF Loop!vars

\* run() begins: all the chunks of an op are to be called.
LEMMA AStartIsAStart ==
    ASSUME TypeOK, TypeOK', ExactlyOnce, NEW q \in Publishers,
           NEW n \in 0 .. MaxChunks, StartRun(q, n)
    PROVE  Loop!Next
  <1> USE BoundsAssumption, ThreadsAssumption
  <1>1. pc[q] = "idle" /\ (pc'[q] = "idle" <=> n = 0)
    BY DEF StartRun, TypeOK
  <1>2. \A p \in Publishers : p # q =>
           (pc'[p] = pc[p] /\ local'[p] = local[p] /\ calls'[p] = calls[p])
    BY DEF StartRun, TypeOK
  <1>3. RunningRuns' = IF n = 0 THEN RunningRuns ELSE RunningRuns \cup {q}
    BY <1>1, <1>2 DEF RunningRuns
  <1>4. local'[q].n = n /\ \A c \in Chunks : calls'[q][c] = 0
    BY DEF StartRun, TypeOK
  <1>5. TodoChunks'[q] = 0 .. n - 1
    BY <1>4 DEF TodoChunks, Chunks
  <1>6. \A p \in Publishers : p # q => TodoChunks'[p] = TodoChunks[p]
    BY <1>2 DEF TodoChunks
  <1>7. TodoChunks' = [TodoChunks EXCEPT ![q] = 0 .. n - 1]
    BY <1>5, <1>6 DEF TodoChunks
  <1>8. q \notin RunningRuns
    BY <1>1 DEF RunningRuns
  <1>9. Loop!Start(q, n)
    BY <1>3, <1>7, <1>8 DEF Loop!Start
  <1> QED BY <1>9 DEF Loop!Next

\* Every step of the pool is a step of the loop or is invisible to callers.
LEMMA StepSimulation ==
    ASSUME IndInv, IndInv', ExactlyOnce, ExactlyOnce', [Next]_vars
    PROVE  [Loop!Next]_(Loop!vars)
  <1> USE ThreadsAssumption, BoundsAssumption
  <1>0. TypeOK /\ TypeOK'
    BY DEF IndInv
  <1>1. ASSUME NEW p \in Publishers, NEW n \in 0 .. MaxChunks, StartRun(p, n)
        PROVE  Loop!Next
    BY <1>0, <1>1, AStartIsAStart
  <1>2. ASSUME NEW p \in Publishers, InlineChunk(p)
        PROVE  Loop!Next
    <2>1. pc[p] = "inline" /\ pc' = pc /\ local' = local /\ lo[p] < hi[p]
      BY <1>0, <1>2 DEF InlineChunk, TypeOK
    <2>2. lo[p] \in Nat /\ hi[p] = local[p].n /\ local[p].n \in 0 .. MaxChunks
          /\ \A c \in Chunks : calls[p][c] = IF c < lo[p] THEN 1 ELSE 0
      BY <1>0, <2>1 DEF IndInv, CallsMade, TypeOK, OpSlots
    <2>3. lo[p] \in Chunks /\ calls[p][lo[p]] = 0 /\ lo[p] < local[p].n
      BY <2>1, <2>2 DEF Chunks
    <2>4. calls' = [calls EXCEPT ![p] = [calls[p] EXCEPT ![lo[p]] = @ + 1]]
      BY <1>2 DEF InlineChunk
    <2> QED BY <1>0, <2>1, <2>3, <2>4, ACallIsACall
  <1>3. ASSUME NEW p \in Publishers, InlineReturn(p) \/ AwaitCompleted(p)
        PROVE  Loop!Next
    <2>1. /\ pc[p] # "idle" /\ pc' = [pc EXCEPT ![p] = "idle"]
          /\ calls' = calls /\ local' = local
      BY <1>3 DEF InlineReturn, AwaitCompleted
    <2> QED BY <1>0, <2>1, AReturnIsAReturn
  <1>4. ASSUME NEW t \in Threads, CallChunk(t)
        PROVE  Loop!Next
    <2>1. /\ publish \in Publishers /\ pc[publish] \in ExecutingPcs
          /\ slot = local[publish] /\ slot.ctx.pub = publish
      BY <1>4, RunningThread DEF CallChunk
    <2>2. local[t] = slot /\ slot.n \in Nat /\ slot.n <= MaxChunks
      BY <1>4, ClaimingThread DEF CallChunk
    <2>3. lo[t] < hi[t] /\ hi[t] <= slot.n /\ lo[t] \in Nat /\ hi[t] \in Nat /\ pc[t] = "call"
      BY <1>0, <1>4 DEF IndInv, TypeOK, Ranges, CallChunk
    <2>4. lo[t] \in Chunks /\ lo[t] < local[publish].n
      BY <2>1, <2>2, <2>3 DEF Chunks
    <2>5. Outstanding(lo[t])
      BY <2>3 DEF Outstanding
    <2>6. calls[publish][lo[t]] = 0
      BY <2>1, <2>4, <2>5 DEF IndInv, CallsMade, Called
    <2>7. calls' = [calls EXCEPT ![publish] = [calls[publish] EXCEPT ![lo[t]] = @ + 1]]
          /\ local' = local
      BY <1>4, <2>1, <2>2 DEF CallChunk
    <2>8. \A p \in Publishers : pc'[p] = "idle" <=> pc[p] = "idle"
      BY <1>0, <1>4 DEF CallChunk, TypeOK
    <2> QED BY <1>0, <2>1, <2>4, <2>6, <2>7, <2>8, ACallIsACall
  <1>5. ASSUME NEW p \in Publishers,
               \/ LockPublish(p) \/ CloseDoor(p) \/ DrainActive(p) \/ WriteCtx(p)
               \/ WriteDims(p) \/ ResetNext(p) \/ ResetCompleted(p) \/ OpenDoor(p)
               \/ CheckParked(p) \/ NotifyAll(p)
        PROVE  UNCHANGED Loop!vars
    <2>1. calls' = calls /\ local' = local
      BY <1>5 DEF LockPublish, CloseDoor, DrainActive, WriteCtx, WriteDims, ResetNext,
                  ResetCompleted, OpenDoor, CheckParked, NotifyAll
    <2>2. \A q \in Publishers : pc'[q] = "idle" <=> pc[q] = "idle"
      BY <1>0, <1>5 DEF TypeOK, LockPublish, CloseDoor, DrainActive, WriteCtx, WriteDims,
                  ResetNext, ResetCompleted, OpenDoor, CheckParked, NotifyAll
    <2> QED BY <2>1, <2>2, InternalStep
  <1>6. ASSUME NEW t \in Threads, ClaimBlock(t) \/ CompleteBlock(t)
        PROVE  UNCHANGED Loop!vars
    <2>1. calls' = calls /\ local' = local
      BY <1>6 DEF ClaimBlock, CompleteBlock
    <2>2. \A q \in Publishers : pc'[q] = "idle" <=> pc[q] = "idle"
      BY <1>0, <1>6 DEF TypeOK, ClaimBlock, CompleteBlock
    <2> QED BY <2>1, <2>2, InternalStep
  <1>7. ASSUME NEW w \in Workers, WorkerLoop(w) \/ SpuriousWake(w)
        PROVE  UNCHANGED Loop!vars
    <2>1. calls' = calls
      BY <1>7 DEF WorkerLoop, SpinSees, LockSleep, Park, Recheck, Wake, SpuriousWake, Unpark,
                  Reload, Join, Check, BackOut, CopyCtx, CopyDims, Leave
    <2>2. \A q \in Publishers : q # w /\ pc'[q] = pc[q] /\ local'[q] = local[q]
      BY <1>0, <1>7 DEF TypeOK, WorkerLoop, SpinSees, LockSleep, Park, Recheck, Wake,
                  SpuriousWake, Unpark, Reload, Join, Check, BackOut, CopyCtx, CopyDims, Leave
    <2> QED BY <2>1, <2>2, InternalStep
  <1>8. CASE UNCHANGED vars
    BY <1>8, InternalStep DEF vars
  <1> QED BY <1>1, <1>2, <1>3, <1>4, <1>5, <1>6, <1>7, <1>8
          DEF Next, Publish, ExecuteBlocks

\* SpinPool::run implements the parallel loop its contract describes.
THEOREM Refinement == Spec => ImplementsLoop
  <1>1. Init => Loop!Init
    <2> SUFFICES ASSUME Init PROVE Loop!Init
      OBVIOUS
    <2>1. RunningRuns = {}
      BY ThreadsAssumption DEF Init, RunningRuns
    <2>2. \A p \in Publishers : local[p].n = 0
      BY DEF Init
    <2>3. TodoChunks = [p \in Publishers |-> {}]
      BY <2>2 DEF TodoChunks
    <2> QED BY <2>1, <2>3 DEF Loop!Init
  <1>2. IndInv /\ IndInv' /\ ExactlyOnce /\ ExactlyOnce' /\ [Next]_vars
            => [Loop!Next]_(Loop!vars)
    BY StepSimulation
  <1> QED BY <1>1, <1>2, Invariance, CallsExactlyOnce, PTL DEF Spec, ImplementsLoop, Loop!Spec

-----------------------------------------------------------------------------
(* Parking: no wake-up is lost when the check under the sleep mutex reads  *)
(* the latest generation.                                                  *)

\* A worker waits inside wait(), and if there is a new op its publisher has yet to notify.
WakeInv == (\A w \in waiting : pc[w] = "wait") /\ NoLostWakeup

\* A step that bumps no generation, sends nobody to wait and lets no publisher pass its notify.
LEMMA StillToBeNotified ==
    ASSUME WakeInv, generation' = generation, waiting' \subseteq waiting,
           \A w \in waiting' : pc'[w] = pc[w] /\ seen'[w] = seen[w],
           \A p \in Publishers : pc[p] \in {"checkParked", "notify"} =>
                                    pc'[p] \in {"checkParked", "notify"} \/ waiting' = {}
    PROVE  WakeInv'
  <1>1. \A w \in waiting' : pc'[w] = "wait"
    BY DEF WakeInv
  <1>2. ASSUME NEW w \in waiting', New(generation, w)'
        PROVE  \E p \in Publishers : pc'[p] \in {"checkParked", "notify"}
    <2>1. w \in waiting /\ New(generation, w)
      BY <1>2 DEF New
    <2>2. PICK p \in Publishers : pc[p] \in {"checkParked", "notify"}
      BY <2>1 DEF WakeInv, NoLostWakeup
    <2> QED BY <1>2, <2>2
  <1> QED BY <1>1, <1>2 DEF WakeInv, NoLostWakeup

\* Opening and closing the door: an odd generation is new to nobody, and who makes it even has
\* yet to look at `parked`.
LEMMA DoorKeepsWakeups ==
    ASSUME IndInv, WakeInv, NEW p \in Publishers, CloseDoor(p) \/ OpenDoor(p)
    PROVE  WakeInv'
  <1>1. \A w \in waiting' : pc'[w] = "wait"
    BY ThreadsAssumption DEF CloseDoor, OpenDoor, Goto, WakeInv, park, IndInv, TypeOK, Threads
  <1>2. publish = p /\ OwnerPc = pc[p] /\ generation \in Nat
    BY ThreadsAssumption DEF IndInv, PublishMutex, OwnerPc, CloseDoor, OpenDoor, Goto, HoldingPcs,
       RewritingPcs, TypeOK
  <1>3. CASE CloseDoor(p)
    <2>1. generation % 2 # 1 /\ generation' = generation + 1
      BY <1>2, <1>3 DEF IndInv, Parity, CloseDoor, Goto, ClosedPcs, RewritingPcs
    <2>2. generation' % 2 = 1
      BY <1>2, <2>1, Bump
    <2>3. \A w : ~ New(generation, w)'
      BY <2>2 DEF New
    <2> QED BY <1>1, <2>3 DEF WakeInv, NoLostWakeup
  <1>4. CASE OpenDoor(p)
    <2>1. pc'[p] = "checkParked"
      BY <1>4 DEF OpenDoor, Goto, IndInv, TypeOK, Threads
    <2> QED BY <1>1, <2>1 DEF WakeInv, NoLostWakeup
  <1> QED BY <1>3, <1>4

\* A worker that waits is counted in `parked`, so the publisher that looks at it notifies.
LEMMA CheckKeepsWakeups ==
    ASSUME IndInv, WakeInv, NEW p \in Publishers, CheckParked(p)
    PROVE  WakeInv'
  <1>1. /\ pc[p] = "checkParked" /\ pc' = [pc EXCEPT ![p] = IF parked > 0 THEN "notify" ELSE "claim"]
        /\ UNCHANGED <<generation, waiting, seen>>
    BY DEF CheckParked, Goto, shared, park
  <1>2. CASE waiting = {}
    BY <1>1, <1>2 DEF WakeInv, NoLostWakeup
  <1>3. CASE waiting # {}
    <2>1. PICK w \in waiting : pc[w] = "wait"
      BY <1>3 DEF WakeInv
    <2>2. w \in Parked /\ IsFiniteSet(Parked)
      BY <2>1, FiniteThreads DEF Parked, IndInv, TypeOK
    <2>3. Cardinality(Parked) \in Nat /\ Cardinality(Parked) # 0
      BY <2>2, FS_EmptySet, FS_CardinalityType
    <2>4. parked > 0
      BY <2>3 DEF IndInv, ParkedCount
    <2>5. pc' = [pc EXCEPT ![p] = "notify"]
      BY <1>1, <2>4
    <2>6. \A v \in waiting : v # p /\ v \in Threads
      BY ThreadsAssumption DEF IndInv, TypeOK, Threads
    <2> QED BY <1>1, <2>5, <2>6, StillToBeNotified DEF IndInv, TypeOK, Threads
  <1> QED BY <1>2, <1>3

\* A worker only waits when the generation it reads under the mutex is not new.
LEMMA RecheckKeepsWakeups ==
    ASSUME ~StaleRecheck, IndInv, WakeInv, NEW w \in Workers, Recheck(w)
    PROVE  WakeInv'
  <1>1. /\ pc[w] = "recheck" /\ generation' = generation /\ seen' = seen
        /\ \/ pc' = [pc EXCEPT ![w] = "unpark"] /\ waiting' = waiting
           \/ ~New(generation, w) /\ pc' = [pc EXCEPT ![w] = "wait"] /\ waiting' = waiting \cup {w}
    BY DEF Recheck, Goto, shared
  <1>2. w \notin waiting
    BY <1>1 DEF WakeInv
  <1>3. \A p \in Publishers : p # w /\ p \in Threads
    BY ThreadsAssumption DEF Threads
  <1>4. pc \in [Threads -> PublisherPcs \cup WorkerPcs] /\ w \in Threads /\ waiting \subseteq Threads
    BY DEF IndInv, TypeOK, Threads
  <1>5. CASE pc' = [pc EXCEPT ![w] = "unpark"] /\ waiting' = waiting
    BY <1>1, <1>2, <1>3, <1>4, <1>5, StillToBeNotified
  <1>6. CASE ~New(generation, w) /\ pc' = [pc EXCEPT ![w] = "wait"] /\ waiting' = waiting \cup {w}
    <2>1. \A v \in waiting' : pc'[v] = "wait"
      BY <1>4, <1>6 DEF WakeInv
    <2>2. ASSUME NEW v \in waiting', New(generation, v)'
          PROVE  \E p \in Publishers : pc'[p] \in {"checkParked", "notify"}
      <3>1. New(generation, v)
        BY <1>1, <2>2 DEF New
      <3>2. v \in waiting
        BY <1>6, <2>2, <3>1
      <3>3. PICK p \in Publishers : pc[p] \in {"checkParked", "notify"}
        BY <3>1, <3>2 DEF WakeInv, NoLostWakeup
      <3> QED BY <1>3, <1>4, <1>6, <3>3
    <2> QED BY <2>1, <2>2 DEF WakeInv, NoLostWakeup
  <1> QED BY <1>1, <1>5, <1>6

LEMMA WakeInvNext == ASSUME ~StaleRecheck, IndInv, WakeInv, [Next]_vars PROVE WakeInv'
  <1>0. /\ pc \in [Threads -> PublisherPcs \cup WorkerPcs] /\ waiting \subseteq Workers
        /\ Workers \subseteq Threads /\ Publishers \subseteq Threads /\ Workers \cap Publishers = {}
        /\ seen \in [Workers -> Nat] /\ \A w \in waiting : pc[w] = "wait"
    BY ThreadsAssumption DEF IndInv, TypeOK, Threads, WakeInv
  <1>1. ASSUME NEW p \in Publishers, NEW n \in 0 .. MaxChunks, StartRun(p, n)
        PROVE  WakeInv'
    <2>1. pc[p] = "idle" /\ UNCHANGED <<generation, waiting, seen>> /\ \E to : pc' = [pc EXCEPT ![p] = to]
      BY <1>1 DEF StartRun, Goto, shared, park
    <2> QED BY <1>0, <2>1, StillToBeNotified
  <1>2. ASSUME NEW p \in Publishers,
               \/ LockPublish(p) \/ DrainActive(p) \/ WriteCtx(p) \/ WriteDims(p) \/ ResetNext(p)
               \/ ResetCompleted(p) \/ AwaitCompleted(p) \/ InlineChunk(p) \/ InlineReturn(p)
        PROVE  WakeInv'
    <2>1. /\ pc[p] \notin {"checkParked", "notify"} /\ UNCHANGED <<generation, waiting, seen>>
          /\ \E to : pc' = [pc EXCEPT ![p] = to]
      BY <1>2 DEF LockPublish, DrainActive, WriteCtx, WriteDims, ResetNext, ResetCompleted,
                  AwaitCompleted, InlineChunk, InlineReturn, Goto, shared, park
    <2> QED BY <1>0, <2>1, StillToBeNotified
  <1>3. ASSUME NEW p \in Publishers, NotifyAll(p)
        PROVE  WakeInv'
    BY <1>3 DEF NotifyAll, WakeInv, NoLostWakeup
  <1>4. ASSUME NEW t \in Threads, ExecuteBlocks(t)
        PROVE  WakeInv'
    <2>1. /\ pc[t] \in {"claim", "call", "complete"} /\ UNCHANGED <<generation, waiting, seen>>
          /\ \E to : pc' = [pc EXCEPT ![t] = to]
      BY <1>4 DEF ExecuteBlocks, ClaimBlock, CallChunk, CompleteBlock, Goto, shared, park
    <2> QED BY <1>0, <2>1, StillToBeNotified
  <1>5. ASSUME NEW w \in Workers,
               \/ SpinSees(w) \/ LockSleep(w) \/ Park(w) \/ Wake(w) \/ Unpark(w) \/ Reload(w) \/ Join(w)
               \/ Check(w) \/ BackOut(w) \/ CopyCtx(w) \/ CopyDims(w)
        PROVE  WakeInv'
    <2>1. /\ pc[w] # "wait" \/ w \notin waiting
          /\ UNCHANGED <<generation, waiting, seen>> /\ \E to : pc' = [pc EXCEPT ![w] = to]
      BY <1>5 DEF SpinSees, LockSleep, Park, Wake, Unpark, Reload, Join, Check, BackOut, CopyCtx,
                  CopyDims, Goto, shared, park
    <2>2. w \notin waiting
      BY <1>0, <2>1
    <2> QED BY <1>0, <2>1, <2>2, StillToBeNotified
  <1>6. ASSUME NEW w \in Workers, Leave(w)
        PROVE  WakeInv'
    <2>1. /\ pc[w] = "leave" /\ UNCHANGED <<generation, waiting>> /\ pc' = [pc EXCEPT ![w] = "spin"]
          /\ seen' = [seen EXCEPT ![w] = g[w]]
      BY <1>6 DEF Leave, Goto, park
    <2>2. w \notin waiting
      BY <1>0, <2>1
    <2> QED BY <1>0, <2>1, <2>2, StillToBeNotified
  <1>7. ASSUME NEW w \in Workers, SpuriousWake(w)
        PROVE  WakeInv'
    BY <1>0, <1>7, StillToBeNotified DEF SpuriousWake, shared
  <1>8. CASE UNCHANGED vars
    BY <1>0, <1>8, StillToBeNotified DEF vars, shared, park
  <1> QED
    BY <1>1, <1>2, <1>3, <1>4, <1>5, <1>6, <1>7, <1>8, DoorKeepsWakeups, CheckKeepsWakeups,
       RecheckKeepsWakeups DEF Next, Publish, WorkerLoop

\* A worker that waits although a new op is published is going to be notified, if the load
\* under the sleep mutex returns the latest generation.  (If it does not, the run of the stale
\* recheck shows that run() returns nevertheless: a publisher executes what is left itself.)
THEOREM WakeupsNotLost == ASSUME ~StaleRecheck PROVE Spec => []NoLostWakeup
  <1>1. Init => WakeInv
    BY DEF Init, WakeInv, NoLostWakeup
  <1>2. IndInv /\ WakeInv /\ [Next]_vars => WakeInv'
    BY WakeInvNext
  <1>3. WakeInv => NoLostWakeup
    BY DEF WakeInv
  <1> QED BY <1>1, <1>2, <1>3, Invariance, PTL DEF Spec

=============================================================================
