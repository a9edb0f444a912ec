----------------------------- MODULE BufferPool -----------------------------
(***************************************************************************)
(* PoolAllocator (cpu backend, pool.rs): buffers given back are kept in a  *)
(* bucket per byte size, up to a capacity; release makes room by evicting. *)
(* A release holds the mutex from its first eviction to its end, so that   *)
(* its evictions are steps of their own that no other operation separates. *)
(***************************************************************************)
EXTENDS Naturals, Sequences, FiniteSets, Functions

CONSTANTS
    Buffers,    \* the buffers in circulation
    SizeOfBuf,  \* buffer -> bytes, as acquire and release compute them from numel and dtype
    CAPACITY,   \* the most bytes the pool holds
    MAXTIME,    \* bound on the clock
    NoBuffer

ASSUME PoolAssumption ==
    /\ IsFiniteSet(Buffers) /\ SizeOfBuf \in [Buffers -> Nat \ {0}]
    /\ CAPACITY \in Nat /\ MAXTIME \in Nat /\ NoBuffer \notin Buffers

VARIABLES
    free,       \* size -> its entries, the newest last: the buffer and when it was returned
    poolBytes,  \* used_bytes
    inUse,      \* buffers a tensor holds
    releasing,  \* the buffer being released
    poolClock   \* Instant::now(); may stand still between two operations

poolVars == <<free, poolBytes, inUse, releasing, poolClock>>

BufSizes == {SizeOfBuf[b] : b \in Buffers}

PoolInit ==
    /\ free = [n \in BufSizes |-> <<>>]
    /\ poolBytes = 0
    /\ inUse = Buffers
    /\ releasing = NoBuffer
    /\ poolClock = 0

PoolTick ==
    /\ poolClock < MAXTIME
    /\ poolClock' = poolClock + 1
    /\ UNCHANGED <<free, poolBytes, inUse, releasing>>

\* acquire: the newest entry of the bucket of exactly that size, if there is one.
Acquire(n) ==
    /\ releasing = NoBuffer
    /\ free[n] # <<>>
    /\ inUse' = inUse \cup {free[n][Len(free[n])][1]}
    /\ free' = [free EXCEPT ![n] = SubSeq(@, 1, Len(@) - 1)]
    /\ poolBytes' = poolBytes - n
    /\ UNCHANGED <<releasing, poolClock>>

Release(b) ==
    /\ releasing = NoBuffer /\ b \in inUse
    /\ releasing' = b /\ inUse' = inUse \ {b}
    /\ UNCHANGED <<free, poolBytes, poolClock>>

Times(n) == {free[n][i][2] : i \in DOMAIN free[n]}

\* evict_lru finds the bucket of an oldest entry that is older than now, and pops that bucket's
\* newest.
Evictable ==
    {n \in BufSizes : \E t \in Times(n) :
        t < poolClock /\ \A k \in BufSizes : \A u \in Times(k) : t <= u}

TooMuch == poolBytes + SizeOfBuf[releasing] > CAPACITY

EvictLru ==
    /\ releasing # NoBuffer /\ TooMuch
    /\ \E n \in Evictable :
          /\ free' = [free EXCEPT ![n] = SubSeq(@, 1, Len(@) - 1)]
          /\ poolBytes' = poolBytes - n
    /\ UNCHANGED <<inUse, releasing, poolClock>>

\* Mutant: what cannot be made room for is kept all the same.
Keep_Unchecked ==
    /\ releasing # NoBuffer /\ (TooMuch => Evictable = {})
    /\ LET n == SizeOfBuf[releasing]
       IN  /\ free' = [free EXCEPT ![n] = Append(@, <<releasing, poolClock>>)]
           /\ poolBytes' = poolBytes + n
    /\ releasing' = NoBuffer
    /\ UNCHANGED <<inUse, poolClock>>

\* There is room: keep it.
Keep ==
    /\ releasing # NoBuffer /\ ~TooMuch
    /\ LET n == SizeOfBuf[releasing]
       IN  /\ free' = [free EXCEPT ![n] = Append(@, <<releasing, poolClock>>)]
           /\ poolBytes' = poolBytes + n
    /\ releasing' = NoBuffer
    /\ UNCHANGED <<inUse, poolClock>>

\* Nothing (older) is left to evict: the buffer is dropped, and a new one may be allocated.
Discard ==
    /\ releasing # NoBuffer /\ TooMuch /\ Evictable = {}
    /\ releasing' = NoBuffer
    /\ UNCHANGED <<free, poolBytes, inUse, poolClock>>

\* acquire found none: the caller allocates a buffer (under the name of one that was dropped).
Pooled == {b \in Buffers : \E n \in BufSizes : \E i \in DOMAIN free[n] : free[n][i][1] = b}

Allocate(b) ==
    /\ releasing = NoBuffer /\ b \notin inUse \cup Pooled
    /\ free[SizeOfBuf[b]] = <<>>
    /\ inUse' = inUse \cup {b}
    /\ UNCHANGED <<free, poolBytes, releasing, poolClock>>

PoolNext ==
    \/ PoolTick \/ EvictLru \/ Keep \/ Discard
    \/ \E n \in BufSizes : Acquire(n)
    \/ \E b \in Buffers : Release(b) \/ Allocate(b)

PoolSpec == PoolInit /\ [][PoolNext]_poolVars

-----------------------------------------------------------------------------

\* The entries of the pool, each <<size, place in the bucket>>.
PoolEntries == {e \in BufSizes \X (1 .. Cardinality(Buffers)) : e[2] <= Len(free[e[1]])}

\* The pool never holds more than its capacity, its counter is what it holds, and a buffer is
\* never in the pool twice, or in the pool and in use.
PoolSound ==
    /\ poolBytes <= CAPACITY
    /\ \A b \in Pooled : b \notin inUse /\ Cardinality({e \in PoolEntries : free[e[1]][e[2]][1] = b}) = 1
    /\ \A n \in BufSizes : \A i \in DOMAIN free[n] : SizeOfBuf[free[n][i][1]] = n
    /\ SumFunctionOnSet(SizeOfBuf, Pooled) = poolBytes
=============================================================================
