------------------------------ MODULE Thermal ------------------------------
(***************************************************************************)
(* The thermal governor (cpu backend, thermal.rs): every matmul calls      *)
(* tick(), which lets one caller per TICK take a temperature sample and    *)
(* step the thread target; the host app caps it by an external level.      *)
(* Loads and stores of the atomics are steps of their own.                 *)
(***************************************************************************)
EXTENDS Naturals, FiniteSets

CONSTANTS
    Callers,    \* threads that call tick()
    TICK,       \* TICK_MS
    CORES,      \* rayon's threads, max_threads
    ENDTIME     \* bound on the clock

ASSUME ThermalAssumption == TICK \in Nat \ {0} /\ CORES \in Nat \ {0} /\ ENDTIME \in Nat

VARIABLES
    clock,      \* milliseconds since the epoch
    lastMs,     \* LAST_MS
    target,     \* ThermalGovernor.effective
    level,      \* EXTERNAL_LEVEL
    ticker,     \* caller -> pc, the time and LAST_MS it read, the target it loaded, the next one
    samples     \* history: samples begun

thVars == <<clock, lastMs, target, level, ticker, samples>>

\* min_threads.
Floor == IF CORES \div 2 > 1 THEN CORES \div 2 ELSE 1

ThInit ==
    /\ clock = 0 /\ lastMs = 0 /\ samples = 0
    /\ target = CORES
    /\ level = 0
    /\ ticker = [c \in Callers |-> [pc |-> "idle", now |-> 0, last |-> 0, next |-> CORES]]

SetTicker(c, rec) == ticker' = [ticker EXCEPT ![c] = rec]

TimePasses ==
    /\ clock < ENDTIME
    /\ clock' = clock + 1
    /\ UNCHANGED <<lastMs, target, level, ticker, samples>>

\* The time is read, then LAST_MS, which may be later by then.
ReadTime(c) ==
    /\ ticker[c].pc = "idle"
    /\ SetTicker(c, [ticker[c] EXCEPT !.pc = "timed", !.now = clock])
    /\ UNCHANGED <<clock, lastMs, target, level, samples>>

\* now_ms.saturating_sub(last) < TICK_MS: return.
ReadLast(c) ==
    /\ ticker[c].pc = "timed"
    /\ SetTicker(c, [ticker[c] EXCEPT !.pc = IF ticker[c].now < lastMs + TICK THEN "idle" ELSE "due",
                                      !.last = lastMs])
    /\ UNCHANGED <<clock, lastMs, target, level, samples>>

\* Mutant: a plain store.
Exchange_Store(c) ==
    /\ ticker[c].pc = "due"
    /\ lastMs' = ticker[c].now /\ samples' = samples + 1
    /\ SetTicker(c, [ticker[c] EXCEPT !.pc = "sample"])
    /\ UNCHANGED <<clock, target, level>>

\* compare_exchange(last, now_ms): the loser returns.
Exchange(c) ==
    /\ ticker[c].pc = "due"
    /\ IF lastMs = ticker[c].last
       THEN /\ lastMs' = ticker[c].now /\ samples' = samples + 1
            /\ SetTicker(c, [ticker[c] EXCEPT !.pc = "sample"])
       ELSE /\ SetTicker(c, [ticker[c] EXCEPT !.pc = "idle"])
            /\ UNCHANGED <<lastMs, samples>>
    /\ UNCHANGED <<clock, target, level>>

\* sample: hot above the floor steps down, cool below the cores steps up; between the
\* thresholds, or with no readable zone, nothing is stored.
Sample(c) ==
    /\ ticker[c].pc = "sample"
    /\ \/ target > Floor /\ SetTicker(c, [ticker[c] EXCEPT !.pc = "store", !.next = target - 1])
       \/ target < CORES /\ SetTicker(c, [ticker[c] EXCEPT !.pc = "store", !.next = target + 1])
       \/ SetTicker(c, [ticker[c] EXCEPT !.pc = "idle"])
    /\ UNCHANGED <<clock, lastMs, target, level, samples>>

StoreTarget(c) ==
    /\ ticker[c].pc = "store"
    /\ target' = ticker[c].next
    /\ SetTicker(c, [ticker[c] EXCEPT !.pc = "idle"])
    /\ UNCHANGED <<clock, lastMs, level, samples>>

\* set_external_thermal_level, from an OS callback; levels above 3 are 3.
SetLevel ==
    /\ \E l \in 0 .. 3 : level' = l
    /\ UNCHANGED <<clock, lastMs, target, ticker, samples>>

Sampling == \E c \in Callers : ReadTime(c) \/ ReadLast(c) \/ Exchange(c) \/ Sample(c) \/ StoreTarget(c)

ThNext == TimePasses \/ SetLevel \/ Sampling

ThSpec == ThInit /\ [][ThNext]_thVars

-----------------------------------------------------------------------------

AtLeast1(n) == IF n > 1 THEN n ELSE 1

ExternalCap(l) == CASE l = 0 -> CORES [] l = 1 -> AtLeast1((CORES * 3) \div 4)
                    [] l = 2 -> AtLeast1(CORES \div 2) [] l = 3 -> AtLeast1(CORES \div 4)

\* effective_threads: the stricter of the two.
EffectiveThreads == IF target < ExternalCap(level) THEN target ELSE ExternalCap(level)

-----------------------------------------------------------------------------

\* However many threads call tick() at once, the samples begun so far fit in the time that has
\* passed, one per TICK; and although a slow caller may store a target computed from an old
\* one, the target stays between half the cores and all of them, and the threads a matmul may
\* use, whatever the host app has set, between one and all of them.
SampledInTime ==
    /\ samples * TICK <= lastMs /\ lastMs <= clock
    /\ target \in Floor .. CORES
    /\ EffectiveThreads \in 1 .. CORES
=============================================================================
