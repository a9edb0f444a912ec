---------------------------- MODULE ModelServer ----------------------------
(***************************************************************************)
(* Admission and model residency in `sapient serve` (sapient-cli,          *)
(* server.rs): each kind of model has an LRU cache bounded by a count and  *)
(* a byte budget, loads are serialized by one lock, inferences are bounded *)
(* by one semaphore.  Handlers are futures: when a client disconnects, its *)
(* handler is dropped at the await it is suspended in, together with the   *)
(* guards it holds.                                                        *)
(*                                                                         *)
(* A model in memory is known by the request that loaded it.               *)
(***************************************************************************)
EXTENDS Integers, FiniteSets, Sequences, SequencesExt

CONSTANTS
    Requests,        \* requests, each made once
    Models,
    Bytes,           \* Bytes[m] is the estimated size of m
    MaxModels,       \* models a cache keeps
    Budget,          \* bytes a cache keeps
    Permits,         \* inferences at once
    Kinds,           \* the kinds of requests that are made
    NoRequest

ASSUME SizeAssumption ==
    MaxModels \in Nat \ {0} /\ Permits \in Nat \ {0} /\ Budget \in Nat /\ Bytes \in [Models -> Nat]
ASSUME KindAssumption ==
    Kinds \subseteq {"chat", "stream", "speculative", "audio", "speech", "vision"}
ASSUME RequestAssumption == NoRequest \notin Requests /\ IsFiniteSet(Requests)

\* The cache a request's model lives in.
CacheOf(k) == IF k \in {"chat", "stream", "speculative"} THEN "text" ELSE k
Caches == {CacheOf(k) : k \in Kinds}

VARIABLES
    cache, usedBytes,    \* per cache: entries, the most recently used last; used_bytes
    loadLock,            \* who holds load_lock
    permits,             \* free permits of inference_sem
    pc,                  \* per request
    kind, model,         \* per request: what it asks for
    held,                \* per request: whose model it uses, NoRequest if none
    permit,              \* per request: does it hold a permit
    evicted              \* history: the entries that were evicted

cached == <<cache, usedBytes, evicted>>
request == <<pc, kind, model, held, permit>>
vars == <<cached, loadLock, permits, request>>

Init ==
    /\ cache = [k \in Caches |-> <<>>] /\ usedBytes = [k \in Caches |-> 0] /\ evicted = {}
    /\ loadLock = NoRequest /\ permits = Permits
    /\ pc = [r \in Requests |-> "start"]
    /\ kind \in [Requests -> Kinds] /\ model \in [Requests -> Models]
    /\ held = [r \in Requests |-> NoRequest] /\ permit = [r \in Requests |-> FALSE]

Goto(r, to) == pc' = [pc EXCEPT ![r] = to]

-----------------------------------------------------------------------------
(* ModelCache                                                              *)

MyCache(r) == CacheOf(kind[r])

\* The entries of a cache that hold model m: at most one.
Hits(k, m) == {i \in DOMAIN cache[k] : cache[k][i].model = m}
Resident(r) == Hits(MyCache(r), model[r]) # {}

\* touch: the entry becomes the most recently used one.
Touch(r) ==
    LET k == MyCache(r) IN
    \E i \in Hits(k, model[r]) :
        /\ cache' = [cache EXCEPT ![k] = Append(RemoveAt(@, i), @[i])]
        /\ held' = [held EXCEPT ![r] = cache[k][i].by]

SizeOf(entries) == SumFunction([i \in DOMAIN entries |-> Bytes[entries[i].model]])

\* Mutant: the byte budget is not looked at.
Fits_CountOnly(entries, used) == Len(entries) <= 1 \/ Len(entries) <= MaxModels

\* No entry has to be evicted; the last one never is.
Fits(entries, used) == Len(entries) <= 1 \/ (Len(entries) <= MaxModels /\ used <= Budget)

\* insert, of a model that is not resident: evict from the front until it fits.
InsertNew(r) ==
    LET k     == MyCache(r)
        full  == Append(cache[k], [model |-> model[r], by |-> r])
        used  == usedBytes[k] + Bytes[model[r]]
        Left(n) == used - SizeOf(SubSeq(full, 1, n))
        n     == CHOOSE n \in 0 .. Len(full) - 1 :
                    /\ Fits(SubSeq(full, n + 1, Len(full)), Left(n))
                    /\ \A m \in 0 .. n - 1 : ~Fits(SubSeq(full, m + 1, Len(full)), Left(m))
    IN  /\ cache' = [cache EXCEPT ![k] = SubSeq(full, n + 1, Len(full))]
        /\ usedBytes' = [usedBytes EXCEPT ![k] = Left(n)]
        /\ evicted' = evicted \cup {full[i].by : i \in 1 .. n}

-----------------------------------------------------------------------------
(* get_or_load                                                             *)

\* Transcriptions take a permit before they load, the others after it.
PermitFirst(k) == k = "audio"
Loaded(k) == IF PermitFirst(k) THEN "engine" ELSE "permit"

Start(r) ==
    /\ pc[r] = "start"
    /\ Goto(r, IF PermitFirst(kind[r]) THEN "permit" ELSE "lookup")
    /\ UNCHANGED <<cached, loadLock, permits, kind, model, held, permit>>

\* The fast path: the model is resident.
Hit(r) ==
    /\ pc[r] = "lookup" /\ Touch(r)
    /\ Goto(r, Loaded(kind[r]))
    /\ UNCHANGED <<usedBytes, evicted, loadLock, permits, kind, model, permit>>

Miss(r) ==
    /\ pc[r] = "lookup" /\ ~Resident(r)
    /\ Goto(r, "lock")
    /\ UNCHANGED <<cached, loadLock, permits, kind, model, held, permit>>

LockLoads(r) ==
    /\ pc[r] = "lock" /\ loadLock = NoRequest
    /\ loadLock' = r
    /\ Goto(r, "recheck")
    /\ UNCHANGED <<cached, permits, kind, model, held, permit>>

\* Mutant: the load lock is kept when the model turns out to be resident.
Recheck_KeepsLock(r) ==
    /\ pc[r] = "recheck"
    /\ IF Resident(r) THEN Touch(r) /\ Goto(r, Loaded(kind[r]))
       ELSE Goto(r, "load") /\ UNCHANGED <<cache, held>>
    /\ UNCHANGED <<usedBytes, evicted, loadLock, permits, kind, model, permit>>

\* Mutant: the model is loaded although it was loaded in the meantime.
Recheck_Forgotten(r) ==
    /\ pc[r] = "recheck"
    /\ Goto(r, "load")
    /\ UNCHANGED <<cached, loadLock, permits, kind, model, held, permit>>

\* Another request may have loaded it while this one waited.
Recheck(r) ==
    /\ pc[r] = "recheck"
    /\ IF Resident(r)
       THEN Touch(r) /\ loadLock' = NoRequest /\ Goto(r, Loaded(kind[r]))
       ELSE Goto(r, "load") /\ UNCHANGED <<cache, held, loadLock>>
    /\ UNCHANGED <<usedBytes, evicted, permits, kind, model, permit>>

\* The model is loaded and inserted; if it is there already, that one stays in
\* the cache and this request uses its own.
Load(r) ==
    /\ pc[r] = "load"
    /\ held' = [held EXCEPT ![r] = r]
    /\ IF Resident(r)
       THEN /\ \E i \in Hits(MyCache(r), model[r]) :
                  cache' = [cache EXCEPT ![MyCache(r)] = Append(RemoveAt(@, i), @[i])]
            /\ UNCHANGED <<usedBytes, evicted>>
       ELSE InsertNew(r)
    /\ loadLock' = NoRequest
    /\ Goto(r, Loaded(kind[r]))
    /\ UNCHANGED <<permits, kind, model, permit>>

\* A request ends, whether answered or dropped: its guards are released.
Leave(r) ==
    /\ Goto(r, "done")
    /\ loadLock' = (IF loadLock = r THEN NoRequest ELSE loadLock)
    /\ permits' = (IF permit[r] THEN permits + 1 ELSE permits)
    /\ permit' = [permit EXCEPT ![r] = FALSE]
    /\ held' = [held EXCEPT ![r] = NoRequest]
    /\ UNCHANGED <<cached, kind, model>>

LoadFails(r) == pc[r] = "load" /\ Leave(r)

-----------------------------------------------------------------------------
(* Admission and inference                                                 *)

Admit(r) ==
    /\ pc[r] = "permit" /\ permits > 0
    /\ permits' = permits - 1 /\ permit' = [permit EXCEPT ![r] = TRUE]
    /\ Goto(r, IF PermitFirst(kind[r]) THEN "lookup" ELSE "engine")
    /\ UNCHANGED <<cached, loadLock, kind, model, held>>

\* One inference at a time on an engine: its mutex.
Run(r) ==
    /\ pc[r] = "engine"
    /\ \A s \in Requests : pc[s] = "run" => held[s] # held[r]
    /\ Goto(r, "run")
    /\ UNCHANGED <<cached, loadLock, permits, kind, model, held, permit>>

\* The inference is over, in success or in error.
Finish(r) == pc[r] = "run" /\ Leave(r)

\* The client disconnects while its handler is suspended in an await: vision
\* waits there for its engine, too; the others wait for it in the thread.
Disconnect(r) ==
    /\ \/ pc[r] \in {"lookup", "lock", "recheck", "load", "permit"}
       \/ pc[r] = "engine" /\ kind[r] = "vision"
    /\ Leave(r)

\* The permit is in the handler (vision, speculative) or in the task that
\* relays a stream, the inference in a thread: the permit goes, the inference
\* goes on.
Abandon(r) ==
    /\ pc[r] = "run" /\ permit[r] /\ kind[r] \in {"vision", "speculative", "stream"}
    /\ permit' = [permit EXCEPT ![r] = FALSE] /\ permits' = permits + 1
    /\ UNCHANGED <<cached, loadLock, pc, kind, model, held>>

AllDone == (\A r \in Requests : pc[r] = "done") /\ UNCHANGED vars

Serve(r) ==
    \/ Start(r) \/ Hit(r) \/ Miss(r) \/ LockLoads(r) \/ Recheck(r) \/ Load(r)
    \/ Admit(r) \/ Run(r) \/ Finish(r)

Next == (\E r \in Requests : Serve(r) \/ LoadFails(r) \/ Disconnect(r) \/ Abandon(r)) \/ AllDone

Spec == Init /\ [][Next]_vars

\* The executor polls every task that is ready, loads and inferences end, and
\* tokio's mutex and semaphore serve their waiters in order.
FairSpec == Spec /\ \A r \in Requests : WF_vars(Serve(r))

-----------------------------------------------------------------------------
(* Properties                                                              *)

Entries == [model : Models, by : Requests]
Pcs == {"start", "lookup", "lock", "recheck", "load", "permit", "engine", "run", "done"}

TypeOK ==
    /\ cache \in [Caches -> Seq(Entries)] /\ usedBytes \in [Caches -> Nat]
    /\ evicted \subseteq Requests
    /\ loadLock \in Requests \cup {NoRequest} /\ permits \in 0 .. Permits
    /\ pc \in [Requests -> Pcs] /\ kind \in [Requests -> Kinds] /\ model \in [Requests -> Models]
    /\ held \in [Requests -> Requests \cup {NoRequest}] /\ permit \in [Requests -> BOOLEAN]

\* However lookups, loads and evictions of concurrent requests interleave, a
\* cache holds a model once, knows its size, and respects both bounds unless
\* the last model alone is too large.
CacheSound ==
    \A k \in Caches :
        /\ \A i, j \in DOMAIN cache[k] : cache[k][i].model = cache[k][j].model => i = j
        /\ usedBytes[k] = SizeOf(cache[k])
        /\ Len(cache[k]) > 1 => Len(cache[k]) <= MaxModels /\ SizeOf(cache[k]) <= Budget

\* "Serializes model loads so two concurrent first-requests for the same model
\* don't both download/load it": only what is not resident is loaded.
LoadsAbsent == \A r \in Requests : pc[r] = "load" => ~Resident(r)

\* ... so that a request uses the resident copy of its model, unless the copy it uses was
\* evicted after the request got it: there is no second copy for another reason.
UsesResident ==
    \A r \in Requests : held[r] # NoRequest /\ held[r] \notin evicted =>
        \E i \in DOMAIN cache[MyCache(r)] : cache[MyCache(r)][i] = [model |-> model[r], by |-> held[r]]

OneCopy == LoadsAbsent /\ UsesResident

\* No permit is lost or released twice, whichever way a request ends.
PermitsConserved == permits + Cardinality({r \in Requests : permit[r]}) = Permits

\* Every request ends, although some take the permit before the load lock and
\* others after it.
EveryRequestEnds == \A r \in Requests : <>(pc[r] = "done")

\* "Admission control: bounds the number of inferences running at once."
InferencesBounded == Cardinality({r \in Requests : pc[r] = "run"}) <= Permits
=============================================================================
