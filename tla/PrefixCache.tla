---------------------------- MODULE PrefixCache ----------------------------
(***************************************************************************)
(* Prefix caching in the generation pipeline (sapient-generate,            *)
(* pipeline.rs) over an engine's KV cache (sapient-models, forward).       *)
(*                                                                         *)
(* A pipeline owns one engine behind a mutex; a call holds the mutex for a *)
(* whole generation.  Instead of prefilling its whole prompt, a call keeps *)
(* the KV positions of the prefix it shares with `last_prompt`, what the   *)
(* previous call recorded.  last_prompt has a mutex of its own, and some   *)
(* paths reset or fail without recording: is the cache still what          *)
(* last_prompt says it is?                                                 *)
(*                                                                         *)
(* kv lists the tokens whose keys and values the engine holds.  The model  *)
(* leaves out what the logits are: sampling picks any token.               *)
(***************************************************************************)
EXTENDS Integers, Sequences

CONSTANTS
    Callers,         \* concurrent users of one pipeline
    Tokens,          \* the vocabulary
    MaxPrompt,       \* longest prompt
    MaxNew,          \* max_new_tokens
    Window,          \* positions the KV cache has
    Slides,          \* full cache: the CPU engine slides, the GPU engine fails
    CanTruncate,     \* Gemma3 and MLX reset instead of truncating
    Kinds,           \* the calls that are made
    FailingKinds,    \* the calls in which the device or the sampler may fail
    MayPanic,        \* may a generation panic with the mutex held?
    NoCaller         \* the mutex is free

ASSUME SizeAssumption ==
    MaxPrompt \in Nat \ {0} /\ MaxNew \in Nat \ {0} /\ Window \in Nat \ {0}
ASSUME KindAssumption ==
    /\ Kinds \subseteq {"stream", "call", "raw", "embed", "reset"}
    /\ FailingKinds \subseteq Kinds
ASSUME CallerAssumption == NoCaller \notin Callers
ASSUME FlagAssumption == Slides \in BOOLEAN /\ CanTruncate \in BOOLEAN /\ MayPanic \in BOOLEAN

VARIABLES
    kv,              \* the tokens in the engine's KV cache
    lastPrompt,      \* last_prompt
    mutex,           \* who holds the engine
    poisoned,        \* a holder panicked
    pc, kind,        \* per caller: where it is, and in which call
    all, start       \* per caller: all_tokens and prefill_start

engine == <<kv, mutex, poisoned>>
vars == <<kv, lastPrompt, mutex, poisoned, pc, kind, all, start>>

Prompts == UNION {[1 .. n -> Tokens] : n \in 1 .. MaxPrompt}

Init ==
    /\ kv = <<>> /\ lastPrompt = <<>> /\ mutex = NoCaller /\ poisoned = FALSE
    /\ pc = [c \in Callers |-> "idle"]
    /\ kind = [c \in Callers |-> "none"]
    /\ all = [c \in Callers |-> <<>>]
    /\ start = [c \in Callers |-> 0]

-----------------------------------------------------------------------------
Lower(a, b) == IF a <= b THEN a ELSE b

\* n tokens are shared by a and b.
Shares(a, b, n) == \A i \in 1 .. n : a[i] = b[i]

\* common_prefix_len
CommonPrefixLen(a, b) ==
    CHOOSE n \in 0 .. Lower(Len(a), Len(b)) :
        /\ Shares(a, b, n)
        /\ \A m \in 0 .. Lower(Len(a), Len(b)) : Shares(a, b, m) => m <= n

\* The last Window entries: what update_kv_cache keeps when it slides.
Slid(s) == IF Len(s) <= Window THEN s ELSE SubSeq(s, Len(s) - Window + 1, Len(s))

\* What the next forward pass computes: the rest of the prompt, then one token.
Step0(c) == Len(all[c]) > 0 /\ pc[c] = "prefill"
Chunk(c) ==
    IF Step0(c) THEN SubSeq(all[c], start[c] + 1, Len(all[c]))
    ELSE <<all[c][Len(all[c])]>>

Goto(c, to) == pc' = [pc EXCEPT ![c] = to]

-----------------------------------------------------------------------------
(* Calls                                                                   *)

\* A call ends: what it held is dropped.
Return(c) ==
    /\ Goto(c, "idle")
    /\ kind' = [kind EXCEPT ![c] = "none"]
    /\ all' = [all EXCEPT ![c] = <<>>] /\ start' = [start EXCEPT ![c] = 0]

Begin(c) ==
    /\ pc[c] = "idle"
    /\ \E k \in Kinds : kind' = [kind EXCEPT ![c] = k]
    /\ Goto(c, "lock")
    /\ UNCHANGED <<engine, lastPrompt, all, start>>

\* The mutex is taken.  The prompt is the caller's own: the model picks it here.
Lock(c) ==
    /\ pc[c] = "lock" /\ mutex = NoCaller /\ ~poisoned
    /\ mutex' = c
    /\ \/ /\ kind[c] \in {"stream", "call", "raw"}
          /\ \E p \in Prompts : all' = [all EXCEPT ![c] = p]
          /\ Goto(c, IF kind[c] = "raw" THEN "clear" ELSE "reuse")
       \/ /\ kind[c] \in {"embed", "reset"}
          /\ UNCHANGED all
          /\ Goto(c, "reset")
    /\ UNCHANGED <<kv, poisoned, lastPrompt, kind, start>>

\* The mutex is poisoned: every generation fails, reset_cache still forgets.
LockFails(c) ==
    /\ pc[c] = "lock" /\ poisoned
    /\ IF kind[c] = "reset" THEN Goto(c, "forget") /\ UNCHANGED <<kind, all, start>>
       ELSE Return(c)
    /\ UNCHANGED <<engine, lastPrompt>>

\* Mutant: prefilling starts at the shared prefix, not at what the engine kept.
Reuse_TrustsPrefix(c) ==
    /\ pc[c] = "reuse"
    /\ LET p == Lower(CommonPrefixLen(lastPrompt, all[c]), Len(all[c]) - 1)
           kept == IF CanTruncate THEN Lower(p, Len(kv)) ELSE 0
       IN  kv' = SubSeq(kv, 1, kept) /\ start' = [start EXCEPT ![c] = p]
    /\ Goto(c, "prefill")
    /\ UNCHANGED <<mutex, poisoned, lastPrompt, kind, all>>

\* Keep what this prompt shares with the recorded one, at most what is there.
Reuse(c) ==
    /\ pc[c] = "reuse"
    /\ LET p == Lower(CommonPrefixLen(lastPrompt, all[c]), Len(all[c]) - 1)
           kept == IF CanTruncate THEN Lower(p, Len(kv)) ELSE 0
       IN  kv' = SubSeq(kv, 1, kept) /\ start' = [start EXCEPT ![c] = kept]
    /\ Goto(c, "prefill")
    /\ UNCHANGED <<mutex, poisoned, lastPrompt, kind, all>>

\* Mutant: a raw generation does not forget the recorded prompt.
Clear_NoForget(c) ==
    /\ pc[c] = "clear"
    /\ kv' = <<>>
    /\ Goto(c, "prefill")
    /\ UNCHANGED <<mutex, poisoned, lastPrompt, kind, all, start>>

\* generate_stream and generate_token_ids: reset, and forget the prompt.
Clear(c) ==
    /\ pc[c] = "clear"
    /\ kv' = <<>> /\ lastPrompt' = <<>>
    /\ Goto(c, "prefill")
    /\ UNCHANGED <<mutex, poisoned, kind, all, start>>

\* The engine runs over the chunk.
Forward(c) ==
    /\ pc[c] \in {"prefill", "decode"}
    /\ IF Slides THEN Len(Chunk(c)) <= Window ELSE Len(kv) + Len(Chunk(c)) <= Window
    /\ kv' = Slid(kv \o Chunk(c))
    /\ Goto(c, "sample")
    /\ UNCHANGED <<mutex, poisoned, lastPrompt, kind, all, start>>

\* The engine fails: the cache is full, or the device fails after part of the
\* chunk (the GPU prefills in pieces, and downloads the logits last).  A
\* stream records all the same, generate_from_tokens returns at once.
ForwardFails(c) ==
    /\ pc[c] \in {"prefill", "decode"}
    /\ \/ kind[c] \in FailingKinds
       \/ IF Slides THEN Len(Chunk(c)) > Window ELSE Len(kv) + Len(Chunk(c)) > Window
    /\ \E n \in 0 .. Len(Chunk(c)) :
           /\ Len(kv) + n <= Window
           /\ kv' = kv \o SubSeq(Chunk(c), 1, n)
    /\ Goto(c, IF kind[c] = "stream" THEN "record" ELSE "unlock")
    /\ UNCHANGED <<mutex, poisoned, lastPrompt, kind, all, start>>

SampleFails(c) ==
    /\ pc[c] = "sample" /\ kind[c] \in FailingKinds
    /\ Goto(c, IF kind[c] = "stream" THEN "record" ELSE "unlock")
    /\ UNCHANGED <<engine, lastPrompt, kind, all, start>>

\* Sample the next token; it, a stop sequence, a client that left or
\* max_new_tokens may end the reply.
Sample(c) ==
    /\ pc[c] = "sample"
    /\ Len(all[c]) < MaxPrompt + MaxNew
    /\ \E t \in Tokens : all' = [all EXCEPT ![c] = Append(@, t)]
    /\ \/ Goto(c, "decode") /\ Len(all[c]) + 1 < MaxPrompt + MaxNew
       \/ Goto(c, IF kind[c] = "raw" THEN "unlock" ELSE "record")
    /\ UNCHANGED <<engine, lastPrompt, kind, start>>

\* record_cached_prefix, still under the engine's mutex.
Record(c) ==
    /\ pc[c] = "record"
    /\ lastPrompt' = all[c]
    /\ Goto(c, "unlock")
    /\ UNCHANGED <<engine, kind, all, start>>

\* The call returns and releases the mutex.
Unlock(c) ==
    /\ pc[c] = "unlock"
    /\ mutex' = NoCaller
    /\ Return(c)
    /\ UNCHANGED <<kv, poisoned, lastPrompt>>

\* A panic unwinds through the generation and poisons the mutex.
Panic(c) ==
    /\ MayPanic /\ pc[c] \in {"prefill", "decode", "sample"}
    /\ mutex' = NoCaller /\ poisoned' = TRUE
    /\ Return(c)
    /\ UNCHANGED <<kv, lastPrompt>>

\* embed and reset_cache: the cache is emptied.  reset_cache then releases the
\* engine, and only after that forgets the prompt.
ResetEngine(c) ==
    /\ pc[c] = "reset"
    /\ kv' = <<>> /\ mutex' = NoCaller
    /\ IF kind[c] = "reset" THEN Goto(c, "forget") /\ UNCHANGED <<kind, all, start>>
       ELSE Return(c)
    /\ UNCHANGED <<poisoned, lastPrompt>>

Forget(c) ==
    /\ pc[c] = "forget"
    /\ lastPrompt' = <<>>
    /\ Return(c)
    /\ UNCHANGED engine

Next ==
    \E c \in Callers :
        \/ Begin(c) \/ Lock(c) \/ LockFails(c) \/ Reuse(c) \/ Clear(c) \/ Forward(c)
        \/ ForwardFails(c) \/ SampleFails(c) \/ Sample(c) \/ Record(c) \/ Unlock(c)
        \/ Panic(c) \/ ResetEngine(c) \/ Forget(c)

Spec == Init /\ [][Next]_vars

-----------------------------------------------------------------------------
(* Properties                                                              *)

\* "last_prompt is the token sequence currently represented in the engine's KV
\* cache": between calls they agree on every position that both have.
CacheIsRecorded ==
    mutex = NoCaller /\ ~poisoned => Shares(kv, lastPrompt, Lower(Len(kv), Len(lastPrompt)))

\* Reuse is invisible: whenever a token is sampled, the cache holds exactly the
\* tokens of this call, as it would had the whole prompt been prefilled.
ReuseIsInvisible == \A c \in Callers : pc[c] = "sample" => kv = Slid(all[c])

\* There is always a token left to compute: the engine is never run on nothing.
NeverEmptyChunk == \A c \in Callers : pc[c] \in {"prefill", "decode"} => Chunk(c) # <<>>

\* Both, for a context that fits the window.
ReuseIsSafe == ReuseIsInvisible /\ NeverEmptyChunk
=============================================================================
