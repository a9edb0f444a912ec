--------------------------- MODULE ForwardEngines ---------------------------
(***************************************************************************)
(* The forward engines of sapient-models and their KV caches: the CPU      *)
(* engines (llama.rs, phi.rs), Gemma 3 (gemma3.rs), the GPU engine         *)
(* (wgpu_engine.rs) and the Metal graph (mlx_engine.rs), behind the calls  *)
(* of ForwardEngine (mod.rs).                                              *)
(*                                                                         *)
(* The numbers are terms (see KvCache): a slot of a layer's cache holds    *)
(* the rotary position its key was turned to and the row it came from.     *)
(* Slots past a layer's length keep what they held.  What a layer does to  *)
(* a row after attention (norms, MLP or experts) is a function of the row. *)
(***************************************************************************)
EXTENDS Integers, Sequences, FiniteSetsExt

CONSTANTS
    LAYERS,      \* transformer layers
    WINDOW,      \* positions a sliding layer of Gemma 3 looks back on
    PATTERN,     \* every PATTERN-th layer of Gemma 3 is global
    KVCTX,       \* positions the KV cache has
    PREFILL,     \* PREFILL_CHUNK of the GPU engine
    CHUNK,       \* longest chunk a caller feeds
    FEEDS        \* tokens fed in a behaviour

\* At least one layer, one position seen, one global layer in a period, one slot and one token a pass.
ASSUME EngineAssumption ==
    /\ LAYERS \in Nat \ {0} /\ WINDOW \in Nat \ {0} /\ PATTERN \in Nat \ {0}
    /\ KVCTX \in Nat \ {0} /\ PREFILL \in Nat \ {0} /\ CHUNK \in Nat /\ FEEDS \in Nat

VARIABLES
    engine_,     \* the engine that was selected
    slots,       \* layer -> its cached keys and values
    seqLen,      \* layer -> how many of them are live
    fed,         \* tokens fed so far: the next one is new
    answer        \* the last call and its answer

feVars == <<engine_, slots, seqLen, fed, answer>>

Engines == {"llama", "phi", "gemma3", "wgpu", "mlx"}
Layer == 1 .. LAYERS
Empty == [pos |-> -1, row |-> 0]

\* The CPU and GPU engines allocate the window up front; the others grow.
Allocated(e) == e \in {"llama", "phi", "wgpu"}
NoSlots(e) == IF Allocated(e) THEN [i \in 1 .. KVCTX |-> Empty] ELSE <<>>

FeInit ==
    /\ engine_ \in Engines
    /\ slots = [l \in Layer |-> NoSlots(engine_)]
    /\ seqLen = [l \in Layer |-> 0]
    /\ fed = 0
    /\ answer = [op |-> "none"]

-----------------------------------------------------------------------------
(* Attention over rows of slots.                                           *)

\* causal_mask and sliding_causal_mask: what each query of seqQ sees of seqK keys.
CausalMask(seqQ, seqK) == [qi \in 0 .. seqQ - 1 |-> {ki \in 0 .. seqK - 1 : ~(ki > qi + (seqK - seqQ))}]
SlidingCausalMask(seqQ, seqK) ==
    [qi \in 0 .. seqQ - 1 |->
        {ki \in 0 .. seqK - 1 : ki <= (seqK - seqQ) + qi /\ ki + WINDOW > (seqK - seqQ) + qi}]

\* The visible keys in the order flash_attn_row visits them; masked ones contribute nothing.
Visited(keys, visible) ==
    LET nth[n \in 1 .. Cardinality(visible)] ==
            IF n = 1 THEN Min(visible) ELSE Min({k \in visible : k > nth[n - 1]})
    IN  [n \in 1 .. Cardinality(visible) |-> keys[nth[n] + 1]]

\* scaled_dot_product_attention and the residual, for rows x at the given positions.
AttendTo(x, positions, keys, mask) ==
    [i \in DOMAIN x |->
        LET seen == Visited(keys, mask[i - 1])
        IN  [res |-> x[i], saw |-> [k \in DOMAIN seen |-> <<positions[i] - seen[k].pos, seen[k].row>>]]]

Attend(x, positions, keys) == AttendTo(x, positions, keys, CausalMask(Len(x), Len(keys)))

Positions(start, n) == [i \in 1 .. n |-> start + i - 1]
Keys(x, positions) == [i \in DOMAIN x |-> [pos |-> positions[i], row |-> x[i]]]

-----------------------------------------------------------------------------
(* Updates of one layer's cache.                                           *)

\* Mutant: the length is clamped but nothing slides.
UpdateKvCache_NoSlide(cache, cur, new) ==
    LET n == Len(new)
        keep == Min({cur, KVCTX - n})
    IN  [cache |-> [i \in 1 .. KVCTX |-> IF i > keep /\ i <= keep + n THEN new[i - keep] ELSE cache[i]],
         total |-> Min({cur + n, KVCTX})]

\* update_kv_cache (and its Q8_0 twin): slide left to make room, append, view the live prefix.
UpdateKvCache(cache, cur, new) ==
    LET n == Len(new)
        shift == Max({0, cur + n - KVCTX})
        keep == cur - shift
    IN  [cache |-> [i \in 1 .. KVCTX |-> IF i <= keep THEN cache[i + shift]
                                         ELSE IF i <= keep + n THEN new[i - keep]
                                         ELSE cache[i]],
         total |-> Min({cur + n, KVCTX})]

\* kv_append of the GPU engine: written at a position, nothing moves.
KvAppendAt(cache, pos, new) ==
    [i \in 1 .. KVCTX |-> IF i > pos /\ i <= pos + Len(new) THEN new[i - pos] ELSE cache[i]]

-----------------------------------------------------------------------------
(* A pass over all layers: the rows at the end, and what the caches become. *)

\* forward_layer of LlamaForward: positions come from the first layer's length, and each
\* layer's own length says where its keys go.
LlamaLayer(x, cache, cur, positions, useCache) ==
    LET new == Keys(x, positions)
        upd == UpdateKvCache(cache, cur, new)
        keys == IF useCache THEN SubSeq(upd.cache, 1, upd.total) ELSE new
    IN  [x |-> Attend(x, positions, keys),
         cache |-> IF useCache THEN upd.cache ELSE cache,
         len |-> IF useCache THEN Min({cur + Len(x), KVCTX}) ELSE cur]

\* forward_layer of PhiForward: the same cache protocol; its parallel MLP (Phi-2) reads the row.
PhiLayer(x, cache, cur, positions, useCache) ==
    IF ~useCache THEN [x |-> Attend(x, positions, Keys(x, positions)), cache |-> cache, len |-> cur]
    ELSE LET upd == UpdateKvCache(cache, cur, Keys(x, positions))
         IN  [x |-> Attend(x, positions, SubSeq(upd.cache, 1, upd.total)),
              cache |-> upd.cache, len |-> Min({cur + Len(x), KVCTX})]

\* The layers in turn, from a start position; without the cache it is reset first.
ThroughLayers(c, useCache, start, LayerOf(_, _, _, _, _)) ==
    LET cur(l) == IF useCache THEN seqLen[l] ELSE 0
        at[l \in 0 .. LAYERS] ==
            IF l = 0 THEN [x |-> c]
            ELSE LayerOf(at[l - 1].x, slots[l], cur(l), Positions(start, Len(c)), useCache)
    IN  [rows |-> at[LAYERS].x,
         slots |-> [l \in Layer |-> at[l].cache],
         len |-> [l \in Layer |-> at[l].len]]

\* forward_hidden of both.
LlamaHidden(c, useCache) == ThroughLayers(c, useCache, IF useCache THEN seqLen[1] ELSE 0, LlamaLayer)
PhiHidden(c, useCache)   == ThroughLayers(c, useCache, IF useCache THEN seqLen[1] ELSE 0, PhiLayer)

\* forward_logits_embeds of Gemma3Forward: layer l (from 0) is global every PATTERN layers, and
\* a conversation that no longer fits starts over.
GemmaHidden(c, useCache) ==
    LET drop == ~useCache \/ seqLen[1] + Len(c) > KVCTX
        pos0 == IF drop THEN 0 ELSE seqLen[1]
        positions == Positions(pos0, Len(c))
        old(l) == IF drop THEN <<>> ELSE slots[l]
        kAll(l, x) == old(l) \o Keys(x, positions)
        layer(l, x) == IF l % PATTERN = 0 THEN Attend(x, positions, kAll(l, x))
                       ELSE AttendTo(x, positions, kAll(l, x), SlidingCausalMask(Len(x), Len(kAll(l, x))))
        at[l \in 0 .. LAYERS] == IF l = 0 THEN c ELSE layer(l, at[l - 1])
    IN  [rows |-> at[LAYERS],
         slots |-> [l \in Layer |-> IF useCache THEN kAll(l, at[l - 1]) ELSE old(l)],
         len |-> [l \in Layer |-> IF useCache THEN pos0 + Len(c) ELSE 0]]

\* forward_llama_layer of the Metal graph: caches grow by concatenation, without a limit.
MlxLayer(x, cache, offset, useCache) ==
    LET new == Keys(x, Positions(offset, Len(x)))
        ext == IF useCache THEN cache \o new ELSE new
        mask == IF Len(x) > 1 THEN CausalMask(Len(x), Len(ext)) ELSE [qi \in {0} |-> 0 .. Len(ext) - 1]
    IN  [x |-> AttendTo(x, Positions(offset, Len(x)), ext, mask),
         cache |-> IF useCache THEN ext ELSE cache]

\* forward_mlx, over the engine's caches or empty ones.
MlxPass(c, caches, offset, useCache) ==
    LET at[l \in 0 .. LAYERS] ==
            IF l = 0 THEN [x |-> c] ELSE MlxLayer(at[l - 1].x, caches[l], offset, useCache)
    IN  [rows |-> at[LAYERS].x, slots |-> [l \in Layer |-> at[l].cache]]

\* forward_mlx_all: every row, over temporary caches.
MlxAll(c) == MlxPass(c, [l \in Layer |-> <<>>], 0, FALSE)

\* forward_token of the GPU engine: one row, a state [slots, cur], all keys up to its own.
WgpuToken(s, tok) ==
    LET put(l, x) == KvAppendAt(s.slots[l], s.cur, <<[pos |-> s.cur, row |-> x]>>)
        at[l \in 0 .. LAYERS] ==
            IF l = 0 THEN tok
            ELSE Attend(<<at[l - 1]>>, <<s.cur>>, SubSeq(put(l, at[l - 1]), 1, s.cur + 1))[1]
    IN  [rows |-> <<at[LAYERS]>>,
         slots |-> [l \in Layer |-> put(l, at[l - 1])],
         cur |-> s.cur + 1]

\* forward_chunk: the rows of a chunk at once.
WgpuChunk(s, c) ==
    LET positions == Positions(s.cur, Len(c))
        put(l, x) == KvAppendAt(s.slots[l], s.cur, Keys(x, positions))
        at[l \in 0 .. LAYERS] ==
            IF l = 0 THEN c
            ELSE Attend(at[l - 1], positions, SubSeq(put(l, at[l - 1]), 1, s.cur + Len(c)))
    IN  [rows |-> at[LAYERS],
         slots |-> [l \in Layer |-> put(l, at[l - 1])],
         cur |-> s.cur + Len(c)]

\* Passes over a chunk, size tokens at a time, up to the first that does not fit; those before
\* it stay appended.
WgpuPasses(s0, c, size) ==
    LET piece(n) == SubSeq(c, (n - 1) * size + 1, Min({n * size, Len(c)}))
        pass(s, p) == IF Len(p) = 1 THEN WgpuToken(s, p[1]) ELSE WgpuChunk(s, p)
        at[n \in 0 .. (Len(c) + size - 1) \div size] ==
            IF n = 0 THEN [slots |-> s0.slots, cur |-> s0.cur, rows |-> <<>>, ok |-> TRUE]
            ELSE LET prev == at[n - 1]
                     next == pass(prev, piece(n))
                 IN  IF ~prev.ok \/ prev.cur + Len(piece(n)) > KVCTX THEN [prev EXCEPT !.ok = FALSE]
                     ELSE [slots |-> next.slots, cur |-> next.cur, rows |-> prev.rows \o next.rows, ok |-> TRUE]
    IN  at[(Len(c) + size - 1) \div size]

-----------------------------------------------------------------------------
(* The calls of ForwardEngine.                                             *)

\* New tokens: any chunk a caller may feed, up to the names of its tokens.
NextChunk(n) == [i \in 1 .. n |-> fed + i]

Replies(op, c, cached, rows) ==
    answer' = [op |-> op, chunk |-> c, cached |-> cached, rows |-> IF op = "last" THEN <<rows[Len(rows)]>> ELSE rows]
Refuses(c) == answer' = [op |-> "err", chunk |-> c]

\* forward_logits, forward_all_logits, forward_all_logits_cached and embed of LlamaForward, told
\* apart by what they answer and whether they use the cache; a chunk longer than the cache is
\* refused by the first layer, before anything was written.
LlamaCall(c, op, useCache) ==
    IF useCache /\ Len(c) > KVCTX
    THEN Refuses(c) /\ UNCHANGED <<slots, seqLen>>
    ELSE LET h == LlamaHidden(c, useCache)
         IN  slots' = h.slots /\ seqLen' = h.len /\ Replies(op, c, useCache, h.rows)

\* The calls of PhiForward.
PhiCall(c, op, useCache) ==
    IF useCache /\ Len(c) > KVCTX
    THEN Refuses(c) /\ UNCHANGED <<slots, seqLen>>
    ELSE LET h == PhiHidden(c, useCache)
         IN  slots' = h.slots /\ seqLen' = h.len /\ Replies(op, c, useCache, h.rows)

\* forward_logits of Gemma3Forward.
GemmaCall(c, useCache) ==
    LET h == GemmaHidden(c, useCache)
        forgets == useCache /\ seqLen[1] + Len(c) > KVCTX
    IN  slots' = h.slots /\ seqLen' = h.len /\ Replies("last", c, useCache /\ ~forgets, h.rows)

\* forward_logits of MlxForwardEngine.
MlxLogits(c, useCache) ==
    LET caches == IF useCache THEN slots ELSE [l \in Layer |-> <<>>]
        h == MlxPass(c, caches, IF useCache THEN seqLen[1] ELSE 0, useCache)
    IN  /\ slots' = h.slots
        /\ seqLen' = [l \in Layer |-> IF useCache THEN seqLen[l] + Len(c) ELSE 0]
        /\ Replies("last", c, useCache, h.rows)

\* forward_all_logits of MlxForwardEngine: the cache is reset, and stays empty.
MlxAllLogits(c) ==
    /\ slots' = [l \in Layer |-> <<>>]
    /\ seqLen' = [l \in Layer |-> 0]
    /\ Replies("all", c, FALSE, MlxAll(c).rows)

\* forward_logits of WgpuForwardEngine (size PREFILL), and forward_all_logits with and without
\* the cache (token by token).
WgpuCall(c, op, useCache, size) ==
    LET w == WgpuPasses([slots |-> slots, cur |-> IF useCache THEN seqLen[1] ELSE 0], c, size)
    IN  /\ slots' = w.slots
        /\ seqLen' = [l \in Layer |-> w.cur]
        /\ IF w.ok THEN Replies(op, c, useCache, w.rows) ELSE Refuses(c)

Unsupported(c) == Refuses(c) /\ UNCHANGED <<slots, seqLen>>

\* forward_logits: the answer for the last token of the chunk.
ForwardLogits(n, useCache) ==
    LET c == NextChunk(n)
    IN  /\ \/ engine_ = "llama" /\ LlamaCall(c, "last", useCache)
           \/ engine_ = "phi" /\ PhiCall(c, "last", useCache)
           \/ engine_ = "gemma3" /\ GemmaCall(c, useCache)
           \/ engine_ = "mlx" /\ MlxLogits(c, useCache)
           \/ engine_ = "wgpu" /\ WgpuCall(c, "last", useCache, PREFILL)
        /\ fed' = fed + n

\* forward_all_logits: the answers for every token of the chunk on its own.
ForwardAllLogits(n) ==
    LET c == NextChunk(n)
    IN  /\ \/ engine_ = "llama" /\ LlamaCall(c, "all", FALSE)
           \/ engine_ = "phi" /\ PhiCall(c, "all", FALSE)
           \/ engine_ = "gemma3" /\ Unsupported(c)
           \/ engine_ = "mlx" /\ MlxAllLogits(c)
           \/ engine_ = "wgpu" /\ WgpuCall(c, "all", FALSE, 1)
        /\ fed' = fed + n

\* forward_all_logits_cached: the answers for every token, appended; MLX has no such call and
\* resets instead.
ForwardAllLogitsCached(n) ==
    LET c == NextChunk(n)
    IN  /\ \/ engine_ = "llama" /\ LlamaCall(c, "all", TRUE)
           \/ engine_ = "phi" /\ PhiCall(c, "all", TRUE)
           \/ engine_ = "gemma3" /\ Unsupported(c)
           \/ engine_ = "mlx" /\ MlxAllLogits(c)
           \/ engine_ = "wgpu" /\ WgpuCall(c, "all", TRUE, 1)
        /\ fed' = fed + n

\* embed: every row, to be pooled; only the CPU engines have it.
Embeds(n) ==
    LET c == NextChunk(n)
    IN  /\ \/ engine_ = "llama" /\ LlamaCall(c, "mean", FALSE)
           \/ engine_ = "phi" /\ PhiCall(c, "mean", FALSE)
           \/ engine_ \in {"gemma3", "mlx", "wgpu"} /\ Unsupported(c)
        /\ fed' = fed + n

\* truncate_cache, and reset_cache when n is 0: Gemma 3 and MLX drop everything, the others
\* only move the lengths back.
TruncateCache(n) ==
    LET drops == engine_ \in {"gemma3", "mlx"}
        kept == IF drops THEN 0 ELSE Min({n, seqLen[1]})
    IN  /\ seqLen' = [l \in Layer |-> kept]
        /\ slots' = IF drops THEN [l \in Layer |-> <<>>] ELSE slots
        /\ answer' = [op |-> "kept", chunk |-> n, rows |-> kept]
        /\ UNCHANGED fed

FeNext ==
    /\ \/ \E n \in 1 .. Min({CHUNK, FEEDS - fed}) :
            \/ \E useCache \in BOOLEAN : ForwardLogits(n, useCache)
            \/ ForwardAllLogits(n)
            \/ ForwardAllLogitsCached(n)
            \/ Embeds(n)
       \/ \E n \in 0 .. KVCTX : TruncateCache(n)
    /\ UNCHANGED engine_

FeSpec == FeInit /\ [][FeNext]_feVars

-----------------------------------------------------------------------------
(* The promise kept.                                                       *)

\* The token a key of the first layer came from, in order, for the live slots.
HeldTokens == [i \in 1 .. seqLen[1] |-> slots[1][i].row]

Kv == INSTANCE KvCache WITH
          sliding <- IF engine_ = "gemma3" THEN {l \in Layer : l % PATTERN # 0} ELSE {},
          most <- IF engine_ = "mlx" THEN FEEDS ELSE KVCTX,
          held <- HeldTokens,
          exact <- \A i \in 1 .. seqLen[1] : slots[1][i].pos = i - 1

\* Whatever sequence of calls a caller makes (prefill in chunks, a draft verified and rolled back,
\* a window that fills up, a GPU cache that refuses), the engine answers as one pass over the held
\* tokens and the chunk would: every layer kept the same positions, stale slots are never seen,
\* no query sees a later key, and every key stands at its true distance.
EngineKeepsPromise == Kv!KvSpec
=============================================================================
