------------------------------ MODULE LayerGraphs ------------------------------
(***************************************************************************)
(* What a decoder layer computes, as an expression: in each of the engines *)
(* (sapient-models, forward/) and in the graphs of architectures/.  Values *)
(* are named by the operation, the weight and the operands they come from; *)
(* the order in which a sum or a product has its operands is not told      *)
(* apart, and neither is the device an operation runs on.                  *)
(*                                                                         *)
(* m, a model: biased (projections with a bias), partial (only part of a   *)
(* head is rotated), square (heads times head dimension is the hidden      *)
(* size), grouped (fewer key than query heads), moe, firstDense, pattern   *)
(* (every how many layers attention is global, 0: always), layers.         *)
(***************************************************************************)
EXTENDS Integers

V(op, weight, in) == [op |-> op, weight |-> weight, in |-> in]
Plain == <<-1, "">>
W(l, name) == <<l, name>>

Input(name) == V("input", W(-1, name), <<>>)
Add(a, b) == V("add", Plain, <<a, b>>)
Mul(a, b) == V("mul", Plain, <<a, b>>)
Silu(a) == V("silu", Plain, <<a>>)
Gelu(a) == V("gelu", Plain, <<a>>)
RmsNorm(x, w) == V("rms", w, <<x>>)
LayerNorm(x, w) == V("layer_norm", w, <<x>>)
Error == V("error", Plain, <<>>)

-----------------------------------------------------------------------------
(* Rows of several positions lie by position or by head; of one, both are  *)
(* the same.                                                               *)

ByHead(x, seq) == IF seq = 1 THEN x ELSE V("by_head", Plain, <<x>>)
Scrambled(x) == V("scrambled", Plain, <<x>>)

split_heads(x, seq) == ByHead(x, seq)

merge_heads(x, seq) == IF seq = 1 THEN x ELSE IF x.op = "by_head" THEN x.in[1] ELSE Scrambled(x)

\* transpose_heads: from either layout to the other.
transpose_heads(x, seq) == IF seq = 1 THEN x ELSE IF x.op = "by_head" THEN x.in[1] ELSE ByHead(x, seq)

\* A projection takes the rows as they lie.
linear_3d(x, w) == IF x.op = "by_head" THEN Scrambled(x) ELSE V("linear", w, <<x>>)
linear_3d_bias(m, x, w) == IF w[2] \in m.biased THEN V("bias", w, <<linear_3d(x, w)>>) ELSE linear_3d(x, w)

\* Rotation goes by the position of a row within its head.
apply_rope(x, seq, how) == ByHead(V("rope", W(-1, how), <<merge_heads(x, seq)>>), seq)

\* The keys and values of a layer, after those of earlier passes.
Cached(x, seq, use_cache) == IF use_cache THEN ByHead(V("cached", Plain, <<merge_heads(x, seq)>>), seq) ELSE x

\* One query sees all keys, whether or not the future is masked.
Sees(mask, seq) == IF mask = "causal" /\ seq = 1 THEN "all" ELSE mask
gqa_attention(q, k, v, seq, mask) ==
    ByHead(V("attention", W(-1, Sees(mask, seq)), <<merge_heads(q, seq), merge_heads(k, seq), merge_heads(v, seq)>>), seq)

-----------------------------------------------------------------------------
(* The layers of the engines.                                              *)

is_moe_layer(m, l) == m.moe /\ l >= m.firstDense

\* forward_layer of LlamaForward.
LlamaLayer(m, l, x, seq, use_cache) ==
    LET h == RmsNorm(x, W(l, "input_layernorm"))
        heads(w) == split_heads(linear_3d_bias(m, h, W(l, w)), seq)
        rope(t) == apply_rope(t, seq, IF m.partial THEN "partial" ELSE "full")
        attn == gqa_attention(rope(heads("q_proj")), Cached(rope(heads("k_proj")), seq, use_cache),
                              Cached(heads("v_proj"), seq, use_cache), seq, "causal")
        x1 == Add(x, linear_3d_bias(m, merge_heads(attn, seq), W(l, "o_proj")))
        h1 == RmsNorm(x1, W(l, "post_attention_layernorm"))
        dense == linear_3d(Mul(Silu(linear_3d(h1, W(l, "gate_proj"))), linear_3d(h1, W(l, "up_proj"))), W(l, "down_proj"))
    IN  Add(x1, IF is_moe_layer(m, l) THEN V("moe", W(l, "gate"), <<h1>>) ELSE dense)

apply_norm(x, w, rms) == IF rms THEN RmsNorm(x, w) ELSE LayerNorm(x, w)

mlp_phi2(m, h, l) == linear_3d_bias(m, Gelu(linear_3d_bias(m, h, W(l, "fc1"))), W(l, "fc2"))

\* The two halves of a fused projection (the columns: GateOf and UpOf of TensorLayout).
Half(i, x) == V("half", W(i, ""), <<x>>)

mlp_phi3(h, l) ==
    LET gate_up == linear_3d(h, W(l, "gate_up_proj"))
    IN  linear_3d(Mul(Silu(Half(0, gate_up)), Half(1, gate_up)), W(l, "down_proj"))

\* forward_layer of PhiForward: parallel for Phi-1 and 2, sequential for Phi-3.
PhiLayer(m, l, x, seq, use_cache) ==
    LET h == apply_norm(x, W(l, "input_layernorm"), ~m.phi2)
        heads(w) == split_heads(linear_3d_bias(m, h, W(l, w)), seq)
        rope(t) == apply_rope(t, seq, "partial")
        attn == gqa_attention(rope(heads("q_proj")), Cached(rope(heads("k_proj")), seq, use_cache),
                              Cached(heads("v_proj"), seq, use_cache), seq, "causal")
        o == linear_3d_bias(m, merge_heads(attn, seq), W(l, "o_proj"))
        x1 == Add(x, o)
        h1 == apply_norm(x1, W(l, "post_attention_layernorm"), ~m.phi2)
    IN  IF m.phi2 THEN Add(x, Add(o, mlp_phi2(m, h, l))) ELSE Add(x1, mlp_phi3(h1, l))

\* The body of the layer loop of Gemma3Forward: norms on both sides of either branch.
Gemma3Layer(m, l, x, seq, use_cache) ==
    LET is_global == (l + 1) % m.pattern = 0
        h == RmsNorm(x, W(l, "input_layernorm"))
        heads(w) == split_heads(linear_3d(h, W(l, w)), seq)
        rope(t) == apply_rope(t, seq, IF is_global THEN "global" ELSE "local")
        qk(t, w) == rope(ByHead(RmsNorm(merge_heads(t, seq), W(l, w)), seq))
        attn == gqa_attention(qk(heads("q_proj"), "q_norm"), Cached(qk(heads("k_proj"), "k_norm"), seq, use_cache),
                              Cached(heads("v_proj"), seq, use_cache), seq, IF is_global THEN "causal" ELSE "sliding")
        x1 == Add(x, RmsNorm(linear_3d(merge_heads(attn, seq), W(l, "o_proj")), W(l, "post_attention_layernorm")))
        h2 == RmsNorm(x1, W(l, "pre_feedforward_layernorm"))
        act == Mul(Gelu(linear_3d(h2, W(l, "gate_proj"))), linear_3d(h2, W(l, "up_proj")))
    IN  Add(x1, RmsNorm(linear_3d(act, W(l, "down_proj")), W(l, "post_feedforward_layernorm")))

\* mlx_linear of the Metal graph; reshape to the hidden size fails if the heads are wider.
MlxMerge(m, x, seq) == IF m.square THEN merge_heads(x, seq) ELSE Error

\* forward_llama_layer: a bias for q, k and v only, whole heads rotated, a mask for several rows.
MlxLayer(m, l, x, seq, use_cache) ==
    LET h == RmsNorm(x, W(l, "input_layernorm"))
        heads(w) == transpose_heads(linear_3d_bias(m, h, W(l, w)), seq)
        rope(t) == apply_rope(t, seq, "full")
        attn == gqa_attention(rope(heads("q_proj")), Cached(rope(heads("k_proj")), seq, use_cache),
                              Cached(heads("v_proj"), seq, use_cache), seq, IF seq > 1 THEN "causal" ELSE "all")
        x1 == Add(x, linear_3d(MlxMerge(m, attn, seq), W(l, "o_proj")))
        h2 == RmsNorm(x1, W(l, "post_attention_layernorm"))
    IN  Add(x1, linear_3d(Mul(Silu(linear_3d(h2, W(l, "gate_proj"))), linear_3d(h2, W(l, "up_proj"))), W(l, "down_proj")))

\* Mutant: the gate that has been folded into the kernel is not the one that is activated.
mm_post_ActivatesUp(x, w, post, aux) == IF post = "Add" THEN Add(aux, linear_3d(x, w)) ELSE Mul(aux, Silu(linear_3d(x, w)))

\* What the write of a matmul kernel adds (MatmulPost): a residual, or the gate of SwiGLU.
mm_post(x, w, post, aux) == IF post = "Add" THEN Add(aux, linear_3d(x, w)) ELSE Mul(Silu(aux), linear_3d(x, w))

mm_bias(m, x, w, fuse) == linear_3d_bias(m, x, w)

WgpuRope(m) == IF m.partial THEN "partial" ELSE "full"

\* The layer of forward_token: one row, with residuals and the gate in the kernels (fuse) or not.
WgpuTokenLayer(m, l, x, fuse) ==
    LET h == RmsNorm(x, W(l, "input_layernorm"))
        proj(w) == mm_bias(m, h, W(l, w), fuse)
        rope(t) == apply_rope(t, 1, WgpuRope(m))
        attn == gqa_attention(rope(proj("q_proj")), Cached(rope(proj("k_proj")), 1, TRUE), Cached(proj("v_proj"), 1, TRUE), 1, "causal")
        x1 == IF fuse /\ "o_proj" \notin m.biased THEN mm_post(attn, W(l, "o_proj"), "Add", x)
              ELSE Add(x, mm_bias(m, attn, W(l, "o_proj"), fuse))
        h2 == RmsNorm(x1, W(l, "post_attention_layernorm"))
        gate == linear_3d(h2, W(l, "gate_proj"))
    IN  IF fuse THEN mm_post(mm_post(h2, W(l, "up_proj"), "SiluMul", gate), W(l, "down_proj"), "Add", x1)
        ELSE Add(x1, linear_3d(Mul(Silu(gate), linear_3d(h2, W(l, "up_proj"))), W(l, "down_proj")))

\* The layer of forward_chunk: transposed around the rotation, the cache and the attention.
WgpuChunkLayer(m, l, x, seq) ==
    LET h == RmsNorm(x, W(l, "input_layernorm"))
        turned(w) == transpose_heads(linear_3d_bias(m, h, W(l, w)), seq)
        rope(t) == apply_rope(t, seq, WgpuRope(m))
        attn == gqa_attention(rope(turned("q_proj")), Cached(rope(turned("k_proj")), seq, TRUE), Cached(turned("v_proj"), seq, TRUE),
                              seq, "causal")
        x1 == Add(x, linear_3d_bias(m, transpose_heads(attn, seq), W(l, "o_proj")))
        h2 == RmsNorm(x1, W(l, "post_attention_layernorm"))
    IN  Add(x1, linear_3d(Mul(Silu(linear_3d(h2, W(l, "gate_proj"))), linear_3d(h2, W(l, "up_proj"))), W(l, "down_proj")))

-----------------------------------------------------------------------------
(* From the embeddings to the logits of the last row.                      *)

Through(m, x0, Layer(_, _)) ==
    LET after[n \in 0 .. m.layers] == IF n = 0 THEN x0 ELSE Layer(n - 1, after[n - 1])
    IN  after[m.layers]

Embedded == Input("embed_tokens")
Last(x, seq) == IF seq = 1 THEN x ELSE V("last", Plain, <<x>>)

\* A norm is per row: that of the last row is the last row of the norms.
LastRow(x, seq) == [x EXCEPT !.in[1] = Last(@, seq)]

LogitsOf(x) == linear_3d(x, W(-1, "lm_head"))

LlamaLogits(m, seq, use_cache) ==
    LogitsOf(LastRow(RmsNorm(Through(m, Embedded, LAMBDA l, x : LlamaLayer(m, l, x, seq, use_cache)), W(-1, "norm")), seq))

PhiLogits(m, seq, use_cache) ==
    linear_3d_bias(m, LastRow(apply_norm(Through(m, Embedded, LAMBDA l, x : PhiLayer(m, l, x, seq, use_cache)), W(-1, "norm"), ~m.phi2), seq),
                   W(-1, "lm_head"))

\* token_embeddings_scaled, and the tied head.
Gemma3Logits(m, seq, use_cache) ==
    LogitsOf(LastRow(RmsNorm(Through(m, V("scale", Plain, <<Embedded>>), LAMBDA l, x : Gemma3Layer(m, l, x, seq, use_cache)), W(-1, "norm")), seq))

MlxLogits(m, seq, use_cache) ==
    LogitsOf(LastRow(RmsNorm(Through(m, Embedded, LAMBDA l, x : MlxLayer(m, l, x, seq, use_cache)), W(-1, "norm")), seq))

WgpuTokenLogits(m, fuse) ==
    LogitsOf(RmsNorm(Through(m, Embedded, LAMBDA l, x : WgpuTokenLayer(m, l, x, fuse)), W(-1, "norm")))

\* forward_chunk takes the last row before it normalises.
WgpuChunkLogits(m, seq) ==
    LogitsOf(RmsNorm(Last(Through(m, Embedded, LAMBDA l, x : WgpuChunkLayer(m, l, x, seq)), seq), W(-1, "norm")))

-----------------------------------------------------------------------------
(* The graphs of architectures/.  An operator names its weight, which is   *)
(* no input of it.                                                         *)

AddOp(op, in, weight) == V(op, weight, in)
MatMul(x, w) == AddOp("linear", <<x>>, w)
RotaryEmbedding(x) == AddOp("rope", <<x>>, W(-1, "full"))
GroupedQueryAttention(q, k, v) == AddOp("attention", <<q, k, v>>, W(-1, "causal"))

\* As many key heads as query heads.
MultiHeadAttention(m, q, k, v, mask) == IF m.grouped THEN Error ELSE AddOp("attention", <<q, k, v>>, W(-1, mask))

LmHead(x) == MatMul(x, W(-1, "lm_head"))

\* build_decoder_layer of llama.rs.
LlamaDecoderLayer(x, l) ==
    LET norm == RmsNorm(x, W(l, "input_layernorm"))
        attn == GroupedQueryAttention(RotaryEmbedding(MatMul(norm, W(l, "q_proj"))), RotaryEmbedding(MatMul(norm, W(l, "k_proj"))),
                                      MatMul(norm, W(l, "v_proj")))
        x1 == Add(x, MatMul(attn, W(l, "o_proj")))
        ffn_norm == RmsNorm(x1, W(l, "post_attention_layernorm"))
    IN  Add(x1, MatMul(Mul(Silu(MatMul(ffn_norm, W(l, "gate_proj"))), MatMul(ffn_norm, W(l, "up_proj"))), W(l, "down_proj")))

LlamaGraph(m) == LmHead(RmsNorm(Through(m, Embedded, LAMBDA l, x : LlamaDecoderLayer(x, l)), W(-1, "norm")))

\* build of qwen.rs: what is added for the biases of q and k is the row itself.
QwenBlock(x, l) ==
    LET norm == RmsNorm(x, W(l, "input_layernorm"))
        biased(w) == Add(MatMul(norm, W(l, w)), norm)
        attn == GroupedQueryAttention(RotaryEmbedding(biased("q_proj")), RotaryEmbedding(biased("k_proj")), MatMul(norm, W(l, "v_proj")))
        x1 == Add(x, MatMul(attn, W(l, "o_proj")))
        ff_norm == RmsNorm(x1, W(l, "post_attention_layernorm"))
    IN  Add(x1, MatMul(Mul(Silu(MatMul(ff_norm, W(l, "gate_proj"))), MatMul(ff_norm, W(l, "up_proj"))), W(l, "down_proj")))

QwenGraph(m) == LmHead(RmsNorm(Through(m, Embedded, LAMBDA l, x : QwenBlock(x, l)), W(-1, "norm")))

\* build of gemma.rs (Gemma 1).
GemmaGraph(m) ==
    LET block(l, x) ==
            LET norm == RmsNorm(x, W(l, "input_layernorm"))
                attn == GroupedQueryAttention(RotaryEmbedding(MatMul(norm, W(l, "q_proj"))), RotaryEmbedding(MatMul(norm, W(l, "k_proj"))),
                                              MatMul(norm, W(l, "v_proj")))
                x1 == Add(x, MatMul(attn, W(l, "o_proj")))
                ff_norm == RmsNorm(x1, W(l, "post_feedforward_layernorm"))
            IN  Add(x1, MatMul(Mul(Gelu(MatMul(ff_norm, W(l, "gate_proj"))), MatMul(ff_norm, W(l, "up_proj"))), W(l, "down_proj")))
    IN  LmHead(RmsNorm(Through(m, V("scale", Plain, <<Embedded>>), block), W(-1, "norm")))

\* build of mixtral.rs: every expert runs, and what they say is added up; no one reads the gate.
Experts == << <<"gate_proj", "up_proj", "down_proj">>, <<"gate_proj 1", "up_proj 1", "down_proj 1">> >>   \* w1, w3, w2
MixtralGraph(m, experts) ==
    LET block(l, x) ==
            LET norm == RmsNorm(x, W(l, "input_layernorm"))
                attn == GroupedQueryAttention(RotaryEmbedding(MatMul(norm, W(l, "q_proj"))), RotaryEmbedding(MatMul(norm, W(l, "k_proj"))),
                                              MatMul(norm, W(l, "v_proj")))
                x1 == Add(x, MatMul(attn, W(l, "o_proj")))
                ff_norm == RmsNorm(x1, W(l, "post_attention_layernorm"))
                expert(e) == LET w == Experts[e]
                             IN  MatMul(Mul(Silu(MatMul(ff_norm, W(l, w[1]))), MatMul(ff_norm, W(l, w[2]))), W(l, w[3]))
            IN  Add(x1, IF experts = 1 THEN expert(1) ELSE Add(expert(1), expert(2)))
    IN  LmHead(RmsNorm(Through(m, Embedded, block), W(-1, "norm")))

\* build of phi.rs: a LayerNorm for all; Phi-3's fused projection is not split.
PhiGraph(m, model_type) ==
    LET block(l, x) ==
            LET norm == LayerNorm(x, W(l, "input_layernorm"))
                attn == MultiHeadAttention(m, RotaryEmbedding(MatMul(norm, W(l, "q_proj"))), RotaryEmbedding(MatMul(norm, W(l, "k_proj"))),
                                           MatMul(norm, W(l, "v_proj")), "causal")
                o == MatMul(attn, W(l, "o_proj"))
                x_attn == Add(x, o)
                norm2 == LayerNorm(x_attn, W(l, "post_attention_layernorm"))
            IN  IF model_type = "phi" THEN Add(x, Add(o, MatMul(Gelu(MatMul(norm, W(l, "fc1"))), W(l, "fc2"))))
                ELSE Add(x_attn, MatMul(Silu(MatMul(norm2, W(l, "gate_up_proj"))), W(l, "down_proj")))
    IN  LmHead(LayerNorm(Through(m, Embedded, block), W(-1, "norm")))

\* build of gpt2.rs: positions are embedded, not rotated.
Gpt2Graph(m) ==
    LET block(l, x) ==
            LET norm1 == LayerNorm(x, W(l, "input_layernorm"))
                attn == MultiHeadAttention(m, MatMul(norm1, W(l, "q_proj")), MatMul(norm1, W(l, "k_proj")), MatMul(norm1, W(l, "v_proj")), "causal")
                x1 == Add(x, MatMul(attn, W(l, "o_proj")))
                norm2 == LayerNorm(x1, W(l, "post_attention_layernorm"))
            IN  Add(x1, MatMul(Gelu(MatMul(norm2, W(l, "fc1"))), W(l, "fc2")))
    IN  LmHead(LayerNorm(Through(m, Add(Embedded, Input("positions")), block), W(-1, "norm")))

\* build of bert.rs: both outputs.
BertGraph(m) ==
    LET block(l, x) ==
            LET norm1 == LayerNorm(x, W(l, "input_layernorm"))
                attn == MultiHeadAttention(m, MatMul(norm1, W(l, "q_proj")), MatMul(norm1, W(l, "k_proj")), MatMul(norm1, W(l, "v_proj")), "all")
                x1 == Add(x, MatMul(attn, W(l, "o_proj")))
            IN  LayerNorm(Add(x1, MatMul(Gelu(MatMul(x1, W(l, "fc1"))), W(l, "fc2"))), W(l, "post_attention_layernorm"))
        embedded == LayerNorm(Add(Add(Embedded, Input("positions")), Input("token_types")), W(-1, "embed_norm"))
        hidden == Through(m, embedded, block)
    IN  <<hidden, V("tanh", Plain, <<MatMul(hidden, W(-1, "pooler"))>>)>>

-----------------------------------------------------------------------------
(* The decoders these are.  k, a kind: which norm and activation; gated,   *)
(* the projections of the MLP ("two", "fused" or one: "no"); parallel, the *)
(* MLP reads what attention reads; sandwich, norms behind the branches and *)
(* of q and k; rope; mask; before, the norm before the MLP, and after, the *)
(* one behind the block ("" without); start, what the embeddings are.      *)

Block(m, k, l, x, seq, use_cache) ==
    LET normed(t, w) == IF w = "" THEN t ELSE V(k.norm, W(l, w), <<t>>)
        behind(t, w) == IF k.sandwich THEN normed(t, w) ELSE t
        product(t, w) == IF w \in m.biased THEN V("bias", W(l, w), <<V("linear", W(l, w), <<t>>)>>) ELSE V("linear", W(l, w), <<t>>)
        act(t) == V(k.act, Plain, <<t>>)
        everywhere == m.pattern = 0 \/ (l + 1) % m.pattern = 0
        rope == IF m.pattern = 0 THEN k.rope ELSE IF everywhere THEN "global" ELSE "local"
        turned(t) == IF rope = "no" THEN t ELSE V("rope", W(-1, rope), <<t>>)
        seen(t) == IF use_cache THEN V("cached", Plain, <<t>>) ELSE t
        h == normed(x, k.first)
        attn == V("attention", W(-1, IF ~everywhere THEN "sliding" ELSE IF seq = 1 THEN "all" ELSE k.mask),
                  <<turned(behind(product(h, "q_proj"), "q_norm")), seen(turned(behind(product(h, "k_proj"), "k_norm"))),
                    seen(product(h, "v_proj"))>>)
        o == behind(product(attn, "o_proj"), "post_attention_layernorm")
        x1 == Add(x, o)
        gate_up(t) == product(t, "gate_up_proj")
        mlp(t) == CASE m.moe /\ l >= m.firstDense -> V("moe", W(l, "gate"), <<t>>)
                    [] k.gated = "two"   -> product(Mul(act(product(t, "gate_proj")), product(t, "up_proj")), "down_proj")
                    [] k.gated = "fused" -> product(Mul(act(Half(0, gate_up(t))), Half(1, gate_up(t))), "down_proj")
                    [] k.gated = "no"    -> product(act(product(t, "fc1")), "fc2")
    IN  IF k.parallel THEN Add(x, Add(o, mlp(h)))
        ELSE normed(Add(x1, behind(mlp(normed(x1, k.before)), "post_feedforward_layernorm")), k.after)

Hidden(m, k, seq, use_cache) ==
    LET start == CASE k.start = "scaled"    -> V("scale", Plain, <<Embedded>>)
                   [] k.start = "positions" -> Add(Embedded, Input("positions"))
                   [] k.start = "types"     -> LayerNorm(Add(Add(Embedded, Input("positions")), Input("token_types")), W(-1, "embed_norm"))
                   [] k.start = "tokens"    -> Embedded
    IN  Through(m, start, LAMBDA l, x : Block(m, k, l, x, seq, use_cache))

\* The logits of some of the rows: of the last, or of all.
Logits(m, k, rows) ==
    LET logits == V("linear", W(-1, "lm_head"), <<V(k.norm, W(-1, "norm"), <<rows>>)>>)
    IN  IF "lm_head" \in m.biased THEN V("bias", W(-1, "lm_head"), <<logits>>) ELSE logits
Decoder(m, k, seq, use_cache) == Logits(m, k, Last(Hidden(m, k, seq, use_cache), seq))
Drawn(m, k) == Logits(m, k, Hidden(m, k, 2, FALSE))

LlamaKind == [norm |-> "rms", act |-> "silu", gated |-> "two", parallel |-> FALSE, sandwich |-> FALSE, rope |-> "full",
              mask |-> "causal", first |-> "input_layernorm", before |-> "post_attention_layernorm", after |-> "", start |-> "tokens"]
Phi2Kind == [LlamaKind EXCEPT !.norm = "layer_norm", !.act = "gelu", !.gated = "no", !.parallel = TRUE, !.rope = "partial"]
Phi3Kind == [LlamaKind EXCEPT !.gated = "fused", !.rope = "partial"]
GemmaKind == [LlamaKind EXCEPT !.act = "gelu", !.before = "post_feedforward_layernorm", !.start = "scaled"]
Gemma3Kind == [GemmaKind EXCEPT !.sandwich = TRUE, !.before = "pre_feedforward_layernorm"]
Gpt2Kind == [LlamaKind EXCEPT !.norm = "layer_norm", !.act = "gelu", !.gated = "no", !.rope = "no", !.start = "positions"]
BertKind == [Gpt2Kind EXCEPT !.mask = "all", !.before = "", !.after = "post_attention_layernorm", !.start = "types"]

Model == [biased |-> {}, partial |-> FALSE, square |-> TRUE, grouped |-> FALSE, moe |-> FALSE, firstDense |-> 0, pattern |-> 0,
          layers |-> 2, phi2 |-> FALSE]
QKV == {"q_proj", "k_proj", "v_proj"}
Llamas == {[Model EXCEPT !.biased = b, !.partial = p, !.square = s, !.moe = e, !.firstDense = IF e THEN 1 ELSE 0] :
              b \in {{}, QKV, QKV \cup {"o_proj"}}, p, s, e \in BOOLEAN}
KindOf(m) == [LlamaKind EXCEPT !.rope = IF m.partial THEN "partial" ELSE "full"]

\* Every engine computes the decoder of its family, whether tokens come one at a time or in
\* chunks, with a cache or without one, and whatever is folded into a kernel.  (The Metal graph
\* leaves out a bias of o_proj, rotates whole heads and needs square attention.)
EnginesComputeTheDecoder ==
    /\ \A m \in Llamas, seq \in 1 .. 2, use_cache \in BOOLEAN :
          /\ LlamaLogits(m, seq, use_cache) = Decoder(m, KindOf(m), seq, use_cache)
          /\ m.square /\ ~m.partial /\ ~m.moe /\ "o_proj" \notin m.biased => MlxLogits(m, seq, use_cache) = Decoder(m, LlamaKind, seq, use_cache)
          /\ ~m.moe => WgpuChunkLogits(m, seq) = Decoder(m, KindOf(m), seq, TRUE)
          /\ ~m.moe => \A fuse \in BOOLEAN : WgpuTokenLogits(m, fuse) = Decoder(m, KindOf(m), 1, TRUE)
    /\ \A seq \in 1 .. 2, use_cache \in BOOLEAN :
          LET phi2 == [Model EXCEPT !.phi2 = TRUE, !.biased = QKV \cup {"o_proj", "fc1", "fc2", "lm_head"}]
              gemma3 == [Model EXCEPT !.pattern = 2]
          IN  /\ PhiLogits(phi2, seq, use_cache) = Decoder(phi2, Phi2Kind, seq, use_cache)
              /\ PhiLogits(Model, seq, use_cache) = Decoder(Model, Phi3Kind, seq, use_cache)
              /\ Gemma3Logits(gemma3, seq, use_cache) = Decoder(gemma3, Gemma3Kind, seq, use_cache)

\* The graphs draw the same networks, without biases and with whole heads rotated.  (Qwen's is
\* Llama's but for what it adds; Mixtral's is right for one expert only; Phi's needs model_type
\* "phi"; Bert's also normalises what attention reads, but not what it adds to.)
GraphsDrawTheDecoder ==
    /\ LlamaGraph(Model) = Drawn(Model, LlamaKind) /\ MixtralGraph(Model, 1) = Drawn(Model, LlamaKind)
    /\ MixtralGraph(Model, 2) # Drawn(Model, LlamaKind) /\ QwenGraph(Model) # Drawn(Model, LlamaKind)
    /\ GemmaGraph(Model) = Drawn(Model, GemmaKind)
    /\ PhiGraph(Model, "phi") = Drawn(Model, [Phi2Kind EXCEPT !.rope = "full"])
    /\ Gpt2Graph(Model) = Drawn(Model, Gpt2Kind)
    /\ BertGraph(Model)[1] = Hidden(Model, BertKind, 2, FALSE)
=============================================================================
