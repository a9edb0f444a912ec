---------------------------- MODULE WeightNames ----------------------------
(***************************************************************************)
(* From a checkpoint on disk to the tensors an engine multiplies with      *)
(* (sapient-models: gguf_weights.rs, weights.rs and the constructors in    *)
(* forward/).  A checkpoint is written for the program of its authors; a   *)
(* GGUF file is what llama.cpp's converter made of it: renamed, with rows  *)
(* of queries and keys permuted, projections fused, experts stacked.       *)
(*                                                                         *)
(* A key is <<prefix, layer, part, expert, kind>>: model.layers.3.mlp.     *)
(* up_proj.weight is <<"model.", 3, "mlp.up_proj", None, "weight">>, and   *)
(* keys outside the layers have layer None.  A tensor is its rows, each    *)
(* the name of the checkpoint row it holds.                                *)
(***************************************************************************)
EXTENDS TensorLayout, FiniteSets, TLC

None == -1

Key(prefix, layer, part, kind) == <<prefix, layer, part, None, kind>>
KeyLayer(k) == k[2]
Part(k) == k[3]
Kind(k) == k[5]

\* Where detect_weight_prefix looks, in this order.
PrefixCandidates == <<"model.text_model.", "model.language_model.", "transformer.", "model.", "gpt_neox.">>

HEADS == 2
KVHEADS == 1
HEADDIM == 4

HeadRows(part) == IF part = "self_attn.q_proj" THEN HEADS * HEADDIM
                  ELSE IF part \in {"self_attn.k_proj", "self_attn.v_proj"} THEN KVHEADS * HEADDIM ELSE 2

NormParts == {"norm", "final_layernorm", "input_layernorm", "post_attention_layernorm", "pre_feedforward_layernorm",
              "post_feedforward_layernorm", "self_attn.q_norm", "self_attn.k_norm"}
Router == "block_sparse_moe.gate"
Correction == "block_sparse_moe.gate.e_score_correction_bias"

Is2D(key) == Kind(key) = "weight" /\ Part(key) \notin NormParts

\* added: how often 1 was added to it (fold_gemma_norms).
Tensor(key, dtype) == [rows |-> [r \in Flat(HeadRows(Part(key))) |-> <<key, r>>], dtype |-> dtype, added |-> 0]

-----------------------------------------------------------------------------
(* Checkpoints.                                                            *)

Qkv == {"self_attn.q_proj", "self_attn.k_proj", "self_attn.v_proj"}
GateUpDown == {"mlp.gate_proj", "mlp.up_proj", "mlp.down_proj"}

IsMoeLayer(m, layer) == m.experts > 0 /\ layer >= m.firstDense

LayerParts(m, layer) ==
    Qkv \cup {"input_layernorm"}
        \cup (IF m.arch = "phi2" THEN {"self_attn.dense", "mlp.fc1", "mlp.fc2"}
              ELSE {"self_attn.o_proj", "post_attention_layernorm"})
        \cup (CASE m.arch = "phi2" -> {}
                [] m.arch = "phi3" -> {"mlp.gate_up_proj", "mlp.down_proj"}
                [] m.arch = "gemma3" -> GateUpDown \cup {"self_attn.q_norm", "self_attn.k_norm", "pre_feedforward_layernorm",
                                                         "post_feedforward_layernorm"}
                [] IsMoeLayer(m, layer) -> {Router} \cup {"block_sparse_moe.shared_expert." \o w : w \in IF m.shared THEN {"w1", "w2", "w3"} ELSE {}}
                [] OTHER -> GateUpDown)

Biased(m, part) == m.arch = "phi2" \/ (m.bias /\ part \in Qkv)

\* The tensors a checkpoint of model m has.
Checkpoint(m) ==
    LET norm == IF m.arch = "phi2" THEN "final_layernorm" ELSE "norm"
        layers == Flat(m.layers)
    IN  {Key(m.prefix, None, p, "weight") : p \in {"embed_tokens", norm}}
        \cup (IF m.tied THEN {} ELSE {Key("", None, "lm_head", "weight")})
        \cup (IF m.arch = "phi2" THEN {Key(m.prefix, None, norm, "bias"), Key("", None, "lm_head", "bias")} ELSE {})
        \cup UNION {UNION {{Key(m.prefix, l, p, k) : k \in IF Biased(m, p) THEN {"weight", "bias"} ELSE {"weight"}}
                              : p \in LayerParts(m, l)} : l \in layers}
        \cup UNION {{<<m.prefix, l, "block_sparse_moe.experts." \o w, e, "weight">> : w \in {"w1", "w2", "w3"}, e \in Flat(m.experts)}
                       : l \in {l \in layers : IsMoeLayer(m, l)}}
        \cup (IF m.shared THEN {Key(m.prefix, l, Correction, "") : l \in {l \in layers : IsMoeLayer(m, l)}} ELSE {})

-----------------------------------------------------------------------------
(* llama.cpp's converter, as the loader relies on it.                      *)

GgufPart ==
    [p \in {"embed_tokens", "norm", "final_layernorm", "lm_head", "input_layernorm", "post_attention_layernorm", "self_attn.o_proj",
            "self_attn.dense", "mlp.fc1", "mlp.fc2", "mlp.gate_up_proj", Router, Correction} \cup Qkv \cup GateUpDown
           \cup {"block_sparse_moe.shared_expert." \o w : w \in {"w1", "w2", "w3"}} |->
        CASE p = "embed_tokens" -> "token_embd"
          [] p \in {"norm", "final_layernorm"} -> "output_norm"
          [] p = "lm_head" -> "output"
          [] p = "input_layernorm" -> "attn_norm"
          [] p = "post_attention_layernorm" -> "ffn_norm"
          [] p = "self_attn.q_proj" -> "attn_q"
          [] p = "self_attn.k_proj" -> "attn_k"
          [] p = "self_attn.v_proj" -> "attn_v"
          [] p \in {"self_attn.o_proj", "self_attn.dense"} -> "attn_output"
          [] p = "mlp.gate_proj" -> "ffn_gate"
          [] p \in {"mlp.up_proj", "mlp.fc1", "mlp.gate_up_proj"} -> "ffn_up"
          [] p \in {"mlp.down_proj", "mlp.fc2"} -> "ffn_down"
          [] p = Router -> "ffn_gate_inp"
          [] p = Correction -> "exp_probs_b"
          [] p = "block_sparse_moe.shared_expert.w1" -> "ffn_gate_shexp"
          [] p = "block_sparse_moe.shared_expert.w2" -> "ffn_down_shexp"
          [] p = "block_sparse_moe.shared_expert.w3" -> "ffn_up_shexp"]

ExpertPart(part) == CASE part = "block_sparse_moe.experts.w1" -> "ffn_gate"
                      [] part = "block_sparse_moe.experts.w2" -> "ffn_down"
                      [] part = "block_sparse_moe.experts.w3" -> "ffn_up"

\* Only the architecture called llama has its query and key rows permuted.
Permuted(m, key) == m.arch = "llama" /\ Part(key) \in {"self_attn.q_proj", "self_attn.k_proj"} /\ Kind(key) = "weight"

GgufRows(m, key) ==
    LET t == Tensor(key, "Q4").rows
    IN  IF Permuted(m, key)
        THEN [r \in DOMAIN t |-> t[((r \div HEADDIM) * HEADDIM) + ((r % 2) * (HEADDIM \div 2)) + ((r % HEADDIM) \div 2)]]
        ELSE t

Stack(parts, n) == [r \in Flat(Cardinality(DOMAIN parts[1]) * n) |->
                       parts[(r \div Cardinality(DOMAIN parts[1])) + 1][r % Cardinality(DOMAIN parts[1])]]
Fuse(q, k, v) == [r \in Flat((HEADS + 2 * KVHEADS) * HEADDIM) |->
                     IF r < HEADS * HEADDIM THEN q[r]
                     ELSE IF r < (HEADS + KVHEADS) * HEADDIM THEN k[r - HEADS * HEADDIM] ELSE v[r - (HEADS + KVHEADS) * HEADDIM]]

\* The file: GGUF names <<layer, component, expert, kind>> and their tensors.  m.form says how it
\* stores experts ("stacked", or one tensor each) and Phi's projections ("fused").
Gguf(m) ==
    LET Q4(rows) == [rows |-> rows, dtype |-> "Q4", added |-> 0]
        keys == Checkpoint(m)
        fused(k) == m.arch \in {"phi2", "phi3"} /\ Part(k) \in Qkv
        expert(k) == k[4] # None
        norm2(k) == m.arch = "glm4moe" /\ Part(k) = "post_attention_layernorm"
        name(k) == IF expert(k) THEN <<KeyLayer(k), ExpertPart(Part(k)), k[4], "weight">>
                   ELSE <<KeyLayer(k), IF norm2(k) THEN "post_attention_norm" ELSE GgufPart[Part(k)], None,
                          IF Part(k) = Correction THEN "bias" ELSE Kind(k)>>
        plain == {k \in keys : ~fused(k) /\ ~(expert(k) /\ m.form = "stacked")}
        qkv == {<<KeyLayer(k), "attn_qkv", None, Kind(k)>> : k \in {k \in keys : fused(k)}}
        stacks == {<<KeyLayer(k), ExpertPart(Part(k)) \o "_exps", None, "weight">> : k \in {k \in keys : expert(k) /\ m.form = "stacked"}}
        one(n) == CHOOSE k \in plain : name(k) = n
        rowsOf(l, p, kind) == GgufRows(m, Key(m.prefix, l, p, kind))
        expertsOf(n) == [e \in 1 .. m.experts |->
                            GgufRows(m, CHOOSE k \in keys : KeyLayer(k) = n[1] /\ k[4] = e - 1 /\ ExpertPart(Part(k)) \o "_exps" = n[2])]
    IN  [n \in {name(k) : k \in plain} \cup qkv \cup stacks |->
            Q4(CASE n \in qkv -> Fuse(rowsOf(n[1], "self_attn.q_proj", n[4]), rowsOf(n[1], "self_attn.k_proj", n[4]),
                                      rowsOf(n[1], "self_attn.v_proj", n[4]))
                 [] n \in stacks -> Stack(expertsOf(n), m.experts)
                 [] OTHER -> GgufRows(m, one(n)))]
        @@ (<<None, "rope_freqs", None, "weight">> :> Q4(<<>>))

-----------------------------------------------------------------------------
(* Loading a GGUF file.                                                    *)

\* map_blk_tensor: blk.<layer>.<component>.<kind>; expert_proj_2d for the form with one tensor each.
MapBlkTensor(n) ==
    LET to(part) == {<<"model.", n[1], part, n[3], n[4]>>}
    IN  CASE n[3] # None -> (CASE n[2] = "ffn_gate" -> to("block_sparse_moe.experts.w1")
                               [] n[2] = "ffn_up"   -> to("block_sparse_moe.experts.w3")
                               [] n[2] = "ffn_down" -> to("block_sparse_moe.experts.w2")
                               [] OTHER -> {})
          [] n[2] = "attn_norm" -> to("input_layernorm")
          [] n[2] = "attn_q" -> to("self_attn.q_proj")
          [] n[2] = "attn_k" -> to("self_attn.k_proj")
          [] n[2] = "attn_v" -> to("self_attn.v_proj")
          [] n[2] = "attn_qkv" -> to("self_attn.qkv_proj")
          [] n[2] = "attn_output" -> to("self_attn.o_proj")
          [] n[2] \in {"ffn_norm", "post_attention_norm"} -> to("post_attention_layernorm")
          [] n[2] = "ffn_gate" -> to("mlp.gate_proj")
          [] n[2] = "ffn_up" -> to("mlp.up_proj")
          [] n[2] = "ffn_down" -> to("mlp.down_proj")
          [] n[2] = "ffn_gate_shexp" -> to("block_sparse_moe.shared_expert.w1")
          [] n[2] = "ffn_up_shexp" -> to("block_sparse_moe.shared_expert.w3")
          [] n[2] = "ffn_down_shexp" -> to("block_sparse_moe.shared_expert.w2")
          [] n[2] = "ffn_gate_inp" -> to(Router)
          [] n[2] = "ffn_gate_exps" -> to("block_sparse_moe.experts_stacked.w1")
          [] n[2] = "ffn_up_exps" -> to("block_sparse_moe.experts_stacked.w3")
          [] n[2] = "ffn_down_exps" -> to("block_sparse_moe.experts_stacked.w2")
          [] OTHER -> {}

\* map_gguf_tensor_name: the keys (one or none) of a tensor.  Outside the layers only weights
\* are known: output_norm.bias and output.bias have no key and are skipped.
MapGgufTensorName(n) ==
    CASE n[1] # None /\ n[2] = "exp_probs_b" -> {Key("model.", n[1], Correction, "")}
      [] n[1] # None -> MapBlkTensor(n)
      [] n[4] = "weight" /\ n[2] = "token_embd" -> {Key("model.", None, "embed_tokens", "weight")}
      [] n[4] = "weight" /\ n[2] = "output_norm" -> {Key("model.", None, "norm", "weight")}
      [] n[4] = "weight" /\ n[2] = "output" -> {Key("", None, "lm_head", "weight")}
      [] OTHER -> {}

\* A load that bails.
Bailed == <<>>

MapGgufTensorsToHf(raw) ==
    LET keys == UNION {MapGgufTensorName(n) : n \in DOMAIN raw}
        of(k) == {n \in DOMAIN raw : k \in MapGgufTensorName(n)}
    IN  IF (\E k \in keys : Cardinality(of(k)) > 1) \/ Key("model.", None, "embed_tokens", "weight") \notin keys THEN Bailed
        ELSE [k \in keys |-> raw[CHOOSE n \in of(k) : TRUE]]

WithRows(t, rows) == [t EXCEPT !.rows = rows]

\* unpermute_qk_rows leaves a tensor whose rows are not heads * headDim alone.
UnpermuteLlamaGgufQk(w) ==
    LET heads(k) == IF Part(k) = "self_attn.q_proj" THEN HEADS ELSE KVHEADS
    IN  [k \in DOMAIN w |->
            IF Part(k) \in {"self_attn.q_proj", "self_attn.k_proj"} /\ Kind(k) = "weight" /\ Cardinality(DOMAIN w[k].rows) = heads(k) * HEADDIM
            THEN WithRows(w[k], UnpermuteQkRows(w[k].rows, heads(k), HEADDIM)) ELSE w[k]]

SliceRows(t, start, n) == WithRows(t, [r \in Flat(n) |-> t.rows[start + r]])

\* split_moe_gguf_experts: expert e is the e-th run of rows of the stack.
SplitMoeGgufExperts(w, m) ==
    LET stacked(part) == CASE part = "block_sparse_moe.experts.w1" -> "block_sparse_moe.experts_stacked.w1"
                           [] part = "block_sparse_moe.experts.w2" -> "block_sparse_moe.experts_stacked.w2"
                           [] part = "block_sparse_moe.experts.w3" -> "block_sparse_moe.experts_stacked.w3"
        stacks == {k \in DOMAIN w : \E p \in {"w1", "w2", "w3"} : Part(k) = "block_sparse_moe.experts_stacked." \o p}
        rows(k) == Cardinality(DOMAIN w[k].rows) \div m.experts
        split == {<<"model.", KeyLayer(k), "block_sparse_moe.experts." \o p, e, "weight">> :
                     k \in stacks, e \in Flat(m.experts), p \in {"w1", "w2", "w3"}}
        from(k) == Key("model.", KeyLayer(k), stacked(Part(k)), "weight")
    IN  [k \in (DOMAIN w \ stacks) \cup split |->
            IF k \in split THEN SliceRows(w[from(k)], k[4] * rows(from(k)), rows(from(k))) ELSE w[k]]

\* split_phi_gguf_fused: q, k and v are runs of rows of qkv_proj; Phi-3's up_proj is its fused
\* gate_up_proj, Phi-2's up_proj and down_proj are fc1 and fc2.
SplitPhiGgufFused(w, isPhi3) ==
    LET q == HEADS * HEADDIM
        kv == KVHEADS * HEADDIM
        fused == {k \in DOMAIN w : Part(k) = "self_attn.qkv_proj"}
        base(k) == [k EXCEPT ![3] = "self_attn.qkv_proj"]
        new(k) == [k EXCEPT ![3] = CASE Part(k) = "mlp.up_proj" -> (IF isPhi3 THEN "mlp.gate_up_proj" ELSE "mlp.fc1")
                                     [] Part(k) = "mlp.down_proj" /\ ~isPhi3 -> "mlp.fc2"
                                     [] OTHER -> Part(k)]
        split == {[k EXCEPT ![3] = p] : k \in fused, p \in Qkv}
    IN  IF \E k \in fused : Cardinality(DOMAIN w[k].rows) # q + (2 * kv) THEN Bailed
        ELSE [k \in split \cup {new(k) : k \in DOMAIN w \ fused} |->
                CASE k \in split /\ Part(k) = "self_attn.q_proj" -> SliceRows(w[base(k)], 0, q)
                  [] k \in split /\ Part(k) = "self_attn.k_proj" -> SliceRows(w[base(k)], q, kv)
                  [] k \in split /\ Part(k) = "self_attn.v_proj" -> SliceRows(w[base(k)], q + kv, kv)
                  [] OTHER -> w[CHOOSE o \in DOMAIN w \ fused : new(o) = k]]

\* from_gguf_weights, as far as the weights go (m.arch decides as info.arch does: a Mixtral file
\* calls itself llama).
FromGguf(m) ==
    LET raw == MapGgufTensorsToHf(Gguf(m))
        w == IF m.arch = "llama" THEN UnpermuteLlamaGgufQk(raw) ELSE raw
    IN  CASE m.arch \in {"phi2", "phi3"} -> SplitPhiGgufFused(w, m.arch = "phi3")
          [] m.experts > 0 -> SplitMoeGgufExperts(w, m)
          [] OTHER -> w

-----------------------------------------------------------------------------
(* Loading safetensors.                                                    *)

\* is_quantizable_linear: a matrix whose name has none of norm, bias, embed, lm_head and the
\* router's; should_quantize_online adds that it is still a half-precision one.
IsQuantizableLinear(k) ==
    Is2D(k) /\ Part(k) \notin NormParts \cup {"embed_tokens", "lm_head", Router, Correction}

ShouldQuantizeOnline(k, t) == IsQuantizableLinear(k) /\ t.dtype = "F16"

Q80(t) == [t EXCEPT !.dtype = "Q8_0"]

QuantizeOnline(w) == [k \in DOMAIN w |-> IF ShouldQuantizeOnline(k, w[k]) THEN Q80(w[k]) ELSE w[k]]

\* load_hf_weights_map: a key in two shards is an error.
MergeShards(shards) ==
    IF \E i, j \in DOMAIN shards : i # j /\ DOMAIN shards[i] \cap DOMAIN shards[j] # {} THEN Bailed
    ELSE [k \in UNION {DOMAIN shards[i] : i \in DOMAIN shards} |-> shards[CHOOSE i \in DOMAIN shards : k \in DOMAIN shards[i]][k]]

\* load_hf_weights (and load_hf_weights_quantized) of a checkpoint in two shards.
LoadHfWeights(m, quantized) ==
    LET file == [k \in Checkpoint(m) |-> Tensor(k, "F16")]
        shard(odd) == [k \in {k \in DOMAIN file : (KeyLayer(k) % 2 = 1) = odd} |-> file[k]]
        read(odd) == IF quantized THEN QuantizeOnline(shard(odd)) ELSE shard(odd)
    IN  MergeShards(<<read(TRUE), read(FALSE)>>)

-----------------------------------------------------------------------------
(* What the engines find.                                                  *)

DetectWeightPrefix(w) ==
    LET found == {i \in DOMAIN PrefixCandidates : Key(PrefixCandidates[i], None, "embed_tokens", "weight") \in DOMAIN w}
        any == {k \in DOMAIN w : Part(k) = "embed_tokens"}
    IN  IF found # {} THEN PrefixCandidates[Min(found)]
        ELSE IF Key("", None, "embed_tokens", "weight") \in DOMAIN w THEN ""
        ELSE IF any # {} THEN (CHOOSE k \in any : TRUE)[1] ELSE "model."

Missing == [rows |-> <<>>, dtype |-> "missing", added |-> 0]

FirstOf(w, keys) ==
    LET found == {i \in DOMAIN keys : keys[i] \in DOMAIN w} IN IF found = {} THEN Missing ELSE w[keys[Min(found)]]

\* resolve_weight (whose fallback is the suffix without ".weight") and resolve_bias.
ResolveWeight(w, prefix, layer, part) == FirstOf(w, <<Key(prefix, layer, part, "weight"), Key("", layer, part, "")>>)
ResolveBias(w, prefix, layer, part) == FirstOf(w, <<Key(prefix, layer, part, "bias"), Key("", layer, part, "bias")>>)

ResolveLmHead(w, prefix, tie) ==
    LET embed == Key(prefix, None, "embed_tokens", "weight")
    IN  IF tie THEN FirstOf(w, <<embed>>)
        ELSE FirstOf(w, <<Key("", None, "lm_head", "weight"), Key(prefix, None, "lm_head", "weight"), embed>>)

\* A slot of an engine: what the checkpoint calls it, and what the engine found.
Slot(layer, part, expert, kind, t) == [key |-> <<layer, part, expert, kind>>, tensor |-> t]

WeightSlots(w, prefix, layer, parts) == {Slot(layer, p, None, "weight", ResolveWeight(w, prefix, layer, p)) : p \in parts}
BiasSlots(w, prefix, layer, parts) ==
    {Slot(layer, p, None, "bias", ResolveBias(w, prefix, layer, p)) : p \in parts}

Present(slots) == {s \in slots : s.tensor # Missing}

\* The Llama engine: every weight forward_layer, moe_ffn and the head ask for; optional ones if found.
LlamaSlots(w0, m) ==
    LET w == QuantizeOnline(w0)
        p == DetectWeightPrefix(w)
        moe(l) == LET base == "block_sparse_moe."
                      found == FirstOf(w, <<Key(p, l, Correction, "")>>)
                  IN  WeightSlots(w, p, l, {Router} \cup (IF m.shared THEN {base \o "shared_expert." \o x : x \in {"w1", "w2", "w3"}} ELSE {}))
                      \cup Present({Slot(l, Correction, None, "", found)})
                      \cup {Slot(l, base \o "experts." \o x, e, "weight", FirstOf(w, << <<p, l, base \o "experts." \o x, e, "weight">> >>)) :
                               x \in {"w1", "w2", "w3"}, e \in Flat(m.experts)}
        layer(l) == WeightSlots(w, p, l, {"input_layernorm", "post_attention_layernorm", "self_attn.o_proj"} \cup Qkv)
                    \cup Present(BiasSlots(w, p, l, {"self_attn.o_proj"} \cup Qkv))
                    \cup IF IsMoeLayer(m, l) THEN moe(l) ELSE WeightSlots(w, p, l, GateUpDown)
    IN  WeightSlots(w, p, None, {"embed_tokens", "norm"})
        \cup {Slot(None, "lm_head", None, "weight", ResolveLmHead(w, p, m.tied /\ ~m.gguf))}
        \cup UNION {layer(l) : l \in Flat(m.layers)}

\* The Phi engine, with its two names for the output projection and for the last norm.
PhiSlots(w0, m) ==
    LET w == QuantizeOnline(w0)
        p == DetectWeightPrefix(w)
        Either(l, a, b) == LET name == IF ResolveWeight(w, p, l, a) # Missing THEN a ELSE b
                               slot == IF m.arch = "phi2" THEN a ELSE b
                           IN  {Slot(l, slot, None, "weight", ResolveWeight(w, p, l, name))}
                               \cup Present({Slot(l, slot, None, "bias", ResolveBias(w, p, l, name))})
        Both(l, parts) == WeightSlots(w, p, l, parts) \cup Present(BiasSlots(w, p, l, parts))
        layer(l) == Both(l, Qkv \cup {"input_layernorm"}) \cup Either(l, "self_attn.dense", "self_attn.o_proj")
                    \cup Both(l, IF m.arch = "phi2" THEN {"mlp.fc1", "mlp.fc2"}
                                 ELSE {"post_attention_layernorm", "mlp.gate_up_proj", "mlp.down_proj"})
    IN  WeightSlots(w, p, None, {"embed_tokens"}) \cup Either(None, "final_layernorm", "norm")
        \cup {Slot(None, "lm_head", None, "weight", ResolveLmHead(w, p, m.tied /\ ~m.gguf))}
        \cup Present(BiasSlots(w, p, None, {"lm_head"}))
        \cup UNION {layer(l) : l \in Flat(m.layers)}

\* fold_gemma_norms: 1 is added to every norm.
FoldGemmaNorms(w) == [k \in DOMAIN w |-> IF Part(k) \in NormParts /\ Kind(k) = "weight" THEN [w[k] EXCEPT !.added = @ + 1] ELSE w[k]]

\* The Gemma 3 engine: keys lose a leading "language_model.", the vision tower is dropped, and
\* the table is quantised as well.
GemmaSlots(w0, m) ==
    LET text == {k \in DOMAIN w0 : k[1] # "vision_tower."}
        strip(k) == IF k[1] = "language_model.model." THEN [k EXCEPT ![1] = "model."] ELSE k
        w1 == FoldGemmaNorms([k \in {strip(k) : k \in text} |-> w0[CHOOSE o \in text : strip(o) = k]])
        embed == Key("model.", None, "embed_tokens", "weight")
        w == [k \in DOMAIN w1 |-> IF k = embed THEN Q80(w1[k]) ELSE QuantizeOnline(w1)[k]]
        get(l, p) == Slot(l, p, None, "weight", FirstOf(w, <<Key("model.", l, p, "weight")>>))
    IN  {get(None, p) : p \in {"embed_tokens", "norm"}} \cup {Slot(None, "lm_head", None, "weight", w[embed])}
        \cup {get(l, p) : l \in Flat(m.layers), p \in LayerParts(m, 0)}

\* Mutant: retain() without the dot that ends the layer's number.
Freed_NoDot(l, i) == l = i \/ l \div 10 = i

\* The keys of layer i start with "layers.<i>."
Freed(l, i) == l = i

\* The wgpu engine uploads layer by layer and frees a layer's host copy before the next;
\* upload_weight quantises what the CPU engine would.
WgpuSlots(w, m) ==
    LET p == DetectWeightPrefix(w)
        host(i) == [k \in {k \in DOMAIN w : \A j \in Flat(i) : ~(k[1] = p /\ KeyLayer(k) # None /\ Freed(KeyLayer(k), j))} |-> w[k]]
        up(slots) == {IF IsQuantizableLinear(<<p>> \o s.key) /\ s.tensor.dtype = "F16" THEN [s EXCEPT !.tensor = Q80(@)] ELSE s : s \in slots}
        layer(l) == WeightSlots(host(l), p, l, {"input_layernorm", "post_attention_layernorm", "self_attn.o_proj"} \cup Qkv \cup GateUpDown)
                    \cup Present(BiasSlots(host(l), p, l, {"self_attn.o_proj"} \cup Qkv))
    IN  up(WeightSlots(w, p, None, {"embed_tokens", "norm"})
           \cup {Slot(None, "lm_head", None, "weight", ResolveLmHead(w, p, FALSE))}
           \cup UNION {layer(l) : l \in Flat(m.layers)})

\* load_llama_layer of the MLX engine.
MlxLlamaLayer(w, p, l) ==
    WeightSlots(w, p, l, {"input_layernorm", "post_attention_layernorm", "self_attn.o_proj"} \cup Qkv \cup GateUpDown)
        \cup Present(BiasSlots(w, p, l, Qkv))

\* The MLX engine looks for the head only at the root; it quantises in its own format.
MlxSlots(w, m) ==
    LET p == DetectWeightPrefix(w)
        head == FirstOf(w, <<Key("", None, "lm_head", "weight"), Key(p, None, "embed_tokens", "weight")>>)
    IN  WeightSlots(w, p, None, {"embed_tokens", "norm"})
        \cup {Slot(None, "lm_head", None, "weight", head)} \cup Present(BiasSlots(w, "", None, {"lm_head"}))
        \cup UNION {MlxLlamaLayer(w, p, l) : l \in Flat(m.layers)}
=============================================================================
