---------------------------- MODULE ModelCatalog ----------------------------
(***************************************************************************)
(* What a model is (sapient-hub): its hyperparameters, read from config.json *)
(* or from the metadata of a GGUF file (model_info.rs, whisper_config.rs,    *)
(* snac_config.rs), the file and the tokenizer that are chosen for it        *)
(* (gguf.rs), and the model that a name stands for (registry.rs).            *)
(*                                                                           *)
(* A configuration is a function from its keys; a key that is missing or     *)
(* null is not in its domain.  Where the code asks what a string contains,   *)
(* a string is the set of the asked-for fragments that occur in it.  Numbers *)
(* are small; the rotary share of a head is in percent.                      *)
(***************************************************************************)
EXTENDS Integers, Sequences, FiniteSets, SequencesExt

Opt(cfg, key, default) == IF key \in DOMAIN cfg THEN cfg[key] ELSE default

\* The first of the keys that is there.
OptOf(cfg, keys, default) ==
    LET there == SelectSeq(keys, LAMBDA k : k \in DOMAIN cfg)
    IN  IF there = <<>> THEN default ELSE cfg[there[1]]

\* The first rule one of whose alternatives the string contains.
FirstMatch(rules, contained, default) ==
    LET hits == SelectSeq(rules, LAMBDA r : \E alternative \in r[1] : alternative \subseteq contained)
    IN  IF hits = <<>> THEN default ELSE hits[1][2]

Unknown == "Unknown"

\* ArchType::from_hf_arch_name, of the fragments of a class name.
from_hf_arch_name(name) ==
    FirstMatch(<< <<{{"Llama"}, {"Mistral"}}, "Llama">>, <<{{"Phi"}}, "Phi">>, <<{{"Gemma3"}}, "Gemma3">>,
                  <<{{"Gemma"}}, "Gemma">>, <<{{"GPT2"}, {"Gpt2"}}, "Gpt2">>, <<{{"Bert"}, {"Roberta"}}, "Bert">>,
                  <<{{"Qwen"}}, "Qwen">>, <<{{"Mixtral"}}, "Mixtral">>, <<{{"Glm4Moe"}, {"Glm4MoE"}}, "Glm4Moe">>,
                  <<{{"Falcon"}}, "Falcon">>, <<{{"MPT"}}, "Mpt">>, <<{{"Bloom"}}, "Bloom">>, <<{{"T5"}}, "T5">>,
                  <<{{"Whisper"}}, "Whisper">>, <<{{"Idefics"}, {"SmolVLM"}}, "Llama">> >>, name, Unknown)

\* ArchType::from_model_type, also of general.architecture.
from_model_type(model_type) ==
    CASE model_type \in {"llama", "mistral", "idefics3"} -> "Llama"
      [] model_type \in {"phi", "phi2", "phi3"}          -> "Phi"
      [] model_type \in {"gemma", "gemma2"}              -> "Gemma"
      [] model_type \in {"gemma3", "gemma3_text"}        -> "Gemma3"
      [] model_type \in {"bert", "roberta"}              -> "Bert"
      [] model_type \in {"qwen2", "qwen3"}               -> "Qwen"
      [] model_type \in {"glm4_moe", "glm4moe"}          -> "Glm4Moe"
      [] model_type = "gpt2"    -> "Gpt2"
      [] model_type = "mixtral" -> "Mixtral"
      [] model_type = "falcon"  -> "Falcon"
      [] model_type = "mpt"     -> "Mpt"
      [] model_type = "bloom"   -> "Bloom"
      [] model_type = "t5"      -> "T5"
      [] model_type = "whisper" -> "Whisper"
      [] OTHER -> Unknown

Inherited == {"vocab_size", "bos_token_id", "eos_token_id", "pad_token_id", "tie_word_embeddings"}

\* effective_config: the text part of a composite model, and what it takes from the whole.
effective_config(raw) ==
    IF "text_config" \notin DOMAIN raw THEN raw
    ELSE LET text == raw["text_config"]
             outer == (DOMAIN raw \cap Inherited) \ DOMAIN text
         IN  [k \in DOMAIN text \cup outer |-> IF k \in outer THEN raw[k] ELSE text[k]]

\* detect_arch: the class name, then the type; of the text part, then of the whole.
detect_arch(raw, cfg) ==
    LET said(source) == << IF "architectures" \in DOMAIN source THEN from_hf_arch_name(source["architectures"]) ELSE Unknown,
                           IF "model_type" \in DOMAIN source THEN from_model_type(source["model_type"]) ELSE Unknown >>
        known == SelectSeq(said(cfg) \o said(raw), LAMBDA a : a # Unknown)
    IN  IF known = <<>> THEN Unknown ELSE known[1]

Dense == [num_experts |-> 0]

\* The configuration of the experts under the names that a kind of file has for its fields.
Moe(cfg, key, intermediate, sigmoid) ==
    IF OptOf(cfg, key.experts, 0) = 0 THEN Dense
    ELSE [num_experts |-> OptOf(cfg, key.experts, 0), top_k |-> Opt(cfg, key.top_k, 2),
          intermediate |-> Opt(cfg, key.intermediate, intermediate), shared |-> Opt(cfg, key.shared, 0),
          first_k_dense |-> Opt(cfg, key.dense, 0), norm |-> Opt(cfg, key.norm, TRUE), sigmoid |-> sigmoid,
          scale |-> Opt(cfg, key.scale, 1), n_group |-> Opt(cfg, key.group, 1)]

HfMoeKeys ==
    [experts |-> <<"num_local_experts", "n_routed_experts">>, top_k |-> "num_experts_per_tok",
     intermediate |-> "moe_intermediate_size", shared |-> "n_shared_experts", dense |-> "first_k_dense_replace",
     norm |-> "norm_topk_prob", scale |-> "routed_scaling_factor", group |-> "n_group"]
GgufMoeKeys ==
    [experts |-> <<"expert_count">>, top_k |-> "expert_used_count", intermediate |-> "expert_feed_forward_length",
     shared |-> "expert_shared_count", dense |-> "leading_dense_block_count", norm |-> "expert_weights_norm",
     scale |-> "expert_weights_scale", group |-> "expert_group_count"]

\* Mutant: the gate is what the configuration says.
parse_moe_config_AsSaid(cfg, intermediate) ==
    Moe(cfg, HfMoeKeys, intermediate, Opt(cfg, "scoring_func", "none") = "sigmoid")

\* parse_moe_config: the gate of GLM is a sigmoid although its config does not say so.
parse_moe_config(cfg, intermediate) ==
    LET said == Opt(cfg, "scoring_func", "none")
    IN  Moe(cfg, HfMoeKeys, intermediate, said = "sigmoid" \/ (said # "softmax" /\ Opt(cfg, "model_type", "none") = "glm4_moe"))

\* ModelInfo::from_json_str.
from_json_str(raw) ==
    LET cfg == effective_config(raw)
        hidden == Opt(cfg, "hidden_size", 4096)
        heads == Opt(cfg, "num_attention_heads", 32)
        intermediate == Opt(cfg, "intermediate_size", 11008)
    IN  [arch |-> detect_arch(raw, cfg), vocab |-> Opt(cfg, "vocab_size", Opt(raw, "vocab_size", 32000)), hidden |-> hidden,
         layers |-> Opt(cfg, "num_hidden_layers", 32), heads |-> heads, kv |-> Opt(cfg, "num_key_value_heads", heads),
         intermediate |-> intermediate, ctx |-> Opt(cfg, "max_position_embeddings", 4096),
         eps |-> OptOf(cfg, <<"rms_norm_eps", "layer_norm_eps", "layer_norm_epsilon">>, "1e-5"),
         act |-> Opt(cfg, "hidden_act", "silu"), theta |-> Opt(cfg, "rope_theta", 10000),
         partial |-> Opt(cfg, "partial_rotary_factor", 100), head_dim |-> Opt(cfg, "head_dim", hidden \div heads),
         moe |-> parse_moe_config(cfg, intermediate)]

\* ModelInfo::from_gguf_metadata: layers without those that predict further tokens, the rotary
\* width in dimensions.  (kv without the architecture's prefix.)
from_gguf_metadata(kv) ==
    LET name == Opt(kv, "general.architecture", "llama")
        hidden == Opt(kv, "embedding_length", 4096)
        heads == Opt(kv, "attention.head_count", 32)
        head_dim == Opt(kv, "attention.key_length", hidden \div heads)
        intermediate == Opt(kv, "feed_forward_length", 11008)
        blocks == Opt(kv, "block_count", 32)
        extra == Opt(kv, "nextn_predict_layers", 0)
    IN  [arch |-> from_model_type(name), vocab |-> OptOf(kv, <<"vocab_size", "tokenizer.ggml.tokens">>, 32000), hidden |-> hidden,
         layers |-> IF extra > blocks THEN 0 ELSE blocks - extra, heads |-> heads, kv |-> Opt(kv, "attention.head_count_kv", heads),
         intermediate |-> intermediate, ctx |-> Opt(kv, "context_length", 4096),
         eps |-> OptOf(kv, <<"attention.layer_norm_rms_epsilon", "attention.layer_norm_epsilon">>, "1e-5"),
         act |-> IF name \in {"phi2", "gpt2"} THEN "gelu" ELSE "silu", theta |-> Opt(kv, "rope.freq_base", 10000),
         partial |-> IF "rope.dimension_count" \in DOMAIN kv THEN (100 * kv["rope.dimension_count"]) \div head_dim ELSE 100,
         head_dim |-> head_dim, moe |-> Moe(kv, GgufMoeKeys, intermediate, Opt(kv, "expert_gating_func", 1) = 2)]

\* WhisperConfig::from_json_str and SnacConfig::from_json_str: a field of the base model where the
\* file has none, or an empty list.
WhisperFields(base, cfg) == [k \in DOMAIN base |-> Opt(cfg, k, base[k])]
SnacLists == {"decoder_rates", "vq_strides"}
SnacFields(base, cfg) == [k \in DOMAIN base |-> IF k \in SnacLists /\ Opt(cfg, k, <<>>) = <<>> THEN base[k] ELSE Opt(cfg, k, base[k])]

\* WhisperGenConfig: negative ids are dropped.
TokenIds(cfg, key) == SelectSeq(Opt(cfg, key, <<>>), LAMBDA t : t >= 0)

-----------------------------------------------------------------------------
(* The files others write (external).                                      *)

\* A model as it was trained, with the class name, type and GGUF name of its family.
Plain == [class |-> {"Llama"}, type |-> "llama", gguf |-> "llama", arch |-> "Llama", ggufArch |-> "Llama",
          layers |-> 3, extra |-> 0, hidden |-> 8, heads |-> 4, kv |-> 4, head_dim |-> 2, rot |-> 2, intermediate |-> 6,
          ctx |-> 4096, eps |-> "1e-5", act |-> "silu", theta |-> 10000, vocab |-> 10, moe |-> Dense]
Experts == [num_experts |-> 4, top_k |-> 2, intermediate |-> 6, shared |-> 0, first_k_dense |-> 0, norm |-> TRUE,
            sigmoid |-> FALSE, scale |-> 1, n_group |-> 1]
Trained ==
    {Plain, [Plain EXCEPT !.kv = 2], [Plain EXCEPT !.head_dim = 4, !.rot = 4, !.theta = 500000],
     [Plain EXCEPT !.class = {"Mistral"}, !.type = "mistral", !.ctx = 32],
     [Plain EXCEPT !.class = {"Qwen"}, !.type = "qwen2", !.gguf = "qwen2", !.arch = "Qwen", !.ggufArch = "Qwen", !.eps = "1e-6"],
     [Plain EXCEPT !.class = {"Mixtral"}, !.type = "mixtral", !.arch = "Mixtral", !.kv = 2, !.moe = Experts],
     [Plain EXCEPT !.class = {"Phi"}, !.type = "phi", !.gguf = "phi2", !.arch = "Phi", !.ggufArch = "Phi", !.act = "gelu", !.rot = 1],
     [Plain EXCEPT !.class = {"Phi", "Phi3"}, !.type = "phi3", !.gguf = "phi3", !.arch = "Phi", !.ggufArch = "Phi"],
     [Plain EXCEPT !.class = {"Gemma", "Gemma3"}, !.type = "gemma3_text", !.gguf = "gemma3", !.arch = "Gemma3",
                   !.ggufArch = "Gemma3", !.head_dim = 4, !.rot = 4, !.eps = "1e-6"],
     [Plain EXCEPT !.class = {"Glm4Moe"}, !.type = "glm4_moe", !.gguf = "glm4moe", !.arch = "Glm4Moe", !.ggufArch = "Glm4Moe",
                   !.head_dim = 4, !.extra = 1, !.kv = 2,
                   !.moe = [Experts EXCEPT !.shared = 1, !.first_k_dense = 1, !.sigmoid = TRUE, !.intermediate = 3, !.scale = 2]]}

\* A writer leaves out what its format lets it: heads that share no keys, what follows from the
\* rest, what Llama, Mixtral or GLM have always had.
Leave(cfg, keys) == [k \in DOMAIN cfg \ keys |-> cfg[k]]

EpsKey(m) == IF m.arch = "Phi" /\ m.type = "phi" THEN "layer_norm_eps" ELSE "rms_norm_eps"
HfConfig(m, sparse) ==
    Leave([k \in {"architectures"} |-> m.class] @@ (EpsKey(m) :> m.eps)
          @@ [model_type |-> m.type, vocab_size |-> m.vocab, hidden_size |-> m.hidden, num_hidden_layers |-> m.layers,
              num_attention_heads |-> m.heads, num_key_value_heads |-> m.kv, intermediate_size |-> m.intermediate,
              max_position_embeddings |-> m.ctx, hidden_act |-> m.act, rope_theta |-> m.theta, head_dim |-> m.head_dim,
              partial_rotary_factor |-> (100 * m.rot) \div m.head_dim]
          @@ (IF m.moe = Dense THEN <<>>
              ELSE [num_experts_per_tok |-> m.moe.top_k, moe_intermediate_size |-> m.moe.intermediate, n_shared_experts |-> m.moe.shared,
                    first_k_dense_replace |-> m.moe.first_k_dense, norm_topk_prob |-> m.moe.norm,
                    routed_scaling_factor |-> m.moe.scale, n_group |-> m.moe.n_group]
                   @@ ((IF m.arch = "Mixtral" THEN "num_local_experts" ELSE "n_routed_experts") :> m.moe.num_experts)),
          IF ~sparse THEN {}
          ELSE (IF m.kv = m.heads THEN {"num_key_value_heads"} ELSE {}) \cup (IF m.head_dim * m.heads = m.hidden THEN {"head_dim"} ELSE {})
               \cup (IF m.rot = m.head_dim THEN {"partial_rotary_factor"} ELSE {}) \cup (IF m.theta = 10000 THEN {"rope_theta"} ELSE {})
               \cup (IF m.arch = "Mixtral" THEN {"moe_intermediate_size", "n_shared_experts", "first_k_dense_replace", "norm_topk_prob",
                                                 "routed_scaling_factor", "n_group"} ELSE {}))

\* In a composite model, the text part has a config of its own; the vocabulary may be outside.
Composite(m, cfg, sparse) ==
    [architectures |-> {"Idefics"}, model_type |-> "other", vision_config |-> <<>>, vocab_size |-> m.vocab,
     text_config |-> Leave(cfg, IF sparse THEN {"vocab_size", "architectures"} ELSE {})]

GgufMetadata(m, sparse) ==
    Leave([k \in {"general.architecture"} |-> m.gguf] @@ ("tokenizer.ggml.tokens" :> m.vocab) @@ ("embedding_length" :> m.hidden)
          @@ ("block_count" :> m.layers + m.extra) @@ ("nextn_predict_layers" :> m.extra) @@ ("attention.head_count" :> m.heads)
          @@ ("attention.head_count_kv" :> m.kv) @@ ("feed_forward_length" :> m.intermediate) @@ ("context_length" :> m.ctx)
          @@ ((IF m.act = "gelu" THEN "attention.layer_norm_epsilon" ELSE "attention.layer_norm_rms_epsilon") :> m.eps)
          @@ ("rope.freq_base" :> m.theta) @@ ("attention.key_length" :> m.head_dim) @@ ("rope.dimension_count" :> m.rot)
          @@ (IF m.moe = Dense THEN <<>>
              ELSE [expert_count |-> m.moe.num_experts, expert_used_count |-> m.moe.top_k, expert_feed_forward_length |-> m.moe.intermediate,
                    expert_shared_count |-> m.moe.shared, leading_dense_block_count |-> m.moe.first_k_dense,
                    expert_weights_norm |-> m.moe.norm, expert_weights_scale |-> m.moe.scale, expert_group_count |-> m.moe.n_group,
                    expert_gating_func |-> IF m.moe.sigmoid THEN 2 ELSE 1]),
          IF ~sparse THEN {}
          ELSE (IF m.extra = 0 THEN {"nextn_predict_layers"} ELSE {}) \cup (IF m.kv = m.heads THEN {"attention.head_count_kv"} ELSE {})
               \cup (IF m.head_dim * m.heads = m.hidden THEN {"attention.key_length"} ELSE {})
               \cup (IF m.rot = m.head_dim THEN {"rope.dimension_count"} ELSE {}) \cup (IF m.theta = 10000 THEN {"rope.freq_base"} ELSE {})
               \cup (IF m.arch = "Mixtral" THEN {"expert_feed_forward_length", "expert_weights_norm", "expert_weights_scale",
                                                 "expert_gating_func"} ELSE {}))

AsTrained(m, arch) ==
    [arch |-> arch, vocab |-> m.vocab, hidden |-> m.hidden, layers |-> m.layers, heads |-> m.heads, kv |-> m.kv,
     intermediate |-> m.intermediate, ctx |-> m.ctx, eps |-> m.eps, act |-> m.act, theta |-> m.theta,
     partial |-> (100 * m.rot) \div m.head_dim, head_dim |-> m.head_dim, moe |-> m.moe]

WhisperBase == [num_mel_bins |-> 80, d_model |-> 512, encoder_layers |-> 6, decoder_layers |-> 6]
SnacBase == [decoder_dim |-> 1024, decoder_rates |-> <<8, 8, 4, 2>>, vq_strides |-> <<4, 2, 1>>, noise |-> TRUE]

\* A model is read back as it was trained, from every form of its file.
ReadAsTrained ==
    /\ \A keys \in SUBSET DOMAIN WhisperBase : WhisperFields(WhisperBase, Leave(WhisperBase, keys)) = WhisperBase
    /\ \A keys \in SUBSET DOMAIN SnacBase, none \in {<<>>, <<4, 2, 1>>} :
          SnacFields(SnacBase, Leave([SnacBase EXCEPT !.vq_strides = none], keys)) = SnacBase
    /\ TokenIds([suppress_tokens |-> <<1, -1, 7>>], "suppress_tokens") = <<1, 7>> /\ TokenIds(<<>>, "suppress_tokens") = <<>>
    /\ \A m \in Trained, sparse \in BOOLEAN :
        LET cfg == HfConfig(m, sparse)
        IN  /\ from_json_str(cfg) = AsTrained(m, m.arch)
            /\ from_json_str(Composite(m, cfg, sparse)) = AsTrained(m, m.arch)
            /\ from_gguf_metadata(GgufMetadata(m, sparse)) = AsTrained(m, m.ggufArch)

-----------------------------------------------------------------------------
(* The file and the tokenizer.                                             *)

\* gguf_preference_score, of the fragments of a file name.
gguf_preference_score(name) ==
    FirstMatch(<< <<{{"Q4_K_M"}}, 100>>, <<{{"Q5_K_M"}}, 96>>, <<{{"Q8_0"}}, 94>>, <<{{"Q4_0"}}, 85>>, <<{{"Q5_0"}}, 80>>,
                  <<{{"Q6_K"}}, 75>>, <<{{"Q4_K_S"}}, 70>>, <<{{"Q5_K_S"}}, 65>>, <<{{"Q3_K_M"}}, 55>>, <<{{"Q3_K_S"}}, 50>>,
                  <<{{"Q4_K"}}, 60>>, <<{{"Q5_K"}}, 58>>, <<{{"Q3_K"}}, 45>>, <<{{"Q2_K"}}, 30>>, <<{{"F32"}}, 10>>,
                  <<{{"F16"}, {"BF16"}}, 5>> >>, name, 20)

\* max_by_key: the last of the best.
Best(files) ==
    LET best(i) == \A j \in DOMAIN files : \/ gguf_preference_score(files[j]) < gguf_preference_score(files[i])
                                           \/ gguf_preference_score(files[j]) = gguf_preference_score(files[i]) /\ j <= i
    IN  files[CHOOSE i \in DOMAIN files : best(i)]

\* select_best_gguf: SAPIENT_GGUF_QUANT, where it matches, comes first.
select_best_gguf(files, want) ==
    LET ggufs == SelectSeq(files, LAMBDA n : ".gguf" \in n)
        hits == SelectSeq(ggufs, LAMBDA n : want \in n)
    IN  IF ggufs = <<>> THEN {} ELSE IF hits # <<>> THEN Best(hits) ELSE Best(ggufs)

\* tokenizer_fallback_model, of the fragments of a repository, model or architecture name.
tokenizer_fallback_model(id) ==
    FirstMatch(<< <<{{"orpheus"}}, "Orpheus">>, <<{{"smollm"}}, "SmolLM2">>, <<{{"deepseek", "qwen"}}, "R1-Qwen">>,
                  <<{{"deepseek"}}, "R1-Llama">>, <<{{"llama-2"}, {"llama2"}}, "Llama-2">>,
                  <<{{"llama-3"}, {"llama3"}, {"=llama"}}, "Llama-3.1">>, <<{{"mixtral"}}, "Mistral-v0.2">>,
                  <<{{"glm-4.5"}, {"glm4.5"}, {"glm4moe"}}, "GLM-4.5">>,
                  <<{{"mistral", "v0.1"}, {"mistral", "v0.2"}, {"ministral", "v0.1"}, {"ministral", "v0.2"}}, "Mistral-v0.1">>,
                  <<{{"mistral"}, {"ministral"}}, "Mistral-v0.3">>, <<{{"codellama"}, {"code-llama"}}, "CodeLlama">>,
                  <<{{"phi-4"}, {"phi4"}, {"phi 4"}}, "Phi-4-mini">>, <<{{"phi-3"}, {"phi3"}}, "Phi-3-mini">>,
                  <<{{"phi-2"}, {"phi2"}}, "Phi-2">>, <<{{"gemma-2"}, {"gemma2"}}, "Gemma-2">>, <<{{"gemma"}}, "Gemma">>,
                  <<{{"qwen2.5"}, {"qwen-2.5"}}, "Qwen2.5">>, <<{{"qwen2"}, {"qwen-2"}, {"qwen"}}, "Qwen2">> >>, id, "none")

\* gguf_tokenizer_repo: by the name in the file, else by its architecture.
gguf_tokenizer_repo(name, model_type) ==
    LET byName == tokenizer_fallback_model(name)
    IN  IF byName # "none" THEN byName ELSE tokenizer_fallback_model(model_type)

Vocabulary(tokenizer) ==
    CASE tokenizer \in {"Qwen2", "Qwen2.5"} -> "Qwen2"
      [] tokenizer \in {"Mistral-v0.1", "Mistral-v0.2"} -> "Mistral-v0.1"
      [] OTHER -> tokenizer

\* The GGUF repositories of the catalog: the fragments of their names, those of the names in
\* their files, which have spaces for dashes, their architecture, and their vocabulary.
GgufRepos ==
    {<<{"phi-2"}, {"phi2"}, {"phi2"}, "Phi-2">>, <<{"mixtral", "v0.1"}, {"mixtral", "mistral", "v0.1"}, {"=llama"}, "Mistral-v0.1">>,
     <<{"glm-4.5"}, {"glm-4.5"}, {"glm4moe"}, "GLM-4.5">>, <<{"qwen", "qwen2", "qwen2.5"}, {"qwen", "qwen2", "qwen2.5"}, {"qwen2", "qwen"}, "Qwen2">>,
     <<{"smollm"}, {"smollm"}, {"=llama"}, "SmolLM2">>, <<{"llama-3"}, {}, {"=llama"}, "Llama-3.1">>,
     <<{"mistral"}, {"mistral"}, {"=llama"}, "Mistral-v0.3">>, <<{"deepseek"}, {"deepseek"}, {"=llama"}, "R1-Llama">>,
     <<{"deepseek", "qwen"}, {"deepseek", "qwen"}, {"qwen2", "qwen"}, "R1-Qwen">>, <<{"phi-4"}, {"phi 4"}, {"phi3"}, "Phi-4-mini">>,
     <<{"phi-3"}, {}, {"phi3"}, "Phi-3-mini">>, <<{"orpheus"}, {"orpheus"}, {"=llama"}, "Orpheus">>}

Quants == {{"Q4_K", "Q4_K_M"}, {"Q4_K", "Q4_K_S"}, {"Q8_0"}, {"Q4_0"}, {"Q6_K"}, {"Q3_K"}, {"Q2_K"}, {"IQ4_XS"}}
Floats == {{"F16"}, {"F16", "BF16"}, {"F32"}}
Files == {n \cup {".gguf"} : n \in Quants \cup Floats} \cup {{"config.json"}}

\* The file is a quantised one if there is one, Q4_K_M before all, Q2_K and the float formats last,
\* and the one asked for if it is there; the tokenizer has the vocabulary of the model, whichever
\* name it is looked up by.
FileAndTokenizerFit ==
    /\ \A a, b \in Files, want \in {"none", "Q4_K_S", "F16"} :
          LET files == <<a, b>>
              chosen == select_best_gguf(files, want)
              ggufs == {n \in {a, b} : ".gguf" \in n}
              bits(n) == n \ {".gguf"}
              wanted == {n \in ggufs : want \in n}
          IN  IF ggufs = {} THEN chosen = {}
              ELSE /\ chosen \in IF wanted # {} THEN wanted ELSE ggufs
                   /\ wanted = {} =>
                        /\ bits(chosen) \in Floats => \A n \in ggufs : bits(n) \in Floats
                        /\ "Q2_K" \in chosen => \A n \in ggufs : bits(n) \in Floats \cup {{"Q2_K"}, {"IQ4_XS"}}
                        /\ (\E n \in ggufs : "Q4_K_M" \in n) => "Q4_K_M" \in chosen
    /\ \A r \in GgufRepos : /\ Vocabulary(tokenizer_fallback_model(r[1])) = r[4]
                            /\ Vocabulary(gguf_tokenizer_repo(r[2], r[3])) = r[4]

-----------------------------------------------------------------------------
(* Names.                                                                  *)

\* edit_distance, row by row.
edit_distance(a, b) ==
    LET d[i \in 0 .. Len(a), j \in 0 .. Len(b)] ==
            IF i = 0 THEN j
            ELSE IF j = 0 THEN i
            ELSE Min({d[i - 1, j] + 1, d[i, j - 1] + 1, d[i - 1, j - 1] + (IF a[i] = b[j] THEN 0 ELSE 1)})
    IN  d[Len(a), Len(b)]

\* A model is the sequence of its names; the catalog, of its models (each of a repository of its own).
lookup(catalog, name) == SelectSeq(catalog, LAMBDA m : name \in ToSet(m))

\* fuzzy_candidates: one is the beginning of the other; without any such, names with few typos.
fuzzy_candidates(catalog, name, long) ==
    LET near(m) == \E n \in ToSet(m) : IsPrefix(n, name) \/ IsPrefix(name, n)
        typo(m) == Len(name) >= long /\ \E n \in ToSet(m) : edit_distance(n, name) <= 2
        prefixed == SelectSeq(catalog, near)
    IN  IF name = <<>> THEN <<>> ELSE IF prefixed # <<>> THEN prefixed ELSE SelectSeq(catalog, typo)

\* resolve_model_alias: the model so named, else the only one that may be meant.
resolve_model_alias(catalog, name, long) ==
    LET exact == lookup(catalog, name)
        meant == fuzzy_candidates(catalog, name, long)
    IN  IF exact # <<>> THEN exact[1] ELSE IF Len(meant) = 1 THEN meant[1] ELSE <<>>

Letters == {1, 2}
Words(n) == UNION {[1 .. k -> Letters] : k \in 0 .. n}

\* The words one edit away: a letter more, less or changed.
OneEdit(w) ==
    {SubSeq(w, 1, i) \o <<c>> \o SubSeq(w, i + 1, Len(w)) : i \in 0 .. Len(w), c \in Letters}
    \cup {SubSeq(w, 1, i - 1) \o SubSeq(w, i + 1, Len(w)) : i \in DOMAIN w}
    \cup {[w EXCEPT ![i] = c] : i \in DOMAIN w, c \in Letters}
Within(w, k) ==
    LET reach[i \in 0 .. k] == IF i = 0 THEN {w} ELSE UNION {OneEdit(x) : x \in reach[i - 1]} \cup reach[i - 1]
    IN  reach[k]

\* Names that begin like one another, and names of different models that differ in one letter.
SmallCatalog == << << <<1, 2, 2>>, <<1, 2, 2, 1>> >>, << <<1, 2, 2, 2>> >>, << <<2, 1>>, <<2, 1, 1, 2, 1>> >> >>

\* The edit distance is the least number of edits; every name of the catalog stands for its own
\* model, also where it is the beginning of another's, and a name that is none of them is taken for
\* one only where no other model is as near: begins like it, or is within two edits of it.
NamesAreUnambiguous ==
    /\ \A a, b \in Words(3) : \A k \in 0 .. 3 : edit_distance(a, b) <= k <=> b \in Within(a, k)
    /\ \A i \in DOMAIN SmallCatalog : \A n \in ToSet(SmallCatalog[i]) : resolve_model_alias(SmallCatalog, n, 4) = SmallCatalog[i]
    /\ \A w \in Words(5) :
          LET m == resolve_model_alias(SmallCatalog, w, 4)
              begins(x) == \E n \in ToSet(x) : IsPrefix(n, w) \/ IsPrefix(w, n)
              typed(x) == \E n \in ToSet(x) : w \in Within(n, 2)
              others == ToSet(SmallCatalog) \ {m}
          IN  m # <<>> /\ w \notin ToSet(m) =>
                 IF begins(m) THEN \A x \in others : ~begins(x) ELSE typed(m) /\ \A x \in others : ~typed(x)

\* What a model is, which file and tokenizer are taken for it, and which name means it.
CatalogIsRight == ReadAsTrained /\ FileAndTokenizerFit /\ NamesAreUnambiguous
=============================================================================
