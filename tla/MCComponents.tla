---------------------------- MODULE MCComponents ----------------------------
(***************************************************************************)
(* Components on small instances, with the pure algorithms (the kernels    *)
(* of the matmuls, block formats, weights, engines, graphs) evaluated over *)
(* bounded inputs.                                                         *)
(***************************************************************************)
EXTENDS Components, GpuKernels, WeightNames, MixtureOfExperts, Functions

CONSTANTS r1, r2, r3, b1, b2, b3, b4

MCSizes == (b1 :> 1) @@ (b2 :> 1) @@ (b3 :> 2) @@ (b4 :> 4)

\* Requests differ only in what they ask for, so one order of each three demands is enough.
Demand(r) == (IF kind[r] = "audio" THEN 0 ELSE 2) + (IF model[r] = small THEN 0 ELSE 1)
DemandsInOrder == Demand(r1) <= Demand(r2) /\ Demand(r2) <= Demand(r3)

MCInit == AllInit /\ DemandsInOrder

MCSpec == MCInit /\ [][AllNext]_allVars /\ AllFairness

-----------------------------------------------------------------------------
(* The pure components: two blocks per row, at most four rows.             *)

NB == 2

\* Every weight a loaded tensor is read with is where the format has it, element by element:
\* to_f32_vec agrees with the loader, the quantisers write the nibbles it reads, and repacked
\* rows are read back where they came from.  (The loader's own Q5_K reader, which no loaded
\* tensor uses, takes the fifth bits of all elements from one byte.)
LoadedWeightsAreTheFile ==
    part = "kernels" =>
        /\ \A f \in ToSapientDtype : {p[1] : p \in ToF32(f)} = 0 .. BlockSize(f) - 1
        /\ \A f \in Formats : /\ {p[1] : p \in MakeTensor(f)} = 0 .. BlockSize(f) - 1
                              /\ Cardinality(MakeTensor(f)) = BlockSize(f)
                              /\ Cardinality({p[2] : p \in MakeTensor(f)}) = BlockSize(f)
        /\ \A f \in Formats : f \in ToSapientDtype \/ f = "Q5_0"
        /\ \A f \in Formats \ {"Q5_0", "Q5_K"} : DequantizeToF32(f) = ToF32(f)
        /\ QuantizeQ4_0 = ToF32_Q4_0 /\ QuantizeQ8_0 = ToF32_Q8_0
        /\ QuantizeInto = {<<i, i>> : i \in 0 .. QK - 1}
        /\ \A mv \in RepackRows4(8, NB) : LET at == UnpackR4(mv.dst, NB) IN mv.src = at[1] * NB + at[2]

FourRows == 0 .. 3

\* What the dot-product kernels of the CPU add up, in whatever order, lane and accumulator, is
\* the matrix product: for every output each weight once, as to_f32_vec reads it, with its own
\* activation and both of their scales, and each minimum with the sum of its own activations;
\* the packed six-bit scales and minima use every bit of their twelve bytes once.
CpuKernels ==
    part = "kernels" =>
        /\ \A K \in {DotQ4_0Scalar(NB), DotQ4_0Neon(NB)} : Accumulates(K, DotProducts("Q4_0", "f32", {0}, {0}, NB))
        /\ \A K \in {DotQ8_0Scalar("f32", NB), DotQ8_0Neon(NB), DotQ8_0Avx2(NB)} :
              Accumulates(K, DotProducts("Q8_0", "f32", {0}, {0}, NB))
        /\ \A K \in {DotQ8_0Scalar("q8", NB), DotQ8_0Sdot(NB)} : Accumulates(K, DotProducts("Q8_0", "q8", {0}, {0}, NB))
        /\ Accumulates(DotQ8_0SdotX4(NB, 7, 2), DotProducts("Q8_0", "q8", {0}, 2 .. 5, NB))
        /\ Accumulates(DotQ8_0x4x4(NB, 8, 4, 7, 2), DotProducts("Q8_0", "q8", 4 .. 7, 2 .. 5, NB))
        /\ \A act \in {"f32", "q8", "q8k"} :
              Accumulates(DotQ4_KMins(act, FourRows, {0, 1}, NB), MinProducts(act, FourRows, {0, 1}, NB))
        /\ \A K \in {dot_q4_k_row_f32_scalar(NB), DotQ4_KF32Neon(NB)} : Accumulates(K, DotProducts("Q4_K", "f32", {0}, {0}, NB))
        /\ \A K \in {dot_q4_k_row_q8_scalar(NB), dot_q4_k_row_q8_neon(NB)} : Accumulates(K, DotProducts("Q4_K", "q8", {0}, {0}, NB))
        /\ \A K \in {dot_q4_k_row_q8k_scalar(NB), dot_q4_k_row_q8k_neon(NB)} : Accumulates(K, DotProducts("Q4_K", "q8k", {0}, {0}, NB))
        /\ \A K \in {dot_q4_k_4rows_q8_neon(NB), dot_q4_k_4rows_r4_neon(NB)} : Accumulates(K, DotProducts("Q4_K", "q8", FourRows, {0}, NB))
        /\ \A K \in {dot_q4_k_4rows_q8k_neon(NB), dot_q4_k_4rows_r4_q8k_neon(NB)} : Accumulates(K, DotProducts("Q4_K", "q8k", FourRows, {0}, NB))
        /\ Accumulates(dot_q4_k_4rows_r4_x2_smmla(NB), DotProducts("Q4_K", "q8", FourRows, {0, 1}, NB))
        /\ Accumulates(dot_q4_k_4rows_r4_x2_q8k_smmla(NB), DotProducts("Q4_K", "q8k", FourRows, {0, 1}, NB))
        /\ \A K \in {DotQ5_KScalar(NB), DotQ5_KNeon(NB)} : Accumulates(K, DotProducts("Q5_K", "f32", {0}, {0}, NB))
        /\ \A K \in {DotQ6_KF32Scalar(NB), dot_q6_k_row_f32_neon(NB)} : Accumulates(K, DotProducts("Q6_K", "f32", {0}, {0}, NB))
        /\ \A K \in {dot_q6_k_row_q8_scalar(NB), dot_q6_k_row_q8_neon(NB)} : Accumulates(K, DotProducts("Q6_K", "q8", {0}, {0}, NB))
        /\ \A K \in {dot_q6_k_row_q8k_scalar(NB), dot_q6_k_row_q8k_neon(NB)} : Accumulates(K, DotProducts("Q6_K", "q8k", {0}, {0}, NB))
        /\ Accumulates(dot_q6_k_4rows_r4_neon(NB), DotProducts("Q6_K", "f32", FourRows, {0}, NB))
        /\ Accumulates(dot_q6_k_4rows_r4_q8_neon(NB), DotProducts("Q6_K", "q8", FourRows, {0}, NB))
        /\ Accumulates(dot_q6_k_4rows_r4_q8k_neon(NB), DotProducts("Q6_K", "q8k", FourRows, {0}, NB))
        /\ Accumulates(dot_q6_k_4rows_r4_x2_smmla(NB), DotProducts("Q6_K", "q8", FourRows, {0, 1}, NB))
        /\ Accumulates(dot_q6_k_4rows_r4_x2_q8k_smmla(NB), DotProducts("Q6_K", "q8k", FourRows, {0, 1}, NB))
        /\ \A j \in 0 .. 7 : Range(ScaleK4(j)) \cap Range(MinK4(j)) = {}
        /\ UNION {Range(ScaleK4(j)) \cup Range(MinK4(j)) : j \in 0 .. 7} = (0 .. 11) \X (0 .. 7)

\* Leftovers of every size in every plan: one to four threads, up to eleven activation rows, tails
\* of the dot products.
MCCalls ==
    LET c == [m |-> 1, n |-> 1, k |-> QK, eff |-> 3, rayon |-> 3, ncpus |-> 3, tpc |-> 0, tasks |-> 2,
              bytes |-> 4 * QK, threads |-> 1, large |-> TRUE]
    IN  {[c EXCEPT !.m = m, !.n = n, !.eff = eff] : m \in 1 .. 2, n \in 1 .. 40, eff \in 1 .. 3}
        \cup {[c EXCEPT !.m = m, !.n = n] : m \in 1 .. 5, n \in {4, 8, 36}}
        \cup {[c EXCEPT !.m = m, !.n = n, !.tasks = tasks, !.bytes = bytes] :
                 m \in {1, 7, 8, 9, 11}, n \in {1, 4, 5, 8, 9, 11, 13}, tasks \in {2, 4}, bytes \in {4 * QK, 8 * QK}}
        \cup {[c EXCEPT !.m = m, !.n = n, !.threads = threads] : m \in 2 .. 11, n \in {1, 3}, threads \in 1 .. 4}
        \cup {[c EXCEPT !.m = m, !.n = n] : m \in 1 .. 9, n \in 1 .. 9}
        \cup {[c EXCEPT !.k = k] : k \in 1 .. 40}

GpuFormats == {"Q4_K", "Q6_K", "Q8_0"}
GpuBlocks(f) == IF f = "Q8_0" THEN 2 ELSE 1

\* The GPU shaders read the uploaded words as the blocks they came from: both matmul shapes add
\* up the matrix product although threads past the last element or row compute clamped ones,
\* every output has one writer, embeddings are the rows of the table, and the KV cache and the
\* transpose put every element in a place of its own.
GpuShaders ==
    part = "kernels" =>
        /\ \A f \in GpuFormats :
              /\ Accumulates(MatmulGemv(f, 3, 2, GpuBlocks(f)), DotProducts(f, "f32", 0 .. 1, 0 .. 2, GpuBlocks(f)))
              /\ Accumulates(MatmulMt(f, 3, 2, NB), DotProducts(f, "f32", 0 .. 1, 0 .. 2, NB))
              /\ \A i \in 0 .. NB * BlockSize(f) - 1 :
                    \E p \in ToF32(f) : p[1] = i % BlockSize(f) /\ Embed(f, NB, 1, i) = <<1, i \div BlockSize(f), p[2]>>
        /\ Accumulates(MatmulF32(3, 2, 5),
                       {[out |-> x * 2 + w, w |-> w * 5 + i, x |-> x * 5 + i] : x \in 0 .. 2, w \in 0 .. 1, i \in 0 .. 4})
        /\ {GemvIdx(th[1], th[2]) : th \in GemvWrites(3, 3)} = 0 .. 8 /\ Cardinality(GemvWrites(3, 3)) = 9
        /\ \A pos \in 0 .. 3 :
              LET kv == KvAppend(2, 2, 4, 5, pos)
              IN  /\ \A i, j \in DOMAIN kv : kv[i] = kv[j] => i = j
                  /\ Range(kv) = {(h * 5 + s) * 4 + d : h \in 0 .. 1, s \in pos .. pos + 1, d \in 0 .. 3}
                  /\ \A j \in DOMAIN KvAppendF16(2, 2, 4, 5, pos) : KvAppendF16(2, 2, 4, 5, pos)[j] = kv[2 * j] \div 2
        /\ \A outer, inner \in 1 .. 3 :
              Range(TransposeHeads(outer, inner, 2)) = 0 .. outer * inner * 2 - 1

\* The exception: the sign of a negative weight is added to its exponent, as its sixth bit.
SignReachesExponent(bits) == Half(bits).sign = 1

\* "Normal F16 values: sign | ((exp16 + 112) << 23) | (mantissa << 13)": the NEON dot product
\* reads a positive normal weight as to_f32 does.  A negative one it multiplies by 2^32.
HalfWeights ==
    part = "kernels" =>
        \A bits \in NormalHalves :
            NeonF16(bits) = IF SignReachesExponent(bits) THEN [ToF32_F16(bits) EXCEPT !.exp = @ + 32]
                            ELSE ToF32_F16(bits)

\* Every weight of a quantised format is the file's, and every kernel of the CPU for these
\* formats and every matmul shader adds up the matrix product of them.  The float kernels
\* multiply the elements that PlansWriteEachCellOnce has them visit; what is left to say of
\* them is the value of an F16 weight, which is wrong for the negative ones on aarch64.
KernelsAccumulate == LoadedWeightsAreTheFile /\ CpuKernels /\ GpuShaders /\ HalfWeights

-----------------------------------------------------------------------------
(* Tensors between the projections and the output head.                    *)

\* The old and new elements of a buffer of two heads, two elements each.
OldBuf == [o \in Flat(2 * KVCTX * 2) |-> <<"old", o>>]
NewBuf(n) == [o \in Flat(2 * n * 2) |-> <<"new", o>>]
Column(x, room, h, e) == [i \in 1 .. room |-> x[(h * room + i - 1) * 2 + e]]

\* Every element arrives where the next step reads it: heads are split and merged without a
\* trace, a file stored for ggml's rotary pairs is rotated as the checkpoint would be, the cache
\* slides and grows per head as ForwardEngines has it per layer (packed blocks as plain floats),
\* attention reads the key/value head its query shares and nothing of another, and a fused or
\* pooled row is the one it should be.
TensorsLineUp ==
    part = "kernels" =>
        /\ \A seq, heads \in 1 .. 3 :
              LET x == Named(seq, heads, 2)
              IN  /\ SplitHeads(x, seq, heads, 2) = HeadMajor(seq, heads, 2)
                  /\ Permute(x, <<1, seq, heads, 2>>, <<1, 3, 2, 4>>) = SplitHeads(x, seq, heads, 2)
                  /\ MergeHeads(SplitHeads(x, seq, heads, 2), seq, heads, 2) = x
                  /\ \A more \in 1 .. 2 :
                        LET later == [o \in DOMAIN HeadMajor(more, heads, 2) |->
                                         [HeadMajor(more, heads, 2)[o] EXCEPT ![1] = @ + seq]]
                        IN  AppendKv(HeadMajor(seq, heads, 2), later, heads, seq, more, 2) = HeadMajor(seq + more, heads, 2)
        /\ \A heads \in 1 .. 2, hd \in {2, 4, 6} :
              LET hf == [r \in Flat(heads * hd) |-> r]
                  turned(x) == ApplyRope(x, <<7>>, heads, 1, hd)
                  head(x, h) == {x[r] : r \in {r \in Flat(heads * hd) : r \div hd = h}}
              IN  /\ \A h \in Flat(heads) : head(turned(UnpermuteQkRows(hf, heads, hd)), h) = head(NormRope(hf, 7, hd), h)
                  /\ ApplyRopePartial(hf, <<7>>, heads, 1, hd, hd) = turned(hf)
                  /\ \A r \in Flat(heads * hd) : r % hd >= 2 => ApplyRopePartial(hf, <<7>>, heads, 1, hd, 2)[r] = r
        /\ \A cur \in 0 .. KVCTX, n \in 1 .. KVCTX :
              LET q8 == UpdateKvQ8(OldBuf, 2, KVCTX, 2, cur, NewBuf(n), n)
                  f32 == UpdateKvF32(OldBuf, 2, KVCTX, 2, cur, NewBuf(n), n)
              IN  \A h, e \in 0 .. 1 :
                     LET old == Column(OldBuf, KVCTX, h, e)
                         new == Column(NewBuf(n), n, h, e)
                         plain == UpdateKvCache(old, cur, new)
                         coded == UpdateKvCache(old, cur, [i \in 1 .. n |-> Q8(new[i])])
                     IN  /\ Column(f32, KVCTX, h, e) = plain.cache
                         /\ Column(LivePrefix(f32, 2, KVCTX, 2, plain.total), plain.total, h, e)
                              = SubSeq(plain.cache, 1, plain.total)
                         /\ Column(q8.buf, KVCTX, h, e) = coded.cache
                         /\ Column(q8.out, coded.total, h, e) = SubSeq(coded.cache, 1, coded.total)
        /\ \A shape \in {<<2, 1>>, <<4, 2>>, <<2, 2>>}, seqQ \in 1 .. 2, seqK \in 2 .. 3 :
              LET heads == shape[1]
                  kvHeads == shape[2]
                  q == HeadMajor(seqQ, heads, 2)
                  kv == HeadMajor(seqK, kvHeads, 2)
                  merged == MergeHeads([o \in DOMAIN q |-> o], seqQ, heads, 2)
              IN  \A at \in DOMAIN merged :
                     LET r == AttentionReads(heads, kvHeads, seqQ, seqK, 2, merged[at])
                         to == Named(seqQ, heads, 2)[at]
                         kvHead == to[2] \div (heads \div kvHeads)
                     IN  /\ {q[o] : o \in r.q} = {<<to[1], to[2], d>> : d \in 0 .. 1}
                         /\ {kv[o] : o \in r.k} = {<<s, kvHead, d>> : s \in Flat(seqK), d \in 0 .. 1}
                         /\ {kv[o] : o \in r.v} = {<<s, kvHead, to[3]>> : s \in Flat(seqK)}
        /\ \A seqQ \in 1 .. 3, seqK \in 1 .. 4, qi \in 0 .. 2 :
              qi < seqQ /\ seqQ <= seqK => MlxVisible(seqQ, seqK, qi) = 0 .. qi + (seqK - seqQ)
        /\ \A ps \in {<<>>, <<3>>, <<0, 1>>, <<2, 3, 4>>, <<0, 2>>, <<1, 0>>}, disabled, fails \in BOOLEAN :
              MetalOp("rope", 2, 1, ps, disabled, fails, MlxRope(ps), ps) = ps
        /\ \A heads \in 1 .. 2, live \in 1 .. 3, hd \in {32, 48, 64} :
              CacheIsPacked(hd) \/ heads = 1 \/ live = 3 \/ ~MlxSdpaSupportedHeadDim(hd)
                                                          \/ MlxViewReads(heads, live, hd) = ViewIs(heads, live, 3, hd)
        /\ \A rows, inter \in 1 .. 3 :
              LET fused == Named(rows, 2, inter)
              IN  /\ GateOf(fused, rows, inter) = [o \in Flat(rows * inter) |-> <<o \div inter, 0, o % inter>>]
                  /\ UpOf(fused, rows, inter) = [o \in Flat(rows * inter) |-> <<o \div inter, 1, o % inter>>]
                  /\ LastRow(fused, rows, 2 * inter) = RowOf(fused, 2 * inter, rows - 1)
                  /\ MeanPool(fused, rows, 2 * inter)
                       = [i \in Flat(2 * inter) |-> {RowOf(fused, 2 * inter, t)[i] : t \in Flat(rows)}]

\* Models of one to eleven layers, by what a file of theirs looks like.
Llama == [arch |-> "llama", prefix |-> "model.", tied |-> FALSE, bias |-> FALSE, layers |-> 2, experts |-> 0, firstDense |-> 0,
          shared |-> FALSE, gguf |-> TRUE, form |-> "stacked"]
Glm == [Llama EXCEPT !.arch = "glm4moe", !.bias = TRUE, !.experts = 2, !.firstDense = 1, !.shared = TRUE]
GgufModels ==
    {Llama, [Llama EXCEPT !.tied = TRUE], [Llama EXCEPT !.arch = "qwen2", !.bias = TRUE], Glm,
     [Llama EXCEPT !.experts = 3], [Llama EXCEPT !.experts = 3, !.form = "each"],
     [Llama EXCEPT !.arch = "phi2"], [Llama EXCEPT !.arch = "phi3"]}
HfModels ==
    {[Llama EXCEPT !.gguf = FALSE, !.prefix = p, !.tied = t, !.bias = b] :
        p \in Range(PrefixCandidates) \cup {"", "text."}, t, b \in BOOLEAN}
    \cup {[Glm EXCEPT !.gguf = FALSE], [Llama EXCEPT !.gguf = FALSE, !.arch = "phi2"], [Llama EXCEPT !.gguf = FALSE, !.layers = 11]}
GemmaModels == {[Llama EXCEPT !.gguf = FALSE, !.arch = "gemma3", !.tied = TRUE, !.prefix = p] : p \in {"model.", "language_model.model."}}

\* The biases outside the layers that the GGUF loader skips.
SkippedBiases(m) == {k \in Checkpoint(m) : m.gguf /\ KeyLayer(k) = None /\ Kind(k) = "bias"}

\* Slots hold exactly the checkpoint: every tensor of it is found under its own name, row by row.
HoldTheCheckpoint(found, m) ==
    LET embed == Key(m.prefix, None, "embed_tokens", "weight")
    IN  {<<s.key, s.tensor.rows>> : s \in found}
          = {<<SubSeq(k, 2, 5), Tensor(k, "").rows>> : k \in Checkpoint(m) \ SkippedBiases(m)}
            \cup IF m.tied THEN {<< <<None, "lm_head", None, "weight">>, Tensor(embed, "").rows>>} ELSE {}

\* Exactly the projections are quantised, once.
TreatedAlike(found) ==
    \A s \in found : s.tensor.dtype = IF s.key[2] \in NormParts \cup {"embed_tokens", "lm_head", Router, Correction} \/ s.key[4] = "bias"
                                      THEN "F16" ELSE "Q8_0"

\* However a file names, permutes, fuses, stacks and shards the tensors, every engine multiplies
\* with the rows of the checkpoint, in their order, and misses none; the CPU and the GPU engine
\* quantise the same ones, and 1 is added to Gemma's norms and to nothing else.
WeightsAreTheCheckpoint ==
    part = "kernels" =>
        /\ \A m \in GgufModels :
              LET w == FromGguf(m)
                  dense == m.experts = 0
              IN  IF m.arch \in {"phi2", "phi3"} THEN HoldTheCheckpoint(PhiSlots(w, m), m)
                  ELSE /\ HoldTheCheckpoint(LlamaSlots(w, m), m)
                       /\ dense => HoldTheCheckpoint(WgpuSlots(w, m), m) /\ HoldTheCheckpoint(MlxSlots(w, m), m)
        /\ \A m \in HfModels, quantized \in BOOLEAN :
              LET w == LoadHfWeights(m, quantized)
                  cpu == IF m.arch = "phi2" THEN PhiSlots(w, m) ELSE LlamaSlots(w, m)
              IN  /\ HoldTheCheckpoint(cpu, m) /\ TreatedAlike(cpu)
                  /\ m.arch = "llama" => /\ WgpuSlots(w, m) = cpu
                                         /\ HoldTheCheckpoint(MlxSlots(w, m), m)
        /\ \A m \in GemmaModels :
              LET vision == Key("vision_tower.", 0, "self_attn.q_proj", "weight")
                  found == GemmaSlots(LoadHfWeights(m, FALSE) @@ (vision :> Tensor(vision, "F16")), m)
              IN  /\ HoldTheCheckpoint(found, m)
                  /\ \A s \in found : /\ s.tensor.added = IF s.key[2] \in NormParts THEN 1 ELSE 0
                                      /\ s.tensor.dtype = IF s.key[2] \in NormParts THEN "F16" ELSE "Q8_0"

\* Memory in gigabytes.
MCBinaries == [mac : BOOLEAN, arm : BOOLEAN, mlx : BOOLEAN, wgpu : BOOLEAN, adapter : BOOLEAN, ram : {0, 2, 6, 14}]
MCEngineModels == [arch : Archs, gguf : BOOLEAN, moe : BOOLEAN, headDim : {64, 80}, layers : {2, 8}, bytes : {1, 8, 12, 20}]

Graphs == INSTANCE IrGraph

\* What a model file says is what its graph computes: however the sources of the topological order
\* are shuffled, the inferred shapes are those of the values, and every operator that succeeds
\* has the value ONNX gives it, before the passes and after them; the kernels reduce, normalise
\* and convolve along the right axes and a batch keeps its requests apart.
GraphsCompute == part = "kernels" => Graphs!GraphsAreComputed(2)

Scores == [1 .. 3 -> 0 .. 1]

Layers == INSTANCE LayerGraphs

\* Whatever the gate says, also in a tie, with fewer experts than k, or with a bias that only
\* shifts the choice: every token gets the experts that rank best for it, once each, applied to
\* its own row and weighted by its own scores, although experts run over batches of tokens.
RoutedToTheBest ==
    part = "kernels" =>
        \A s1, s2 \in Scores, bias \in {<<0, 0, 0>>, <<0, 0, 1>>, <<2, 0, 0>>}, k \in 1 .. 4, shared \in BOOLEAN :
            MoeFfn(<<"a", "b">>, <<s1, s2>>, bias, k, shared, shared)
                = Reference(<<"a", "b">>, <<s1, s2>>, bias, k, shared, shared)

Perception == INSTANCE PerceptionEngines

\* Every engine computes the network of its model's family, layer by layer: the decoders with a
\* token or a chunk of them, with a cache or without one, with residuals and gates folded into
\* kernels or not, on heads that lie by position or by head, and with the experts the router chose
\* (the graphs of architectures/ draw the same networks; where they do not, LayerGraphs says how);
\* Whisper on both devices over calls in any order, SigLIP tiled or in int8, and SmolVLA with its
\* padding dropped, its weights padded, and its chunk continuing the queue; and what Whisper's logits
\* say becomes a transcript in windows, with timestamps, streamed, or by beams.
EnginesComputeTheDecoder ==
    /\ part = "kernels" => /\ Layers!EnginesComputeTheDecoder /\ Layers!GraphsDrawTheDecoder
                           /\ Perception!WhisperHears /\ Perception!SiglipSees /\ Perception!SmolVlaActs
                           /\ Perception!PolicyActs /\ Perception!SpeechBecomesText
    /\ RoutedToTheBest

Catalog == INSTANCE ModelCatalog

\* What a model is, which file and tokenizer are taken for it, and which name means it.
ModelsAreKnown == part = "kernels" => Catalog!CatalogIsRight
=============================================================================
