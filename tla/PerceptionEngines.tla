--------------------------- MODULE PerceptionEngines ---------------------------
(***************************************************************************)
(* The engines that hear, see and act (sapient-models, forward/): Whisper  *)
(* on the CPU and on wgpu, SigLIP, SmolVLA and the pipeline around it.  A  *)
(* tensor is the sequence of its rows; a row is the expression of          *)
(* LayerGraphs it was computed by, so that two rows are equal when they    *)
(* were computed alike, whichever device computed them.                    *)
(***************************************************************************)
EXTENDS LayerGraphs, Sequences, FiniteSets

Seqs == INSTANCE SequencesExt

Tuple(n, f(_)) == <<>> \o [i \in 1 .. n |-> f(i)]
Rows(x, f(_)) == Tuple(Len(x), LAMBDA i : f(x[i]))
Sum(x, y) == Tuple(Len(x), LAMBDA i : Add(x[i], y[i]))

HEADS == 2
Part(h, row) == V("head", W(h, ""), <<row>>)

\* The row of a number of parts.
Whole(parts) ==
    IF parts[1].op = "head" /\ \A h \in DOMAIN parts : parts[h] = Part(h - 1, parts[1].in[1]) THEN parts[1].in[1]
    ELSE V("heads", Plain, parts)

\* A buffer of parts: by row as rows have them, and by head, as attention reads them.
Cells(n, f(_)) == Tuple(n, LAMBDA c : f(c - 1))
At(cells, c) == cells[c + 1]
ByRow(x) == Cells(HEADS * Len(x), LAMBDA c : Part(c % HEADS, x[(c \div HEADS) + 1]))
RowsOf(cells, seq) == Tuple(seq, LAMBDA i : Whole(SubSeq(cells, HEADS * (i - 1) + 1, HEADS * i)))

\* Transposes a by b parts.
transpose(cells, a, b) == Cells(a * b, LAMBDA c : At(cells, (c % a) * b + (c \div a)))
Split(x) == transpose(ByRow(x), Len(x), HEADS)
Merge(cells, seq) == RowsOf(transpose(cells, HEADS, seq), seq)

\* Query i of seq reads those of the first total keys that its mask shows, in buffers that give
\* every head room for stride rows.
Attention(q, k, v, seq, total, stride, causal) ==
    Cells(HEADS * seq, LAMBDA c :
        LET first == (c \div seq) * stride + 1
            n == IF causal THEN (c % seq) + 1 + (total - seq) ELSE total
        IN  V("attention", Plain, <<At(q, c), SubSeq(k, first, first + n - 1), SubSeq(v, first, first + n - 1)>>))

-----------------------------------------------------------------------------
(* Whisper.  k_proj has no bias; everything else has one.                  *)

Unbiased(x, w) == Rows(x, LAMBDA r : V("linear", w, <<r>>))
Biased(x, w) == Rows(x, LAMBDA r : V("bias", w, <<V("linear", w, <<r>>)>>))
Normed(x, w) == Rows(x, LAMBDA r : LayerNorm(r, w))
Mlp(x, norm, fc1, fc2) == Sum(x, Biased(Rows(Biased(Normed(x, norm), fc1), Gelu), fc2))

\* A kernel of three columns.
Zero == V("zero", Plain, <<>>)
conv1d(x, w, pad, stride) ==
    Tuple(((Len(x) + (2 * pad) - 3) \div stride) + 1,
          LAMBDA t : V("conv", w, Tuple(3, LAMBDA k : LET i == (t - 1) * stride + k - pad
                                                      IN  IF i \in DOMAIN x THEN x[i] ELSE Zero)))

\* The columns of the stem are the rows of the encoder.
conv_stem(mel) == Rows(conv1d(Rows(conv1d(mel, W(-1, "conv1"), 1, 1), Gelu), W(-1, "conv2"), 1, 2), Gelu)

Position(i, which) == V("position", W(i, which), <<>>)
add_positions(x, which, start) == Tuple(Len(x), LAMBDA i : Add(x[i], Position(start + i - 1, which)))

ENC == 100   \* names of the encoder's weights: layer l of it is ENC + l
ENC_LAYERS == 1
MAX_TARGET == 4

Over(layers, x0, f(_, _)) ==
    LET after[n \in 0 .. layers] == IF n = 0 THEN x0 ELSE f(after[n - 1], n - 1) IN after[layers]

\* The keys and values of some rows, by head.
KvOf(normed, wk, wv) == [k |-> Split(Unbiased(normed, wk)), v |-> Split(Biased(normed, wv)), rows |-> Len(normed)]

\* Attention and its residual: proj_split, sdpa_merge and out_proj; on wgpu, transpose_heads,
\* attention, transpose_heads and out_proj.
AttnBlock(x, normed, wq, wo, kv, total, stride, causal) ==
    LET q == Split(Biased(normed, wq))
    IN  Sum(x, Biased(Merge(Attention(q, kv.k, kv.v, Len(x), total, stride, causal), Len(x)), wo))

\* The MLP of a layer of WhisperForward.
mlp(x, l) == Mlp(x, W(l, "final_layer_norm"), W(l, "fc1"), W(l, "fc2"))

\* encode of WhisperForward.
CpuEncoderLayer(x, normed, l) ==
    mlp(AttnBlock(x, normed, W(l, "self_attn.q_proj"), W(l, "self_attn.out_proj"),
                  KvOf(normed, W(l, "self_attn.k_proj"), W(l, "self_attn.v_proj")), Len(x), Len(x), FALSE), l)
CpuEncode(mel) ==
    LET layer(x, l) == CpuEncoderLayer(x, Normed(x, W(ENC + l, "self_attn_layer_norm")), ENC + l)
    IN  Normed(Over(ENC_LAYERS, add_positions(conv_stem(mel), "encoder", 0), layer), W(ENC, "layer_norm"))

\* The weights of a layer on the GPU, by the names of its buffers.
EncLayer(l) ==
    [ln1 |-> W(l, "self_attn_layer_norm"), wq |-> W(l, "self_attn.q_proj"), wk |-> W(l, "self_attn.k_proj"), wv |-> W(l, "self_attn.v_proj"),
     wo |-> W(l, "self_attn.out_proj"), ln2 |-> W(l, "final_layer_norm"), fc1 |-> W(l, "fc1"), fc2 |-> W(l, "fc2")]
DecLayer(l) ==
    [sln |-> W(l, "self_attn_layer_norm"), sq |-> W(l, "self_attn.q_proj"), sk |-> W(l, "self_attn.k_proj"), sv |-> W(l, "self_attn.v_proj"),
     so |-> W(l, "self_attn.out_proj"), cln |-> W(l, "encoder_attn_layer_norm"), cq |-> W(l, "encoder_attn.q_proj"),
     ck |-> W(l, "encoder_attn.k_proj"), cv |-> W(l, "encoder_attn.v_proj"), co |-> W(l, "encoder_attn.out_proj"),
     fln |-> W(l, "final_layer_norm"), fc1 |-> W(l, "fc1"), fc2 |-> W(l, "fc2")]

\* encode of WhisperWgpuEngine, up to the audio context.
GpuEncoderLayer(x, normed, w) ==
    Mlp(AttnBlock(x, normed, w.wq, w.wo, KvOf(normed, w.wk, w.wv), Len(x), Len(x), FALSE), w.ln2, w.fc1, w.fc2)
GpuEncode(mel) ==
    LET layer(x, l) == GpuEncoderLayer(x, Normed(x, EncLayer(ENC + l).ln1), EncLayer(ENC + l))
    IN  Normed(Over(ENC_LAYERS, add_positions(conv_stem(mel), "encoder", 0), layer), W(ENC, "layer_norm"))

\* What the two engines keep between calls: the CPU's caches grow, the GPU's are buffers with room
\* for MAX_TARGET rows per head.
NoRows == <<>>
NoCell == V("uninitialised", Plain, <<>>)
NewCpu(layers) == [cross |-> Tuple(layers, LAMBDA l : NoRows), self |-> Tuple(layers, LAMBDA l : NoRows), len |-> 0]
Buffer == Cells(HEADS * MAX_TARGET, LAMBDA c : NoCell)
NewGpu(layers) == [cross |-> Tuple(layers, LAMBDA l : NoRows),
                   self |-> Tuple(layers, LAMBDA l : [k |-> Buffer, v |-> Buffer]), len |-> 0, ctx |-> 0]

\* set_audio_context, and the end of encode on wgpu: each layer's keys and values of the audio.
CpuSetContext(s, ctx) ==
    [s EXCEPT !.cross = Tuple(Len(@), LAMBDA l : KvOf(ctx, W(l - 1, "encoder_attn.k_proj"), W(l - 1, "encoder_attn.v_proj")))]
GpuSetContext(s, ctx) ==
    [s EXCEPT !.cross = Tuple(Len(@), LAMBDA l : KvOf(ctx, DecLayer(l - 1).ck, DecLayer(l - 1).cv)), !.ctx = Len(ctx)]

CpuReset(s) == [s EXCEPT !.self = Rows(@, LAMBDA kv : NoRows), !.len = 0]
GpuReset(s) == [s EXCEPT !.len = 0]

\* Every head's new rows behind its old ones.
append_cells(prev, new, s_old, s_new) ==
    Cells(HEADS * (s_old + s_new), LAMBDA c :
        LET h == c \div (s_old + s_new)
            i == c % (s_old + s_new)
        IN  IF i < s_old THEN At(prev, h * s_old + i) ELSE At(new, h * s_new + i - s_old))
append_kv(prev, new) ==
    IF prev = NoRows THEN new
    ELSE [k |-> append_cells(prev.k, new.k, prev.rows, new.rows), v |-> append_cells(prev.v, new.v, prev.rows, new.rows),
          rows |-> prev.rows + new.rows]

DecEmbedded(tokens, start) == add_positions(Rows(tokens, LAMBDA t : Input(t)), "decoder", start)
DecLogits(x) == V("linear", W(-1, "proj_out"), <<LayerNorm(x[Len(x)], W(-1, "layer_norm"))>>)
Refuses(s, tokens) == tokens = <<>> \/ s.len + Len(tokens) > MAX_TARGET \/ \E l \in DOMAIN s.cross : s.cross[l] = NoRows

\* decode_step of WhisperForward, layer by layer: self-attention, cross-attention, MLP.
CpuCross(x, normed, l, cross) ==
    mlp(AttnBlock(x, normed, W(l, "encoder_attn.q_proj"), W(l, "encoder_attn.out_proj"), cross, cross.rows, cross.rows, FALSE), l)
CpuSelf(x, normed, l, kv) ==
    AttnBlock(x, normed, W(l, "self_attn.q_proj"), W(l, "self_attn.out_proj"), kv, kv.rows, kv.rows, TRUE)
CpuCrossed(s, x, l) == CpuCross(x, Normed(x, W(l, "encoder_attn_layer_norm")), l, s.cross[l + 1])
CpuLayer(s, st, l, normed, kv) ==
    [x |-> CpuCrossed(s, CpuSelf(st.x, normed, l, kv), l), self |-> [st.self EXCEPT ![l + 1] = kv]]
CpuAppended(s, st, l, normed) ==
    CpuLayer(s, st, l, normed, append_kv(st.self[l + 1], KvOf(normed, W(l, "self_attn.k_proj"), W(l, "self_attn.v_proj"))))
Answer(s, seq, end) == [s |-> [s EXCEPT !.self = end.self, !.len = @ + seq], out |-> DecLogits(end.x)]
CpuDecode(s, tokens) ==
    LET layer(st, l) == CpuAppended(s, st, l, Normed(st.x, W(l, "self_attn_layer_norm")))
    IN  IF Refuses(s, tokens) THEN [s |-> s, out |-> Error]
        ELSE Answer(s, Len(tokens), Over(Len(s.self), [x |-> DecEmbedded(tokens, s.len), self |-> s.self], layer))

\* The rows of each head, copied to its slot from row start on.
CopyRange(buffer, cells, start, seq) ==
    Cells(HEADS * MAX_TARGET, LAMBDA c :
        LET h == c \div MAX_TARGET
            i == (c % MAX_TARGET) - start
        IN  IF i \in 0 .. seq - 1 THEN At(cells, h * seq + i) ELSE At(buffer, c))

\* decode_step of WhisperWgpuEngine.
GpuCross(x, w, cross, kv_seq) ==
    Mlp(AttnBlock(x, Normed(x, w.cln), w.cq, w.co, cross, kv_seq, kv_seq, FALSE), w.fln, w.fc1, w.fc2)
GpuSelf(x, normed, w, kv, total) == AttnBlock(x, normed, w.sq, w.so, kv, total, MAX_TARGET, TRUE)
GpuLayer(s, st, l, w, normed, kv) ==
    [x |-> GpuCross(GpuSelf(st.x, normed, w, kv, s.len + Len(normed)), w, s.cross[l + 1], s.ctx),
     self |-> [st.self EXCEPT ![l + 1] = kv]]
GpuCopied(s, st, l, w, normed, new) ==
    GpuLayer(s, st, l, w, normed, [k |-> CopyRange(st.self[l + 1].k, new.k, s.len, new.rows),
                                   v |-> CopyRange(st.self[l + 1].v, new.v, s.len, new.rows)])
GpuAppended(s, st, l, w, normed) == GpuCopied(s, st, l, w, normed, KvOf(normed, w.sk, w.sv))
GpuDecode(s, tokens) ==
    LET layer(st, l) == GpuAppended(s, st, l, DecLayer(l), Normed(st.x, DecLayer(l).sln))
    IN  IF Refuses(s, tokens) THEN [s |-> s, out |-> Error]
        ELSE Answer(s, Len(tokens), Over(Len(s.self), [x |-> DecEmbedded(tokens, s.len), self |-> s.self], layer))

-----------------------------------------------------------------------------
(* What Whisper is: attention row by row, over whole sequences.            *)

SeesRows(i, kept, q, k, v) ==
    V("heads", Plain, Tuple(HEADS, LAMBDA h :
        V("attention", Plain, <<Part(h - 1, q[i]), Tuple(kept, LAMBDA j : Part(h - 1, k[j])), Tuple(kept, LAMBDA j : Part(h - 1, v[j]))>>)))

Attends(x, qs, ks, vs, kept(_)) == Tuple(Len(x), LAMBDA i : SeesRows(i, kept(i), qs, ks, vs))
RefBlock(x, l, name, from, kept(_)) ==
    Sum(x, Biased(Attends(x, Biased(Normed(x, W(l, name \o "_layer_norm")), W(l, name \o ".q_proj")), Unbiased(from, W(l, name \o ".k_proj")),
                          Biased(from, W(l, name \o ".v_proj")), kept), W(l, name \o ".out_proj")))
RefSelf(x, l, kept(_)) == RefBlock(x, l, "self_attn", Normed(x, W(l, "self_attn_layer_norm")), kept)
RefMlp(x, l) ==
    Rows(x, LAMBDA r : Add(r, V("bias", W(l, "fc2"), <<V("linear", W(l, "fc2"), <<Gelu(V("bias", W(l, "fc1"), <<V("linear", W(l, "fc1"),
                           <<LayerNorm(r, W(l, "final_layer_norm"))>>)>>))>>)>>)))

AudioEncoder(mel) ==
    LET padded(x) == <<Zero>> \o x \o <<Zero>>
        conv(x, w, stride, n) == Tuple(n, LAMBDA t : Gelu(V("conv", w, SubSeq(padded(x), stride * (t - 1) + 1, stride * (t - 1) + 3))))
        stem == conv(conv(mel, W(-1, "conv1"), 1, Len(mel)), W(-1, "conv2"), 2, (Len(mel) + 1) \div 2)
        x0 == Tuple(Len(stem), LAMBDA i : Add(stem[i], Position(i - 1, "encoder")))
        block(x, l) == RefMlp(RefSelf(x, ENC + l, LAMBDA i : Len(x)), ENC + l)
    IN  Normed(Over(ENC_LAYERS, x0, block), W(ENC, "layer_norm"))

TextDecoder(layers, tokens, ctx) ==
    LET x0 == Tuple(Len(tokens), LAMBDA i : Add(Input(tokens[i]), Position(i - 1, "decoder")))
        block(x, l) == RefMlp(RefBlock(RefSelf(x, l, LAMBDA i : i), l, "encoder_attn", ctx, LAMBDA i : Len(ctx)), l)
    IN  DecLogits(Over(layers, x0, block))

\* Both engines after a call, and what the call should say: the tokens since the last reset, and
\* whether the audio has been the same since then.
Fresh(layers) == [cpu |-> NewCpu(layers), gpu |-> NewGpu(layers), ctx |-> <<>>, tokens |-> <<>>, pure |-> TRUE, right |-> TRUE]
Context(c) == <<Input(c), V("next", Plain, <<Input(c)>>)>>
Decoded(st, tokens, cpu, gpu, fails) ==
    LET said == IF fails THEN Error ELSE TextDecoder(Len(st.cpu.self), st.tokens \o tokens, st.ctx)
    IN  [st EXCEPT !.cpu = cpu.s, !.gpu = gpu.s, !.tokens = IF fails THEN @ ELSE @ \o tokens,
                   !.right = @ /\ cpu.out = gpu.out /\ (st.pure => cpu.out = said)]
Call(st, c) ==
    CASE c[1] = "encode" -> [st EXCEPT !.cpu = CpuSetContext(@, Context(c[2])), !.gpu = GpuSetContext(@, Context(c[2])),
                                       !.ctx = Context(c[2]), !.pure = (st.tokens = <<>>)]
      [] c[1] = "reset"  -> [st EXCEPT !.cpu = CpuReset(@), !.gpu = GpuReset(@), !.tokens = <<>>, !.pure = TRUE]
      [] c[1] = "decode" -> Decoded(st, c[2], CpuDecode(st.cpu, c[2]), GpuDecode(st.gpu, c[2]),
                                    c[2] = <<>> \/ st.ctx = <<>> \/ Len(st.tokens \o c[2]) > MAX_TARGET)

AllCalls(layers, calls) ==
    LET after[n \in 0 .. Len(calls)] == IF n = 0 THEN Fresh(layers) ELSE Call(after[n - 1], calls[n]) IN after[Len(calls)]

EncodeA == <<"encode", "a">>
EncodeB == <<"encode", "b">>
Reset == <<"reset">>
Decodes == { <<"decode", <<"x">> >>, <<"decode", <<"y", "z">> >> }

Scripts ==
    {<<1, <<EncodeA, before>> \o mid \o <<d1, d2, d3>> >> :
        before, d1, d2, d3 \in Decodes, mid \in {<<>>, <<Reset>>, <<EncodeB>>, <<Reset, EncodeB>>, <<EncodeB, Reset>>}}
    \cup {<<2, <<EncodeA, d1, Reset, EncodeB, d2, d1>> >> : d1, d2 \in Decodes}
    \cup {<<2, <<bad, EncodeA, <<"decode", <<>> >>, <<"decode", <<"x">> >> >> >> : bad \in { <<"decode", <<>> >>, <<"decode", <<"x">> >> }}

\* A prompt at once or token by token, a second look at the same audio, a new chunk with and
\* without a reset, and calls that are refused: both engines say the same, and what Whisper says
\* of all tokens since the reset.
WhisperHears ==
    /\ \A frames \in 1 .. 5 : \A mel \in {Tuple(frames, LAMBDA i : V("frame", W(i, ""), <<>>))} : CpuEncode(mel) = AudioEncoder(mel) /\ GpuEncode(mel) = AudioEncoder(mel)
    /\ \A script \in Scripts : AllCalls(script[1], script[2]).right
-----------------------------------------------------------------------------
(* SigLIP.  g, a geometry: side (patches a side), patch (pixels a side of  *)
(* a patch), scale (patches a side of a visual token), budget (elements of *)
(* a score tile), int8 and dotprod (asked for, and there), wide (the head  *)
(* dimension is a multiple of a block).                                    *)

QBLOCK == 4   \* 32 in the code

Pixel(i) == V("pixel", W(i, ""), <<>>)

\* The convolution of stride patch, from channels first to rows.
PatchRows(g) ==
    LET size == g.side * g.patch
        n == g.side * g.side
        conv(p) == V("patch", W(-1, "patch_embedding"), Tuple(g.patch * g.patch, LAMBDA k :
                     Pixel(((p \div g.side) * g.patch + ((k - 1) \div g.patch)) * size + (p % g.side) * g.patch + ((k - 1) % g.patch))))
    IN  Merge(Split(Tuple(n, LAMBDA p : conv(p - 1))), n)

\* What is added to every score of a row does not count: keys less their mean are the keys.
Centred(k, keys) == V("less_mean", Plain, <<k, keys>>)
Attended(q, keys, values) ==
    V("attention", Plain, <<q, IF keys[1].op = "less_mean" /\ \A j \in DOMAIN keys : keys[j].op = "less_mean" /\ keys[j].in[2] = keys[1].in[2]
                               THEN Rows(keys, LAMBDA k : k.in[1]) ELSE keys, values>>)

attn_tile_rows(budget, seq) == IF budget \div seq = 0 THEN 1 ELSE budget \div seq

\* A head's queries, tile by tile; tiles are written where they were read.
Tiled(q, seq, tile, attend(_, _)) ==
    Cells(HEADS * seq, LAMBDA c :
        LET r0 == ((c % seq) \div tile) * tile
            rows == IF seq - r0 < tile THEN seq - r0 ELSE tile
        IN  attend(c \div seq, At(SubSeq(q, (c \div seq) * seq + r0 + 1, (c \div seq) * seq + r0 + rows), (c % seq) - r0)))

HeadRows(cells, h, seq) == SubSeq(cells, h * seq + 1, (h + 1) * seq)
dense_full_attention_tiled(q, k, v, seq, tile) ==
    Tiled(q, seq, tile, LAMBDA h, row : Attended(row, HeadRows(k, h, seq), HeadRows(v, h, seq)))

\* Quantised by blocks of keys; what is left of a block is not there.
WholeBlocks(x) == SubSeq(x, 1, (Len(x) \div QBLOCK) * QBLOCK)
CentredOn(keys) == Rows(keys, LAMBDA k : Centred(k, keys))
dense_attention_int8(q, k, v, seq, tile) ==
    Tiled(q, seq, ((IF tile < 4 THEN 4 ELSE tile) \div 4) * 4,
          LAMBDA h, row : Attended(row, CentredOn(HeadRows(k, h, seq)), WholeBlocks(HeadRows(v, h, seq))))

VisionAttention(g, q, k, v, seq) ==
    IF g.int8 /\ g.wide /\ seq % QBLOCK = 0 /\ g.dotprod THEN dense_attention_int8(q, k, v, seq, attn_tile_rows(g.budget, seq))
    ELSE dense_full_attention_tiled(q, k, v, seq, attn_tile_rows(g.budget, seq))

VisionMlp(x) == Mlp(x, W(0, "layer_norm2"), W(0, "mlp.fc1"), W(0, "mlp.fc2"))
VisionLayer(g, x, normed) ==
    LET heads(w) == Split(Biased(normed, W(0, w)))
        attn == VisionAttention(g, heads("self_attn.q_proj"), heads("self_attn.k_proj"), heads("self_attn.v_proj"), Len(x))
    IN  VisionMlp(Sum(x, Biased(Merge(attn, Len(x)), W(0, "self_attn.out_proj"))))
encode_features(g) ==
    LET layer(x) == VisionLayer(g, x, Normed(x, W(0, "layer_norm1")))
    IN  Normed(layer(add_positions(PatchRows(g), "vision", 0)), W(-1, "post_layernorm"))

\* The patches of a visual token, row by row.
PixelShuffle(g, xv) ==
    LET out_side == g.side \div g.scale
    IN  Tuple(out_side * out_side, LAMBDA t : Tuple(g.scale * g.scale, LAMBDA d :
            LET hj == (t - 1) \div out_side
                wj == (t - 1) % out_side
                dh == (d - 1) \div g.scale
                dw == (d - 1) % g.scale
            IN  At(xv, (hj * g.scale + dh) * g.side + (wj * g.scale + dw))))
VisualTokens(g) ==
    Biased(Rows(PixelShuffle(g, encode_features(g)), LAMBDA patches : V("concat", Plain, patches)), W(-1, "modality_projection"))

\* What a visual token is: the square of the image it stands for, seen by every patch.
VisionReference(g) ==
    LET size == g.side * g.patch
        corner(y, x) == V("patch", W(-1, "patch_embedding"), Tuple(g.patch * g.patch, LAMBDA k :
                          Pixel((y + ((k - 1) \div g.patch)) * size + x + ((k - 1) % g.patch))))
        x0 == Tuple(g.side * g.side, LAMBDA p :
                Add(corner(((p - 1) \div g.side) * g.patch, ((p - 1) % g.side) * g.patch), Position(p - 1, "vision")))
        all(x, normed) == Sum(x, Biased(Attends(x, Biased(normed, W(0, "self_attn.q_proj")), Biased(normed, W(0, "self_attn.k_proj")),
                                                Biased(normed, W(0, "self_attn.v_proj")), LAMBDA i : Len(x)), W(0, "self_attn.out_proj")))
        token(x, t) == LET across == g.side \div g.scale
                           first == ((t - 1) \div across) * g.scale * g.side + ((t - 1) % across) * g.scale
                       IN  V("concat", Plain, Tuple(g.scale * g.scale, LAMBDA d : x[first + ((d - 1) \div g.scale) * g.side + ((d - 1) % g.scale) + 1]))
        tokens(x) == Tuple((g.side \div g.scale) * (g.side \div g.scale), LAMBDA t : token(x, t))
    IN  Biased(tokens(Normed(VisionMlp(all(x0, Normed(x0, W(0, "layer_norm1")))), W(-1, "post_layernorm"))), W(-1, "modality_projection"))

\* Geometries: patches that are not a whole number of blocks or of tiles, tiles of one row and of
\* the whole image.
Geometries ==
    [side : {3, 4}, patch : {2}, scale : {1, 2}, budget : {1, 26, 60, 900}, int8 : BOOLEAN, dotprod : BOOLEAN, wide : BOOLEAN]

\* Tiled or whole, in int8 (but for rounding) or not, every visual token is its square of the
\* image and has seen all of it.
SiglipSees == \A g \in {g \in Geometries : g.side % g.scale = 0} : VisualTokens(g) = VisionReference(g)
-----------------------------------------------------------------------------
(* SmolVLA: the prefix (images, language, state) through the layers of the *)
(* VLM, whose keys and values are all the action expert sees.              *)

QHEADS == 4
KVHEADS == 2
VLA_LAYERS == 2
EVERY == 2      \* self_attn_every
CHUNK_ROWS == 2
EXPERT == 200   \* names of the expert's weights: layer l of it is EXPERT + l

PartOf(of, h, row) == V("head", W(h, of), <<row>>)
WholeOf(of, parts) ==
    IF parts[1].op = "head" /\ \A h \in DOMAIN parts : parts[h] = PartOf(of, h - 1, parts[1].in[1]) THEN parts[1].in[1]
    ELSE V("heads", Plain, parts)
heads_major(x, heads, of) == Cells(heads * Len(x), LAMBDA c : PartOf(of, c \div Len(x), x[(c % Len(x)) + 1]))
seq_major(cells, seq, heads, of) ==
    Tuple(seq, LAMBDA i : WholeOf(of, Tuple(heads, LAMBDA h : At(cells, (h - 1) * seq + i - 1))))

rope(x, from) == Tuple(Len(x), LAMBDA i : V("rope", W(from + i - 1, ""), <<x[i]>>))
Rms(x, w) == Rows(x, LAMBDA r : RmsNorm(r, w))

\* Grouped-query attention; allow says which key (from 0) a query (from 0) may see.
VlaAttention(q, k, v, sk, allow(_, _)) ==
    LET rep == QHEADS \div KVHEADS
        seen(i) == SelectSeq(Tuple(sk, LAMBDA j : j - 1), LAMBDA j : allow(i, j))
        of(cells, h, js) == Rows(js, LAMBDA j : At(cells, (h \div rep) * sk + j))
        cell(head, h, js) == V("attention", Plain, <<head, of(k, h, js), of(v, h, js)>>)
        qh == heads_major(q, QHEADS, "q")
    IN  seq_major(Cells(QHEADS * Len(q), LAMBDA c : cell(At(qh, c), c \div Len(q), seen(c % Len(q)))), Len(q), QHEADS, "q")

\* What follows attention in a layer of either stack: o_proj, norm and SwiGLU.
SwiGlu(x, l) ==
    Rows(x, LAMBDA r : V("linear", W(l, "down_proj"), <<Mul(Silu(V("linear", W(l, "gate_proj"), <<r>>)), V("linear", W(l, "up_proj"), <<r>>))>>))
AfterBoth(x1, l) == Sum(x1, SwiGlu(Rms(x1, W(l, "post_attention_layernorm")), l))
AfterAttn(x, att, l) == AfterBoth(Sum(x, Unbiased(att, W(l, "o_proj"))), l)

KvHeads(k, v) == [k |-> heads_major(k, KVHEADS, "kv"), v |-> heads_major(v, KVHEADS, "kv")]

\* Odd layers of the expert look at the prefix through projections of their own.
is_self_attn(l) == l % EVERY = 0
None == <<>>
project_cross(l, kv, n) ==
    IF is_self_attn(l) THEN None
    ELSE KvHeads(Unbiased(seq_major(kv.k, n, KVHEADS, "kv"), W(EXPERT + l, "k_proj")),
                 Unbiased(seq_major(kv.v, n, KVHEADS, "kv"), W(EXPERT + l, "v_proj")))

\* Image tokens and the language, scaled; the state, projected.
embed_prefix(images, lang, state) ==
    Rows(images \o lang, LAMBDA r : V("scale", Plain, <<r>>)) \o <<V("linear", W(-1, "state_proj"), <<state>>)>>

\* Nothing but the state sees the state.
PrefixAllow(n, i, j) == j < n - 1 \/ i = n - 1

\* A layer of prefix_inner; without output the last one ends with its keys and values.
PrefixKept(st, l, q, kv, n, skip) ==
    [kv |-> Append(st.kv, kv), cross |-> Append(st.cross, project_cross(l, kv, n)),
     x |-> IF skip THEN st.x ELSE AfterAttn(st.x, VlaAttention(q, kv.k, kv.v, n, LAMBDA i, j : PrefixAllow(n, i, j)), l)]
PrefixLayer(st, l, normed, skip) ==
    PrefixKept(st, l, rope(Unbiased(normed, W(l, "q_proj")), 0),
               KvHeads(rope(Unbiased(normed, W(l, "k_proj")), 0), Unbiased(normed, W(l, "v_proj"))), Len(normed), skip)
prefix_inner(embs, want_output) ==
    Over(VLA_LAYERS, [x |-> embs, kv |-> <<>>, cross |-> <<>>],
         LAMBDA st, l : PrefixLayer(st, l, Rms(st.x, W(l, "input_layernorm")), l + 1 = VLA_LAYERS /\ ~want_output))

\* The noisy actions and the time.
embed_suffix(x_t, t) ==
    Rows(x_t, LAMBDA r : V("linear", W(-1, "action_time_mlp_out"), <<Silu(V("linear", W(-1, "action_time_mlp_in"),
                           <<V("concat", Plain, <<V("linear", W(-1, "action_in_proj"), <<r>>), t>>)>>))>>))

\* Behind the prefix and causal in self-attention, at the start and the prefix alone in cross.
JoinHeads(pre, suf, n, s) ==
    Cells(KVHEADS * (n + s), LAMBDA c :
        IF c % (n + s) < n THEN At(pre, (c \div (n + s)) * n + (c % (n + s))) ELSE At(suf, (c \div (n + s)) * s + (c % (n + s)) - n))
ExpertJoined(q, kv, own, n, s) ==
    VlaAttention(q, JoinHeads(kv.k, own.k, n, s), JoinHeads(kv.v, own.v, n, s), n + s, LAMBDA i, j : j < n \/ j - n <= i)
ExpertSelf(normed, q, l, kv, n) ==
    ExpertJoined(rope(q, n), kv, KvHeads(rope(Unbiased(normed, W(l, "k_proj")), n), Unbiased(normed, W(l, "v_proj"))), n, Len(normed))
ExpertCross(q, cross, n) == VlaAttention(rope(q, 0), cross.k, cross.v, n, LAMBDA i, j : TRUE)
ExpertAttn(cache, normed, q, l, n) ==
    IF is_self_attn(l) THEN ExpertSelf(normed, q, EXPERT + l, cache.kv[l + 1], n) ELSE ExpertCross(q, cache.cross[l + 1], n)
ExpertLayer(cache, x, normed, l, n) ==
    AfterAttn(x, ExpertAttn(cache, normed, Unbiased(normed, W(EXPERT + l, "q_proj")), l, n), EXPERT + l)
denoise_step(cache, n, x_t, t) ==
    Unbiased(Rms(Over(VLA_LAYERS, embed_suffix(x_t, t),
                      LAMBDA x, l : ExpertLayer(cache, x, Rms(x, W(EXPERT + l, "input_layernorm")), l, n)), W(EXPERT, "norm")),
             W(-1, "action_out_proj"))
\* The policy with its padded language: padding is seen by no one and has no position.
RefHeads(q, k, v, seen(_)) ==
    Tuple(Len(q), LAMBDA i : V("heads", Plain, Tuple(QHEADS, LAMBDA h :
        V("attention", Plain, <<PartOf("q", h - 1, q[i]), Rows(seen(i), LAMBDA j : PartOf("kv", (h - 1) \div 2, k[j])),
                                Rows(seen(i), LAMBDA j : PartOf("kv", (h - 1) \div 2, v[j]))>>))))
At0(x, pos(_)) == Tuple(Len(x), LAMBDA i : V("rope", W(pos(i), ""), <<x[i]>>))

\* A token is an image's, a word, "pad" or the "state"; places are its index among what is not padding.
Real(kinds, i) == Cardinality({j \in 1 .. i - 1 : kinds[j] # "pad"})
RefSeen(kinds, i) == SelectSeq(Tuple(Len(kinds), LAMBDA j : j), LAMBDA j : kinds[j] # "pad" /\ (kinds[j] = "state" => i = j))
RefKept(st, kinds, l, q, k, v) ==
    [x |-> AfterAttn(st.x, RefHeads(q, k, v, LAMBDA i : RefSeen(kinds, i)), l), k |-> Append(st.k, k), v |-> Append(st.v, v)]
RefPrefixLayer(st, kinds, l, normed) ==
    RefKept(st, kinds, l, At0(Unbiased(normed, W(l, "q_proj")), LAMBDA i : Real(kinds, i)),
            At0(Unbiased(normed, W(l, "k_proj")), LAMBDA i : Real(kinds, i)), Unbiased(normed, W(l, "v_proj")))
RefPrefix(kinds, rows) ==
    Over(VLA_LAYERS, [x |-> rows, k |-> <<>>, v |-> <<>>],
         LAMBDA st, l : RefPrefixLayer(st, kinds, l, Rms(st.x, W(l, "input_layernorm"))))

\* Those of the rows that are not padding.
Dropped(kinds, x) == Rows(SelectSeq(Tuple(Len(kinds), LAMBDA j : j), LAMBDA j : kinds[j] # "pad"), LAMBDA j : x[j])

\* A step of the expert, over the prefix's rows k and v of a layer.
RefSelfAttn(q, k, v, ownK, ownV, n) == RefHeads(q, k \o ownK, v \o ownV, LAMBDA i : Tuple(n + i, LAMBDA j : j))
RefExpertAttn(normed, q, l, k, v, n) ==
    IF l % 2 = 0 THEN RefSelfAttn(At0(q, LAMBDA i : n + i - 1), k, v, At0(Unbiased(normed, W(EXPERT + l, "k_proj")), LAMBDA i : n + i - 1),
                                  Unbiased(normed, W(EXPERT + l, "v_proj")), n)
    ELSE RefHeads(At0(q, LAMBDA i : i - 1), Unbiased(k, W(EXPERT + l, "k_proj")), Unbiased(v, W(EXPERT + l, "v_proj")),
                  LAMBDA i : Tuple(n, LAMBDA j : j))
RefExpertLayer(x, normed, l, k, v, n) ==
    AfterAttn(x, RefExpertAttn(normed, Unbiased(normed, W(EXPERT + l, "q_proj")), l, k, v, n), EXPERT + l)
RefVelocity(kinds, prefix, n, x_t, t) ==
    Unbiased(Rms(Over(VLA_LAYERS, embed_suffix(x_t, t),
                      LAMBDA x, l : RefExpertLayer(x, Rms(x, W(EXPERT + l, "input_layernorm")), l, Dropped(kinds, prefix.k[l + 1]),
                                                   Dropped(kinds, prefix.v[l + 1]), n)), W(EXPERT, "norm")),
             W(-1, "action_out_proj"))

\* Observations: images, words, and padding between the words and the state.
VlaImage == <<Input("image")>>
Words(n) == Tuple(n, LAMBDA i : V("word", W(i, ""), <<>>))
KindsOf(words, pads) == <<"image">> \o Tuple(words, LAMBDA i : "word") \o Tuple(pads, LAMBDA i : "pad") \o <<"state">>
Padded(words, pads, state) ==
    Rows(VlaImage \o Words(words), LAMBDA r : V("scale", Plain, <<r>>)) \o Tuple(pads, LAMBDA i : V("scale", Plain, <<Input("pad")>>))
      \o <<V("linear", W(-1, "state_proj"), <<state>>)>>

VlaMatches(kinds, n, cache, full, prefix, x_t) ==
    /\ cache.kv = full.kv /\ cache.cross = full.cross /\ full.x = Dropped(kinds, prefix.x)
    /\ \A l \in 1 .. VLA_LAYERS : cache.kv[l] = KvHeads(Dropped(kinds, prefix.k[l]), Dropped(kinds, prefix.v[l]))
    /\ denoise_step(cache, n, x_t, Input("t")) = RefVelocity(kinds, prefix, n, x_t, Input("t"))

\* Two caches that agree on all tokens but the last.
SameButLast(n, a, b) ==
    \A l \in 1 .. VLA_LAYERS, c \in 0 .. KVHEADS * n - 1 :
        c % n < n - 1 => At(a.kv[l].k, c) = At(b.kv[l].k, c) /\ At(a.kv[l].v, c) = At(b.kv[l].v, c)

\* Dropping the padding is masking it; the cache without output is that of the whole pass; keys and
\* values projected once for all steps are those of every step; and no token but its own shows
\* the state.
SmolVlaActs ==
    \A words, pads \in 0 .. 1 :
        LET embs(state) == embed_prefix(VlaImage, Words(words), Input(state))
        IN  /\ VlaMatches(KindsOf(words, pads), words + 2, prefix_inner(embs("s1"), FALSE), prefix_inner(embs("s1"), TRUE),
                          RefPrefix(KindsOf(words, pads), Padded(words, pads, Input("s1"))), Tuple(CHUNK_ROWS, LAMBDA i : V("noise", W(i, ""), <<>>)))
            /\ SameButLast(words + 2, prefix_inner(embs("s1"), FALSE), prefix_inner(embs("s2"), FALSE))
-----------------------------------------------------------------------------
(* The weights of SmolVLA, in blocks of QBLOCK columns when they are 8-bit. *)

Tensors ==
    [part : {"vision", "connector", "text", "lm_head", "expert", "policy", "other"},
     word : {"norm", "bias", "embed", "embed_tokens", "proj"}, dims : {1, 2, 4}]

Columns(n, what) == Tuple(n, LAMBDA i : V(what, W(i, ""), <<>>))
PaddedTo(x, n) == x \o Tuple(n - Len(x), LAMBDA i : Zero)
Ceiling(k) == ((k + QBLOCK - 1) \div QBLOCK) * QBLOCK

\* Whether prepare quantises, and the row of a weight that it then keeps.
prepare(t, quantize) == IF quantize /\ t.dims = 2 /\ t.word = "proj" THEN "q8_0" ELSE "f32"
PreparedRow(w, q8) == IF q8 THEN PaddedTo(w, Ceiling(Len(w))) ELSE w

\* from_weights_quant: what becomes of a tensor.
Stored(t, quant) ==
    CASE t.part \in {"lm_head", "other"} -> "dropped"
      [] t.part \in {"vision", "connector"} -> prepare(t, quant.vision)
      [] t.part = "text" -> IF t.word = "embed_tokens" THEN "as it is" ELSE prepare(t, quant.vlm)
      [] t.part = "expert" -> prepare(t, quant.expert)
      [] t.part = "policy" -> "f32"

\* A dot product: the factors of its terms that are not zero.
Dot(x, w) == SelectSeq(Tuple(Len(x), LAMBDA i : <<x[i], w[i]>>), LAMBDA f : Zero \notin {f[1], f[2]})

\* One row of linear.
linear(x, w) ==
    CASE Len(x) = Len(w) -> Dot(x, w)
      [] Len(x) < Len(w) /\ Len(w) - Len(x) < QBLOCK /\ Len(w) % QBLOCK = 0 -> Dot(PaddedTo(x, Len(w)), w)
      [] OTHER -> Error

\* precision.quant().
Precision(p) ==
    CASE p = "fast" -> [vision |-> TRUE, vlm |-> TRUE, expert |-> TRUE]
      [] p = "balanced" -> [vision |-> FALSE, vlm |-> FALSE, expert |-> TRUE]
      [] p = "exact" -> [vision |-> FALSE, vlm |-> FALSE, expert |-> FALSE]

\* A quantised product has the terms of the float one; what is read as floats (norms, biases,
\* embeddings, the policy's own layers) is floats, and a precision quantises what it says.
PaddingIsNeutral ==
    /\ \A k \in 1 .. 3 * QBLOCK + 1, q8 \in BOOLEAN :
          linear(Columns(k, "x"), PreparedRow(Columns(k, "w"), q8)) = Dot(Columns(k, "x"), Columns(k, "w"))
    /\ \A t \in Tensors, p \in {"fast", "balanced", "exact"} :
          Stored(t, Precision(p)) = "q8_0" => /\ t.word = "proj" /\ t.dims = 2 /\ t.part \notin {"policy", "lm_head", "other"}
                                              /\ p # "exact" /\ (p = "balanced" => t.part = "expert")

-----------------------------------------------------------------------------
(* Flow matching.  Actions are integers, x_t is scaled by the steps.       *)

CHUNK_SIZE == 3

\* A policy that has learnt the straight path to its plan, and strays from it as far as the rows
\* in front of it do.
Plan == <<3, -1, 2>>
Noises == { <<1, 0, -2>>, <<0, 0, 0>>, <<-1, 4, 1>> }
SumTo(f, n) == LET sum[i \in 0 .. n] == IF i = 0 THEN 0 ELSE sum[i - 1] + f[i] IN sum[n]
Velocity(x, noise, plan, steps, step) ==
    Tuple(CHUNK_SIZE, LAMBDA i : (noise[i] - plan[i])
                            + SumTo(Tuple(CHUNK_SIZE, LAMBDA j : IF j < i THEN x[j] - ((steps - step) * noise[j]) - (step * plan[j]) ELSE 0), CHUNK_SIZE))

\* The decoder's steps, over a velocity that sees the whole x_t.
Frozen(x, noise, frozen, steps, step) ==
    Tuple(Len(x), LAMBDA i : IF i <= Len(frozen) THEN ((steps - step) * noise[i]) + (step * frozen[i]) ELSE x[i])
Step(x, v) == Tuple(Len(x), LAMBDA i : x[i] - v[i])
sample_actions_inpaint(noise, steps, frozen, plan) ==
    IF Len(frozen) > CHUNK_SIZE \/ steps = 0 \/ Len(noise) # CHUNK_SIZE THEN Error
    ELSE LET x[step \in 0 .. steps] ==
                 IF step = 0 THEN Tuple(CHUNK_SIZE, LAMBDA i : steps * noise[i])
                 ELSE LET at == Frozen(x[step - 1], noise, frozen, steps, step - 1)
                      IN  Step(at, Velocity(at, noise, plan, steps, step - 1))
         IN  Tuple(CHUNK_SIZE, LAMBDA i : IF i <= Len(frozen) THEN steps * frozen[i] ELSE x[steps][i])

\* Actions that are already decided are kept, and the others are those of a policy that has seen
\* them on its path at every step.
FlowContinues ==
    \A noise \in Noises, steps \in 0 .. 4, n \in 0 .. CHUNK_SIZE + 1 :
        LET queued == Tuple(n, LAMBDA i : 5 - i)
            plan == Tuple(CHUNK_SIZE, LAMBDA i : IF i <= n THEN queued[i] ELSE Plan[i])
            chunk == sample_actions_inpaint(noise, steps, queued, plan)
        IN  chunk = IF steps = 0 \/ n > CHUNK_SIZE THEN Error ELSE Tuple(CHUNK_SIZE, LAMBDA i : steps * plan[i])

-----------------------------------------------------------------------------
(* The pipeline of SmolVLA: statistics, units, and images.                 *)

MAX_ACTION == 3   \* width of an action in the policy

\* The statistics a processor's steps name, and the files to fetch.
stats_files_in(steps) ==
    LET normalizers == SelectSeq(steps, LAMBDA p : p.name \in {"normalizer_processor", "unnormalizer_processor"} /\ p.file # "none")
    IN  Rows(normalizers, LAMBDA p : p.file)
StatsFiles(pre, post) ==
    LET named == stats_files_in(pre) \o stats_files_in(post)
        files == IF named = <<>> THEN << "default_pre", "default_post" >> ELSE named
    IN  SelectSeq(Tuple(Len(files), LAMBDA i : IF i > 1 /\ files[i] = files[i - 1] THEN "again" ELSE files[i]), LAMBDA f : f # "again")

\* Values are terms: norm(i, v) and unnorm(i, v) undo each other; n statistics are there.
Norm(i, v) == IF v.op = "unnorm" /\ v.weight = W(i, "") THEN v.in[1] ELSE V("norm", W(i, ""), <<v>>)
Unnorm(i, v) == IF v.op = "norm" /\ v.weight = W(i, "") THEN v.in[1] ELSE V("unnorm", W(i, ""), <<v>>)
Normalised(row, n) == Tuple(Len(row), LAMBDA i : IF i <= n THEN Norm(i, row[i]) ELSE row[i])
Unnormalised(row, n) == Tuple(Len(row), LAMBDA i : IF i <= n THEN Unnorm(i, row[i]) ELSE row[i])

\* predict_continuing: the queue in the policy's units, as wide as its actions.
FrozenRows(queued, n) == Rows(queued, LAMBDA row : Normalised(PaddedTo(row, MAX_ACTION), n))

\* run: the decoder's rows (the frozen ones are its first), cut and in the robot's units.
Sampled(frozen) == frozen \o Tuple(CHUNK_SIZE - Len(frozen), LAMBDA r : Tuple(MAX_ACTION, LAMBDA i : V("sampled", W(r, ""), <<>>)))
RobotUnits(x, dim, n) == Rows(x, LAMBDA row : Unnormalised(SubSeq(row, 1, dim), n))
predict_continuing(queued, dim, n) ==
    IF Len(queued) > CHUNK_SIZE THEN Error ELSE RobotUnits(Sampled(FrozenRows(queued, n)), dim, n)

\* resize_with_pad: the sides of the image, and along one axis (n pixels to rn) the two pixels
\* and the weight of the second, in units of 2 * rn.
Clamped(x, lo, hi) == IF x < lo THEN lo ELSE IF x > hi THEN hi ELSE x
Longer(w, h) == IF w > h THEN w ELSE h
Resized(w, h, side, size) == Clamped((side * size) \div Longer(w, h), 1, size)
Sample(n, rn, o) ==
    LET twice == 2 * rn
        f == Clamped(((2 * o + 1) * n) - rn, 0, 2 * n * rn)
        lo == Clamped(f \div twice, 0, n - 1)
    IN  [lo |-> lo, hi |-> Clamped(lo + 1, 0, n - 1), weight |-> f - (lo * twice)]
Placed(o, rn, size) == o + (size - rn)

\* The action chunk begins with the queue, in the units it was given in, whatever statistics there
\* are; the queue is padded with zeros when they are no wider than an action; and the statistics
\* are those of the processors, once each.
ChunkContinuesTheQueue ==
    /\ \A dim \in 1 .. MAX_ACTION, n \in 0 .. MAX_ACTION, rows \in 0 .. CHUNK_SIZE :
          LET queued == Tuple(rows, LAMBDA r : Tuple(dim, LAMBDA i : V("queued", W(r, ""), <<Input(i)>>)))
          IN  /\ SubSeq(predict_continuing(queued, dim, n), 1, rows) = queued
              /\ Len(predict_continuing(queued, dim, n)) = CHUNK_SIZE
              /\ n <= dim => \A r \in 1 .. rows, i \in dim + 1 .. MAX_ACTION : FrozenRows(queued, n)[r][i] = Zero
    /\ \A pre, post \in {<<>>} \cup [1 .. 2 -> [name : {"normalizer_processor", "unnormalizer_processor", "device_processor"}, file : {"none", "a", "b"}]] :
          LET used == {f \in {"a", "b"} : \E p \in {pre[i] : i \in DOMAIN pre} \cup {post[i] : i \in DOMAIN post} :
                                              p.file = f /\ p.name # "device_processor"}
              files == StatsFiles(pre, post)
          IN  {files[i] : i \in DOMAIN files} = IF used = {} THEN {"default_pre", "default_post"} ELSE used

\* An image keeps its proportions to a pixel, fills the square along its longer side, lies at its
\* right and bottom, and every pixel is the image at the place it stands for: a ramp stays one.
ImagesAreScaled ==
    \A w, h \in 1 .. 7, size \in {1, 3, 5} :
        LET rw == Resized(w, h, w, size)
            rh == Resized(w, h, h, size)
        IN  /\ rw = size \/ rh = size
            /\ (rw - 1) * h <= rh * w + w /\ (rh - 1) * w <= rw * h + h
            /\ \A ax \in {<<w, rw>>, <<h, rh>>} :
                  LET n == ax[1]  rn == ax[2] IN
                  /\ {Placed(o, rn, size) : o \in 0 .. rn - 1} = size - rn .. size - 1
                  /\ \A o \in 0 .. rn - 1 :
                        LET p == Sample(n, rn, o)
                        IN  /\ p.weight \in 0 .. 2 * rn /\ p.lo \in 0 .. n - 1 /\ p.hi \in 0 .. n - 1
                            /\ ((2 * rn - p.weight) * p.lo) + (p.weight * p.hi)
                                   = Clamped(((2 * o + 1) * n) - rn, 0, 2 * rn * (n - 1))

-----------------------------------------------------------------------------
(* TranscribePipeline (sapient-generate, transcribe.rs).  Token ids are text, then EOT, another *)
(* control token, and a timestamp for every unit of time, of which a second has RATE and a      *)
(* window N_SAMPLES.                                                                            *)

EOT == 2
TIMESTAMP_BEGIN == 4
RATE == 2
N_SAMPLES == 6
Ids == 0 .. TIMESTAMP_BEGIN + N_SAMPLES
Timestamps == TIMESTAMP_BEGIN .. TIMESTAMP_BEGIN + N_SAMPLES

sot_sequence(lang, task, timestamps) ==
    <<"sot">> \o (IF lang \in {"en", "de"} THEN <<lang>> ELSE <<>>) \o <<task>>
              \o (IF timestamps THEN <<>> ELSE <<"notimestamps">>)

TokenBudget(max_new, positions, prompt) ==
    LET left == IF positions > Len(prompt) THEN positions - Len(prompt) ELSE 1
    IN  IF max_new < left THEN max_new ELSE left

\* The last timestamp so far.
LastStamp(toks) == LET at == {i \in DOMAIN toks : toks[i] \in Timestamps}
                   IN  IF at = {} THEN TIMESTAMP_BEGIN ELSE toks[CHOOSE i \in at : \A j \in at : j <= i]

\* What the rules mask after toks: all but timestamps at first; timestamps after a lone one, text
\* after a pair; and every earlier timestamp.
apply_timestamp_rules(toks) ==
    LET n == Len(toks)
        stamped(i) == i > 0 /\ toks[i] \in Timestamps
    IN  IF n = 0 THEN Ids \ Timestamps
        ELSE {t \in Timestamps : t < LastStamp(toks)}
             \cup (IF stamped(n) /\ ~stamped(n - 1) THEN Timestamps ELSE {})
             \cup (IF stamped(n) /\ stamped(n - 1) THEN Ids \ Timestamps ELSE {})

\* What argmax chooses from: blank and EOT are suppressed at first, control tokens if the model
\* ships a list of them.
Offered(toks, suppress) ==
    Ids \ (apply_timestamp_rules(toks) \cup suppress \cup (IF toks = <<>> THEN {0, EOT} ELSE {}))

\* transcribe_chunk_timestamped: what it may decode, whatever the logits.
Timestamped(budget, suppress) ==
    {toks \in UNION {[1 .. n -> Ids \ {EOT}] : n \in 0 .. budget} :
        /\ \A i \in DOMAIN toks : toks[i] \in Offered(SubSeq(toks, 1, i - 1), suppress)
        /\ Len(toks) < budget => EOT \in Offered(toks, suppress)}

\* ... and how far the window advances.
Advance(toks) ==
    IF LastStamp(toks) > TIMESTAMP_BEGIN THEN LastStamp(toks) - TIMESTAMP_BEGIN ELSE N_SAMPLES

\* transcribe_samples: the windows of n samples, each advancing as given.
Window(w, advance) ==
    IF w.end = w.n THEN w
    ELSE LET hop   == Clamped(advance, RATE, N_SAMPLES)
             start == w.windows[Len(w.windows)][1] + hop
             end   == Clamped(start + N_SAMPLES, 0, w.n)
         IN  [w EXCEPT !.windows = Append(@, <<start, end>>), !.end = end]
transcribe_samples(n, advances) ==
    LET end == Clamped(N_SAMPLES, 0, n)
    IN  Seqs!FoldLeft(Window, [n |-> n, end |-> end, windows |-> <<<<0, end>>>>], advances)

\* transcribe_samples_stream: one after the other.
transcribe_samples_stream(n) ==
    [k \in 1 .. (n + N_SAMPLES - 1) \div N_SAMPLES |-> <<(k - 1) * N_SAMPLES, Clamped(k * N_SAMPLES, 0, n)>>]

\* decode of text tokens, where 1 is half of a character: "r" stands for it until the other comes.
Detokenized(toks) ==
    Seqs!FoldLeft(LAMBDA text, t : CASE t = 0 -> Append(text, "a")
                                [] t = 1 /\ text # <<>> /\ text[Len(text)] = "r" -> Append(Seqs!Front(text), "c")
                                [] OTHER -> Append(text, "r"), <<>>, toks)

\* transcribe_chunk streams what each token adds to the text, nothing when the text changed.
OnText(s, t) ==
    LET full == Detokenized(Append(s.toks, t))
    IN  [toks |-> Append(s.toks, t), emitted |-> full,
         sent |-> IF Seqs!IsPrefix(s.emitted, full) THEN s.sent \o SubSeq(full, Len(s.emitted) + 1, Len(full)) ELSE s.sent]
Streamed(toks) == Seqs!FoldLeft(OnText, [toks |-> <<>>, emitted |-> <<>>, sent |-> <<>>], toks).sent

\* Beam search.  A beam has its tokens and minus its log-probability; what is masked costs MASKED,
\* which is more than everything else.
MASKED == 1000
Vocabulary == 0 .. EOT
CostOf(scores, toks, t) ==
    IF toks = <<>> THEN (IF t \in {0, EOT} THEN MASKED ELSE scores[EOT][t]) ELSE scores[toks[Len(toks)]][t]

\* top_k: the k cheapest next tokens, masked ones too if there are no others.
top_k(scores, toks, k) ==
    {t \in Vocabulary :
        Cardinality({u \in Vocabulary : \/ CostOf(scores, toks, u) < CostOf(scores, toks, t)
                                        \/ (CostOf(scores, toks, u) = CostOf(scores, toks, t) /\ u < t)}) < k}

\* norm_score: the cost per token is less.  Of equals, which the code's unstable sorts leave in any
\* order, the first by Order comes before.
PerToken(b) == IF b.tokens = <<>> THEN 1 ELSE Len(b.tokens)
Better(b, c) == b.cost * PerToken(c) < c.cost * PerToken(b)
Order(toks) == Seqs!FoldLeft(LAMBDA n, t : (n * 3) + t, 0, toks)
Before(b, c) == Better(b, c) \/ (~Better(c, b) /\ Order(b.tokens) < Order(c.tokens))
Ended(b) == b.tokens # <<>> /\ b.tokens[Len(b.tokens)] = EOT

\* prune_beams: candidates in order of score, until size of them are kept; those that ended are
\* finished.
Reached(cands, size) == {c \in cands : Cardinality({d \in cands : Before(d, c) /\ ~Ended(d)}) < size}
Kept(cands, size) == {c \in Reached(cands, size) : ~Ended(c)}
Finished(cands, size) == {[c EXCEPT !.tokens = Seqs!Front(@)] : c \in {d \in Reached(cands, size) : Ended(d)}}

BeamStep(scores, size, s) ==
    LET cands == UNION {{[tokens |-> Append(b.tokens, t), cost |-> b.cost + CostOf(scores, b.tokens, t)]
                         : t \in top_k(scores, b.tokens, size)} : b \in s.beams}
    IN  [beams |-> Kept(cands, size), finished |-> s.finished \cup Finished(cands, size)]

\* decode_chunk_beam: the best of what finished and what the budget cut.
decode_chunk_beam(scores, size, budget) ==
    LET s == Seqs!FoldLeft(LAMBDA st, i : BeamStep(scores, size, st),
                           [beams |-> {[tokens |-> <<>>, cost |-> 0]}, finished |-> {}], [i \in 1 .. budget |-> i])
        all == s.beams \cup s.finished
    IN  CHOOSE b \in all : \A c \in all : ~Better(c, b)

\* transcribe_chunk: greedy, in the same vocabulary.
GreedyStep(scores, s) ==
    LET t == CHOOSE u \in top_k(scores, s.tokens, 1) : TRUE
    IN  CASE s.done -> s
          [] ~s.done /\ t = EOT -> [s EXCEPT !.done = TRUE]
          [] OTHER -> [s EXCEPT !.tokens = Append(@, t)]
transcribe_chunk(scores, budget) ==
    Seqs!FoldLeft(LAMBDA s, i : GreedyStep(scores, s), [tokens |-> <<>>, done |-> FALSE], [i \in 1 .. budget |-> i]).tokens

\* Every transcript there is, with what it costs.
Transcripts(scores, budget) ==
    LET cost(toks) == Seqs!FoldLeft(LAMBDA c, i : c + CostOf(scores, SubSeq(toks, 1, i - 1), toks[i]), 0, [i \in DOMAIN toks |-> i])
    IN  {[tokens |-> toks, cost |-> cost(toks)] : toks \in [1 .. budget -> {0, 1}]}
        \cup {[tokens |-> toks, cost |-> cost(Append(toks, EOT))] : toks \in UNION {[1 .. n -> {0, 1}] : n \in 0 .. budget - 1}}

\* A transcript opens with a timestamp, its timestamps never go back and never follow each other
\* (so the rule for a closed pair never applies), and there is always a token to choose.
TimestampsInOrder ==
    \A suppress \in {{}, {EOT + 1}} : \A toks \in Timestamped(3, suppress) :
        /\ toks[1] \in Timestamps
        /\ \A i \in DOMAIN toks : toks[i] \in Timestamps => toks[i] >= LastStamp(SubSeq(toks, 1, i - 1))
        /\ \A i \in 2 .. Len(toks) : ~{toks[i - 1], toks[i]} \subseteq Timestamps
        /\ Offered(toks, suppress) # {}

\* The windows leave no gap and come to the end, wherever the timestamps send them; without
\* timestamps they are those of a stream.
WindowsCover ==
    \A n \in 1 .. 9, advances \in [1 .. 5 -> 0 .. N_SAMPLES + 1] :
        LET w == transcribe_samples(n, advances)
        IN  /\ w.end = n
            /\ \A k \in 2 .. Len(w.windows) : /\ w.windows[k][1] <= w.windows[k - 1][2]
                                              /\ w.windows[k][1] > w.windows[k - 1][1]
            /\ (\A i \in 1 .. 5 : advances[i] >= N_SAMPLES) => w.windows = transcribe_samples_stream(n)

\* Speech is transcribed twice exactly where text follows the last timestamp of a window: the next
\* window begins there, at the end of what is not the last segment.
SaidOnce ==
    \A toks \in Timestamped(3, {EOT + 1}) :
        LET next == Clamped(Advance(toks), RATE, N_SAMPLES)
            until(i) == LET later == {toks[j] - TIMESTAMP_BEGIN : j \in {k \in i .. Len(toks) : toks[k] \in Timestamps}}
                        IN  IF later = {} THEN N_SAMPLES ELSE CHOOSE t \in later : \A u \in later : t <= u
            text == {i \in DOMAIN toks : toks[i] < EOT}
        IN  (\E i \in text : until(i) > next) <=> (Len(toks) \in text /\ next < N_SAMPLES)

\* A stream has the whole text unless a character takes two tokens, and then not that character.
StreamedIsText ==
    \A n \in 0 .. 5 : \A toks \in [1 .. n -> {0, 1}] :
        LET text == Detokenized(toks)
            split == \E i \in DOMAIN text : text[i] = "c"
        IN  /\ ~split <=> Streamed(toks) = text
            /\ \A i \in DOMAIN Streamed(toks) : Streamed(toks)[i] # "c"

\* A beam of one is greedy, where no two logits of a step are equal; beams as wide as the
\* vocabulary find the best transcript of two tokens; and none finds one with a masked token.
BeamsFindTheBest ==
    \A scores \in [0 .. EOT -> {row \in [Vocabulary -> {1, 2, 4}] : \A t, u \in Vocabulary : t # u => row[t] # row[u]}] :
        /\ decode_chunk_beam(scores, 1, 2).tokens = transcribe_chunk(scores, 2)
        /\ \A t \in Transcripts(scores, 2) : ~Better(t, decode_chunk_beam(scores, 3, 2))
        /\ \A size \in 1 .. 4 : decode_chunk_beam(scores, size, 3).cost < MASKED

\* The decoder is never fed past its positions.
BudgetFits ==
    \A lang \in {"none", "en", "xx"}, timestamps \in BOOLEAN, max_new \in 1 .. 8, positions \in 5 .. 8 :
        LET prompt == sot_sequence(lang, "transcribe", timestamps)
        IN  Len(prompt) + TokenBudget(max_new, positions, prompt) <= positions

\* What is heard becomes text: in windows, with timestamps, streamed, or by beams.
SpeechBecomesText ==
    TimestampsInOrder /\ WindowsCover /\ SaidOnce /\ StreamedIsText /\ BeamsFindTheBest /\ BudgetFits

\* The policy, its weights, its sampler, and what the pipeline makes of cameras and robots.
PolicyActs == PaddingIsNeutral /\ FlowContinues /\ ChunkContinuesTheQueue /\ ImagesAreScaled
=============================================================================
