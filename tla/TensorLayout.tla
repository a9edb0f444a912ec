---------------------------- MODULE TensorLayout ----------------------------
(***************************************************************************)
(* Where the elements of a tensor go between the projections, the rotary   *)
(* embedding, the KV cache, attention and the output head (sapient-models, *)
(* forward/common.rs; sapient-backends/cpu, rope.rs and attention.rs).     *)
(*                                                                         *)
(* A tensor is a flat, row-major buffer from offsets (counted from 0) to   *)
(* values.  The values are names: only where they end up is modelled.      *)
(***************************************************************************)
EXTENDS Integers, Sequences, FiniteSetsExt

Flat(n) == 0 .. n - 1
Product(dims) == LET p[i \in 0 .. Len(dims)] == IF i = 0 THEN 1 ELSE p[i - 1] * dims[i] IN p[Len(dims)]

\* strides_for: the stride of an axis is the product of the axes after it.
StridesFor(dims) == [i \in 1 .. Len(dims) |-> Product(SubSeq(dims, i + 1, Len(dims)))]

Dot(idx, strides) == LET s[i \in 0 .. Len(idx)] == IF i = 0 THEN 0 ELSE s[i - 1] + idx[i] * strides[i] IN s[Len(idx)]

\* permute, element by element: axis k of the result is axis order[k] of x.
Permute(x, dims, order) ==
    LET src == StridesFor(dims)
        dst == StridesFor([k \in DOMAIN order |-> dims[order[k]]])
        At(o) == [k \in DOMAIN dims |-> (o \div src[k]) % dims[k]]
        To(o) == Dot([k \in DOMAIN order |-> At(o)[order[k]]], dst)
    IN  [t \in DOMAIN x |-> x[CHOOSE o \in DOMAIN x : To(o) = t]]

\* Its fast path for <<1, 3, 2, 4>>: runs of d elements; the loop writes t from s.
PermuteRuns(x, a, b, c, d) ==
    LET To(ai, bi, ci)   == ((ai * c + ci) * b + bi) * d
        From(ai, bi, ci) == ((ai * b + bi) * c + ci) * d
    IN  [t \in DOMAIN x |->
            LET w == CHOOSE w \in Flat(a) \X Flat(b) \X Flat(c) : t - To(w[1], w[2], w[3]) \in Flat(d)
            IN  x[From(w[1], w[2], w[3]) + (t - To(w[1], w[2], w[3]))]]

\* split_heads: [1, seq, heads * hd] to [1, heads, seq, hd]; merge_heads: back.
SplitHeads(x, seq, heads, hd) == PermuteRuns(x, 1, seq, heads, hd)
MergeHeads(x, seq, heads, hd) == PermuteRuns(x, 1, heads, seq, hd)

-----------------------------------------------------------------------------
(* Rotary embedding: a value turned by a position is the pair it was       *)
(* computed from, the frequency, and which of the two it is.               *)

Turned(x0, x1, freq, pos, half) == [x0 |-> x0, x1 |-> x1, freq |-> freq, pos |-> pos, half |-> half]

\* apply_rope: [heads, seq, hd], element i is paired with i + hd / 2.
ApplyRope(x, positions, heads, seq, hd) ==
    [o \in DOMAIN x |->
        LET base == (o \div hd) * hd
            i == o % (hd \div 2)
        IN  Turned(x[base + i], x[base + i + hd \div 2], i, positions[((o \div hd) % seq) + 1], (o % hd) \div (hd \div 2))]

\* apply_rope_partial_scaled: only the first rotaryDim elements of a head, halved among themselves.
ApplyRopePartial(x, positions, heads, seq, hd, rotaryDim) ==
    LET half == rotaryDim \div 2
    IN  [o \in DOMAIN x |->
            LET base == (o \div hd) * hd
                i == (o - base) % half
            IN  IF o - base >= rotaryDim THEN x[o]
                ELSE Turned(x[base + i], x[base + i + half], i, positions[((o \div hd) % seq) + 1], (o - base) \div half)]

\* ggml's NORM rotation, which llama-family files are stored for: neighbours are paired (external).
NormRope(x, pos, hd) ==
    [o \in DOMAIN x |->
        LET base == o - (o % 2)
        IN  Turned(x[base], x[base + 1], (base % hd) \div 2, pos, o % 2)]

\* unpermute_qk_rows: row h*hd + a*half + b comes from row h*hd + b*2 + a of the file.
UnpermuteQkRows(x, heads, hd) ==
    [r \in DOMAIN x |->
        LET h == r \div hd
            a == (r % hd) \div (hd \div 2)
            b == (r % hd) % (hd \div 2)
        IN  x[(h * hd) + (b * 2) + a]]

-----------------------------------------------------------------------------
(* The KV cache as a flat buffer [heads, room, hd] of one batch.           *)

CopyWithin(buf, from, to, n) == [o \in DOMAIN buf |-> IF o - to \in Flat(n) THEN buf[from + (o - to)] ELSE buf[o]]

\* Steps 0 .. n-1 of a loop over a buffer.
Loop(buf, n, Step(_, _)) == LET b[k \in 0 .. n] == IF k = 0 THEN buf ELSE Step(b[k - 1], k - 1) IN b[n]

\* update_kv_cache: per head, positions slide down one after the other, then the new ones follow.
UpdateKvF32(buf, heads, room, hd, cur, new, n) ==
    LET shift == Max({0, cur + n - room})
        keep == cur - shift
        base(h) == h * room * hd
        slid == IF shift = 0 THEN buf
                ELSE Loop(buf, heads * keep,
                          LAMBDA b, k : LET h == k \div keep
                                            s == k % keep
                                        IN  CopyWithin(b, base(h) + (s + shift) * hd, base(h) + s * hd, hd))
        put == Loop(slid, heads * n,
                    LAMBDA b, k : LET at == base(k \div n) + (keep + (k % n)) * hd
                                  IN  [o \in DOMAIN b |-> IF o - at \in Flat(hd) THEN new[k * hd + (o - at)] ELSE b[o]])
    IN  put

\* slice_axis and to_contiguous_f32_vec: the live prefix of every head, packed.
LivePrefix(buf, heads, room, hd, total) ==
    [o \in Flat(heads * total * hd) |-> buf[((o \div (total * hd)) * room * hd) + (o % (total * hd))]]

\* A Q8_0 block rounds; what is read back is not what was written.
Q8(v) == [rounded |-> v]

\* Mutant: the decoded prefix is read with the stride of the live positions.
UpdateKvQ8_PackedStride(buf, heads, room, blocks, cur, new, n) ==
    LET shift == Max({0, cur + n - room})
        keep == cur - shift
        total == Min({cur + n, room})
        PosOff(h, s) == (h * room + s) * blocks
        slid == IF shift = 0 THEN buf
                ELSE Loop(buf, heads * keep,
                          LAMBDA b, k : CopyWithin(b, PosOff(k \div keep, (k % keep) + shift), PosOff(k \div keep, k % keep), blocks))
        put == Loop(slid, heads * n,
                    LAMBDA b, k : LET at == PosOff(k \div n, keep + (k % n))
                                  IN  [o \in DOMAIN b |-> IF o - at \in Flat(blocks) THEN Q8(new[k * blocks + (o - at)]) ELSE b[o]])
    IN  [buf |-> put, out |-> [o \in Flat(heads * total * blocks) |-> put[o]]]

\* update_kv_cache_q8: the same over packed blocks, blocks per position, encoded when written and
\* decoded from the live prefix.
UpdateKvQ8(buf, heads, room, blocks, cur, new, n) ==
    LET shift == Max({0, cur + n - room})
        keep == cur - shift
        total == Min({cur + n, room})
        PosOff(h, s) == (h * room + s) * blocks
        slid == IF shift = 0 THEN buf
                ELSE Loop(buf, heads * keep,
                          LAMBDA b, k : CopyWithin(b, PosOff(k \div keep, (k % keep) + shift), PosOff(k \div keep, k % keep), blocks))
        put == Loop(slid, heads * n,
                    LAMBDA b, k : LET at == PosOff(k \div n, keep + (k % n))
                                  IN  [o \in DOMAIN b |-> IF o - at \in Flat(blocks) THEN Q8(new[k * blocks + (o - at)]) ELSE b[o]])
    IN  [buf |-> put,
         out |-> [o \in Flat(heads * total * blocks) |->
                    put[PosOff(o \div (total * blocks), (o \div blocks) % total) + (o % blocks)]]]

\* append_kv of Gemma 3: both halves of every head side by side.
AppendKv(old, new, heads, sOld, sNew, hd) ==
    [o \in Flat(heads * (sOld + sNew) * hd) |->
        LET h == o \div ((sOld + sNew) * hd)
            r == o % ((sOld + sNew) * hd)
        IN  IF r < sOld * hd THEN old[h * sOld * hd + r] ELSE new[h * sNew * hd + (r - sOld * hd)]]

-----------------------------------------------------------------------------
(* Attention and the output head.                                          *)

\* scaled_dot_product_attention: chunk bh of the output, its row qi, read query row qi of head h
\* and the keys and values of head h / rep.
AttentionReads(heads, kvHeads, seqQ, seqK, hd, o) ==
    LET h == o \div (seqQ * hd)
        qi == (o % (seqQ * hd)) \div hd
        kv == (h \div (heads \div kvHeads)) * seqK * hd
    IN  [q |-> {(h * seqQ + qi) * hd + d : d \in Flat(hd)},
         k |-> {kv + j : j \in Flat(seqK * hd)},
         v |-> {kv + ki * hd + (o % hd) : ki \in Flat(seqK)}]

\* mlp_phi3_bk: the first half of a fused row is the gate, the second the up projection.
GateOf(x, rows, inter) == [o \in Flat(rows * inter) |-> x[(o \div inter) * 2 * inter + (o % inter)]]
UpOf(x, rows, inter)   == [o \in Flat(rows * inter) |-> x[(o \div inter) * 2 * inter + inter + (o % inter)]]

\* logits_from_hidden: the last row; all_logits_from_hidden: row i is answer i; mean_pool_hidden.
LastRow(x, seq, hidden) == [o \in Flat(hidden) |-> x[(seq - 1) * hidden + o]]
RowOf(x, hidden, i)     == [o \in Flat(hidden) |-> x[i * hidden + o]]
MeanPool(x, seq, hidden) == [i \in Flat(hidden) |-> {x[t * hidden + i] : t \in Flat(seq)}]

-----------------------------------------------------------------------------
(* Element e of head h of position s, by name.                             *)

Named(seq, heads, hd) == [o \in Flat(seq * heads * hd) |-> <<o \div (heads * hd), (o \div hd) % heads, o % hd>>]
HeadMajor(seq, heads, hd) == [o \in Flat(seq * heads * hd) |-> <<(o \div hd) % seq, o \div (seq * hd), o % hd>>]
=============================================================================
