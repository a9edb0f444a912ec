---------------------------- MODULE GpuKernels ----------------------------
(***************************************************************************)
(* The wgpu backend: what its uploads put into GPU buffers, and the        *)
(* products its matmul and embedding shaders form from them.  A buffer is  *)
(* an array of words; a word is read as four bytes and traced back to the  *)
(* block of the weight row it was uploaded from.  The reduction of the     *)
(* lanes' partial sums is module WorkgroupReduce.                          *)
(***************************************************************************)
EXTENDS QuantKernels, MatmulPlan

CONSTANTS
    LANES,    \* threads that share an output element of a decode (gemv) shader
    ROWS,     \* output elements of a workgroup of such a shader (GEMV_ROWS)
    MT,       \* activation rows of a tile of a multi-token shader (MT_ROWS)
    WG        \* threads of a workgroup

ASSUME GpuAssumption == {LANES, ROWS, MT, WG} \subseteq Nat \ {0} /\ WG = LANES * ROWS /\ MT <= WG

-----------------------------------------------------------------------------
(* Uploads.                                                                *)

\* Words of a block: Q4_K verbatim, Q6_K padded from 210 to 212 bytes, the quants of Q8_0
\* without their scale, which goes to a buffer of its own.
WordsPerBlock(fmt) == CASE fmt = "Q4_K" -> 36 [] fmt = "Q6_K" -> 53 [] fmt = "Q8_0" -> 8

\* Byte `lane` of word `word` of a buffer of rows of nb blocks: <<row, block, byte of the block>>.
Uploaded(fmt, nb, word, lane) ==
    LET wpb == WordsPerBlock(fmt)
        blk == word \div wpb
        at  == 4 * (word % wpb) + lane
    IN  <<blk \div nb, blk % nb, IF fmt = "Q8_0" THEN at + 2 ELSE at>>

-----------------------------------------------------------------------------
(* The weights four byte lanes of a word stand for, in each shader.        *)

\* Sub-block `sub` of row rn (matmul_nt_q4_k*.wgsl): word w = 0..7, lane.
Q4Weight(nb, rn, sub, w, lane) ==
    LET is  == sub % 8
        blk == rn * nb * 36 + (sub \div 8) * 36
        at  == Uploaded("Q4_K", nb, blk + 4 + (is \div 2) * 8 + w, lane)
    IN  [row |-> at[1], blk |-> at[2], bits |-> << <<at[3], 4 * (is % 2)>> >>,
         scale |-> <<rn, sub \div 8, is>>,
         x |-> QK_K * (sub \div 8) + 32 * is + 4 * w + lane]

\* Scale group sg of row rn (matmul_nt_q6_k*.wgsl): word w = 0..3, lane.
Q6Weight(nb, rn, sg, w, lane) ==
    LET s   == sg % 16
        h   == s \div 8
        g   == (s % 8) \div 2
        l16 == s % 2
        blk == rn * nb * 53 + (sg \div 16) * 53
        lo  == Uploaded("Q6_K", nb, blk + (h * 64 + (g % 2) * 32 + l16 * 16) \div 4 + w, lane)
        hi  == Uploaded("Q6_K", nb, blk + 32 + (h * 32 + l16 * 16) \div 4 + w, lane)
    IN  [row |-> lo[1], blk |-> lo[2], bits |-> << <<lo[3], 4 * (g \div 2)>>, <<hi[3], 2 * g>> >>,
         scale |-> <<rn, sg \div 16, s>>,
         x |-> QK_K * (sg \div 16) + 128 * h + 32 * g + 16 * l16 + 4 * w + lane]

\* Word wi of row rn (matmul_nt_q8_0*.wgsl); its scale is scales[sb + wi / 8].
Q8Weight(nb, rn, wi, w, lane) ==
    LET at == Uploaded("Q8_0", nb, rn * ((nb * QK) \div 4) + wi, lane)
        sc == rn * nb + wi \div 8
    IN  [row |-> at[1], blk |-> at[2], bits |-> << <<at[3], 0>> >>,
         scale |-> <<sc \div nb, sc % nb, 0>>, x |-> 4 * wi + lane]

\* The units a lane strides over, and the words of one unit.
Units(fmt, k) == CASE fmt = "Q4_K" -> k \div 32 [] fmt = "Q6_K" -> k \div 16 [] fmt = "Q8_0" -> k \div 4
UnitWords(fmt) == CASE fmt = "Q4_K" -> 8 [] fmt = "Q6_K" -> 4 [] fmt = "Q8_0" -> 1

WeightAt(fmt, nb, rn, u, w, lane) ==
    CASE fmt = "Q4_K" -> Q4Weight(nb, rn, u, w, lane)
      [] fmt = "Q6_K" -> Q6Weight(nb, rn, u, w, lane)
      [] fmt = "Q8_0" -> Q8Weight(nb, rn, u, w, lane)

\* x[xb + i] with xb = row * k: the activation's row and column.
GpuProd(out, wt, xb, k) ==
    LET xrow == (xb + wt.x) \div k
    IN  ScaledProd(out, wt.row, wt.blk, wt.bits, wt.scale, <<xrow, (xb + wt.x) % k>>, <<xrow, 0>>)

-----------------------------------------------------------------------------
(* Work distribution.                                                      *)

\* The gemv shaders: thread `lid` of workgroup `wg` of a dispatch of DivCeil(m * n, ROWS).  It
\* computes a clamped element, and only lane 0 of an element in range writes.
GemvIdx(wg, lid) == wg * ROWS + lid \div LANES

GemvThreads(m, n) == (0 .. DivCeil(m * n, ROWS) - 1) \X (0 .. WG - 1)

GemvWrites(m, n) == {th \in GemvThreads(m, n) : GemvIdx(th[1], th[2]) < m * n /\ th[2] % LANES = 0}

\* What is added up in out[idx]: the products of the LANES threads of its element.
MatmulGemv(fmt, m, n, nb) ==
    LET k == nb * BlockSize(fmt)
    IN  [<<th, u, w, lane>> \in
            {i \in GemvThreads(m, n) \X (0 .. Units(fmt, k) - 1) \X (0 .. UnitWords(fmt) - 1) \X (0 .. 3) :
                i[2] % LANES = i[1][2] % LANES /\ GemvIdx(i[1][1], i[1][2]) < m * n} |->
            LET idc == MinOf(GemvIdx(th[1], th[2]), m * n - 1)
                idx == GemvIdx(th[1], th[2])
            IN  GpuProd(<<idx % n, idx \div n>>, WeightAt(fmt, nb, idc % n, u, w, lane), (idc \div n) * k, k)]

\* The multi-token shaders: workgroup idx < n * tiles is weight row idx % n and the MT
\* activation rows from (idx / n) * MT; rows past the last are computed again, not written.
MtGroups(m, n) == 0 .. n * DivCeil(m, MT) - 1

MtRow(m, n, idx, t) == MinOf((idx \div n) * MT + t, m - 1)

MatmulMt(fmt, m, n, nb) ==
    LET k == nb * BlockSize(fmt)
    IN  [<<idx, t, u, w, lane>> \in
            {i \in MtGroups(m, n) \X (0 .. MT - 1) \X (0 .. Units(fmt, k) - 1)
                   \X (0 .. UnitWords(fmt) - 1) \X (0 .. 3) : (i[1] \div n) * MT + i[2] < m} |->
            GpuProd(<<idx % n, (idx \div n) * MT + t>>, WeightAt(fmt, nb, idx % n, u, w, lane),
                    MtRow(m, n, idx, t) * k, k)]

\* matmul_nt.wgsl and matmul_nt_mt.wgsl: the indices of w and x multiplied for out[idx].
MatmulF32(m, n, k) ==
    [<<th, i>> \in {j \in GemvThreads(m, n) \X (0 .. k - 1) :
                        j[2] % LANES = j[1][2] % LANES /\ GemvIdx(j[1][1], j[1][2]) < m * n} |->
        LET idc == MinOf(GemvIdx(th[1], th[2]), m * n - 1)
        IN  [out |-> GemvIdx(th[1], th[2]), w |-> (idc % n) * k + i, x |-> (idc \div n) * k + i]]

-----------------------------------------------------------------------------
(* Embedding lookups: element i of a row is the weight its thread decodes. *)

EmbedQ4_K(nb, row, i) ==
    LET e   == i % 256
        is  == e \div 32
        bi  == (is \div 2) * 32 + (e % 32)
        at  == Uploaded("Q4_K", nb, row * nb * 36 + (i \div 256) * 36 + 4 + bi \div 4, bi % 4)
    IN  <<at[1], at[2], Field(<< <<at[3], 4 * (is % 2)>> >>, is)>>

EmbedQ6_K(nb, row, i) ==
    LET e   == i % 256
        h   == e \div 128
        g   == (e % 128) \div 32
        l   == e % 32
        blk == row * nb * 53 + (i \div 256) * 53
        qlb == h * 64 + (g % 2) * 32 + l
        qhb == h * 32 + l
        lo  == Uploaded("Q6_K", nb, blk + qlb \div 4, qlb % 4)
        hi  == Uploaded("Q6_K", nb, blk + 32 + qhb \div 4, qhb % 4)
    IN  <<lo[1], lo[2], Field(<< <<lo[3], 4 * (g \div 2)>>, <<hi[3], 2 * g>> >>, 8 * h + 2 * g + l \div 16)>>

EmbedQ8_0(nb, row, i) ==
    LET at == Uploaded("Q8_0", nb, row * ((nb * QK) \div 4) + i \div 4, i % 4)
    IN  <<at[1], at[2], Field(<< <<at[3], 0>> >>, 0)>>

Embed(fmt, nb, row, i) ==
    CASE fmt = "Q4_K" -> EmbedQ4_K(nb, row, i) [] fmt = "Q6_K" -> EmbedQ6_K(nb, row, i)
      [] fmt = "Q8_0" -> EmbedQ8_0(nb, row, i)

-----------------------------------------------------------------------------
(* KV cache writes (kv_append.wgsl, kv_append_f16.wgsl): thread i copies   *)
(* element i of the new rows; a pair of f16 shares one word.               *)

KvAppend(nkv, seq, hd, maxSeq, pos) ==
    [i \in 0 .. nkv * seq * hd - 1 |->
        LET s == (i % (seq * hd)) \div hd
        IN  ((i \div (seq * hd)) * maxSeq + pos + s) * hd + (i % hd)]

KvAppendF16(nkv, seq, hd, maxSeq, pos) ==
    [j \in 0 .. (nkv * seq * hd) \div 2 - 1 |->
        LET e == 2 * j
            s == (e % (seq * hd)) \div hd
        IN  (((e \div (seq * hd)) * maxSeq + pos + s) * hd + ((e % (seq * hd)) % hd)) \div 2]

\* transpose_heads.wgsl: output element oi is source element src.
TransposeHeads(outer, inner, hd) ==
    [oi \in 0 .. outer * inner * hd - 1 |->
        LET rem == oi % (outer * hd)
        IN  ((rem \div hd) * inner + oi \div (outer * hd)) * hd + (rem % hd)]
=============================================================================
