---------------------------- MODULE QuantKernels ----------------------------
(***************************************************************************)
(* The dot-product kernels of the CPU backend (kernels/quant.rs).  A       *)
(* kernel is a function from the indices of its loops (and SIMD lanes) to  *)
(* the product it accumulates there.  What each must compute: for every    *)
(* output <<weight row, activation row>>, each weight once, as to_f32_vec  *)
(* reads it, times its activation, with the scale of that activation.      *)
(*                                                                         *)
(* Rounding and the order of float additions are left out; what is kept is *)
(* which byte, shift, scale, activation and accumulator meet.              *)
(***************************************************************************)
EXTENDS QuantLayout

\* A product: its accumulator, the weight and its scale <<row, block, number>>, the activation
\* and its scale <<row, number>>.
ScaledProd(out, row, blk, bits, scale, x, xscale) ==
    [out |-> out, w |-> <<row, blk, bits>>, scale |-> scale, x |-> x, xscale |-> xscale]

\* The usual one: both scales are those of the row and block at hand.
Prod(out, row, blk, f, xrow, x, sx) ==
    ScaledProd(out, row, blk, f.bits, <<row, blk, f.sub>>, <<xrow, x>>, <<xrow, sx>>)

\* What the kernels must accumulate: rows x xrows outputs over nb blocks of format fmt,
\* activations quantised as act.
DotProducts(fmt, act, rows, xrows, nb) ==
    LET size == BlockSize(fmt)
    IN  {Prod(<<r, xr>>, r, b, p[2], xr, size * b + p[1], ScaleOf(act, size * b + p[1])) :
            r \in rows, xr \in xrows, b \in 0 .. nb - 1, p \in ToF32(fmt)}

\* Every required product once, and no other.
Accumulates(K, products) ==
    /\ {K[i] : i \in DOMAIN K} = products
    /\ Cardinality(DOMAIN K) = Cardinality(products)

Nibble(byte, h, sub) == Field(<< <<byte, 4 * h>> >>, sub)

-----------------------------------------------------------------------------
(* Q4_0 and Q8_0.                                                          *)

\* dot_q4_0_block_scalar, row by row.
DotQ4_0Scalar(nb) ==
    [<<b, j, h>> \in (0 .. nb - 1) \X (0 .. 15) \X {0, 1} |->
        Prod(<<0, 0>>, 0, b, Nibble(2 + j, h, 0), 0, b * QK + j + 16 * h, 0)]

\* dot_q4_0_block_neon: low lanes widened into four vectors for x0..x3, high ones for x4..x7.
DotQ4_0Neon(nb) ==
    [<<b, h, v, l>> \in (0 .. nb - 1) \X {0, 1} \X (0 .. 3) \X (0 .. 3) |->
        Prod(<<0, 0>>, 0, b, Nibble(2 + 4 * v + l, h, 0), 0, b * QK + 4 * (4 * h + v) + l, 0)]

Byte(byte) == Field(<< <<byte, 0>> >>, 0)

\* dot_q8_0_block_scalar and dot_q8_0_row_i8_scalar.
DotQ8_0Scalar(act, nb) ==
    [<<b, j>> \in (0 .. nb - 1) \X (0 .. 31) |->
        Prod(<<0, 0>>, 0, b, Byte(2 + j), 0, b * QK + j, ScaleOf(act, b * QK))]

\* dot_q8_0_block_neon: fma_group(q, x) for q = x = 0, 8, 16, 24, as two vectors of four.
DotQ8_0Neon(nb) ==
    [<<b, q, v, l>> \in (0 .. nb - 1) \X {0, 8, 16, 24} \X {0, 4} \X (0 .. 3) |->
        Prod(<<0, 0>>, 0, b, Byte(2 + q + v + l), 0, b * QK + q + v + l, 0)]

\* dot_q8_0_row_avx2: two loads of four weights per group, widened to eight lanes whose upper
\* four are zero and add nothing.
DotQ8_0Avx2(nb) ==
    [<<b, g, a, l>> \in (0 .. nb - 1) \X (0 .. 3) \X {0, 1} \X (0 .. 3) |->
        Prod(<<0, 0>>, 0, b, Byte(2 + 4 * (2 * g + a) + l), 0, b * QK + g * 8 + 4 * a + l, 0)]

\* The activations those eight-lane loads touch.
ReadsQ8_0Avx2(nb) ==
    {b * QK + g * 8 + 4 * a + l : b \in 0 .. nb - 1, g \in 0 .. 3, a \in {0, 1}, l \in 0 .. 7}

\* dot_q8_0_row_sdot: two vectors of 16 per block.
DotQ8_0Sdot(nb) ==
    [<<b, v, l>> \in (0 .. nb - 1) \X {0, 16} \X (0 .. 15) |->
        Prod(<<0, 0>>, 0, b, Byte(2 + v + l), 0, b * QK + v + l, b)]

\* The scale at place bi * stride + col + lane of a scale matrix stored block by block.
Transposed(bi, stride, col, lane) == LET p == bi * stride + col + lane IN <<p % stride, p \div stride>>

\* dot_q8_0_row_sdot_x4: one weight row, activation rows col .. col + 3 of stride.
DotQ8_0SdotX4(nb, stride, col) ==
    [<<b, r, v, l>> \in (0 .. nb - 1) \X (0 .. 3) \X {0, 16} \X (0 .. 15) |->
        LET sx == Transposed(b, stride, col, r)
        IN  ScaledProd(<<0, col + r>>, 0, b, << <<2 + v + l, 0>> >>, <<0, b, 0>>,
                       <<col + r, b * QK + v + l>>, sx)]

\* dot_q8_0_4rows_sdot_x4: pairs (w0, w1) .. (w6, w7) are the halves of weight rows 0..3; lane
\* l of the pairwise sums is row l, its scale lane l of ws, the activation's lane r of xs.
DotQ8_0x4x4(nb, wsStride, wsCol, stride, col) ==
    [<<b, r, w, l>> \in (0 .. nb - 1) \X (0 .. 3) \X (0 .. 7) \X (0 .. 15) |->
        LET ws == Transposed(b, wsStride, wsCol, w \div 2)
            sx == Transposed(b, stride, col, r)
            o  == 16 * (w % 2)
        IN  ScaledProd(<<wsCol + w \div 2, col + r>>, wsCol + w \div 2, b, << <<2 + o + l, 0>> >>,
                       <<ws[1], ws[2], 0>>, <<col + r, b * QK + o + l>>, sx)]

-----------------------------------------------------------------------------
(* SIMD: vectors of 16 lanes, the transposes of 64-bit halves, and the     *)
(* 2x8 by 8x2 product smmla (lane 2i + j is row i of a times row j of b).  *)

Lanes == 0 .. 15

Vtrn1(a, b) == [i \in Lanes |-> IF i < 8 THEN a[i] ELSE b[i - 8]]
Vtrn2(a, b) == [i \in Lanes |-> IF i < 8 THEN a[i + 8] ELSE b[i]]

Smmla(a, b, lane, t) == <<a[8 * (lane \div 2) + t], b[8 * (lane % 2) + t]>>

\* Segment s of a pair of rows: first or second half of their first or second vector.
Segment(v0, v1, s) == IF s = 0 THEN Vtrn1(v0, v1) ELSE Vtrn2(v0, v1)

-----------------------------------------------------------------------------
(* Q4_K.  Step g of block b has q_off = 32g, is = 2g, x_off = 256b + 64g.  *)

Q4Step(nb) == (0 .. nb - 1) \X (0 .. 3)

XOff(b, g) == QK_K * b + 64 * g

\* q8 scales each half by the scale at x_off / 32 or (x_off + 32) / 32, q8k the block by x_scales[b].
StepScale(act, b, g, h) ==
    CASE act = "f32" -> 0 [] act = "q8" -> (XOff(b, g) + 32 * h) \div QK [] act = "q8k" -> b

DotQ4_KScalar(act, nb) ==
    [<<s, h, l>> \in Q4Step(nb) \X {0, 1} \X (0 .. 31) |->
        LET b == s[1]
            g == s[2]
        IN  Prod(<<0, 0>>, 0, b, Nibble(16 + 32 * g + l, h, 2 * g + h), 0, XOff(b, g) + 32 * h + l,
                 StepScale(act, b, g, h))]

\* dot_q4_k_row_f32_neon: four chunks of eight bytes, each two vectors of four.
DotQ4_KF32Neon(nb) ==
    [<<s, h, c, v, l>> \in Q4Step(nb) \X {0, 1} \X (0 .. 3) \X {0, 4} \X (0 .. 3) |->
        LET b == s[1]
            g == s[2]
        IN  Prod(<<0, 0>>, 0, b, Nibble(16 + 32 * g + 8 * c + v + l, h, 2 * g + h), 0,
                 XOff(b, g) + 32 * h + 8 * c + v + l, 0)]

\* One row, four rows that share the activation vectors, or four repacked rows: there the block
\* of row r is at place 4b + r.
DotQ4_KNeon(act, layout, rows, nb) ==
    [<<s, r, h, v, l>> \in Q4Step(nb) \X rows \X {0, 1} \X {0, 16} \X Lanes |->
        LET b  == s[1]
            g  == s[2]
            at == IF layout = "r4" THEN UnpackR4(4 * b + r, nb) ELSE <<r, b>>
        IN  Prod(<<r, 0>>, at[1], at[2], Nibble(16 + 32 * g + v + l, h, 2 * g + h), 0,
                 XOff(b, g) + 32 * h + v + l, StepScale(act, b, g, h))]

\* Two pairs of weight rows against two activation
\* rows; per nibble half h, four segments: both halves s of both vectors v.
DotQ4_KSmmla(act, nb) ==
    [<<st, pair, h, v, s, lane, t>> \in
            Q4Step(nb) \X {0, 1} \X {0, 1} \X {0, 16} \X {0, 1} \X (0 .. 3) \X (0 .. 7) |->
        LET b       == st[1]
            g       == st[2]
            bytes(r) == [i \in Lanes |-> <<r, 16 + 32 * g + v + i>>]
            xs(xr)  == [i \in Lanes |-> <<xr, XOff(b, g) + 32 * h + v + i>>]
            wx      == Smmla(Segment(bytes(2 * pair), bytes(2 * pair + 1), s),
                             Segment(xs(0), xs(1), s), lane, t)
            at      == UnpackR4(4 * b + wx[1][1], nb)
        IN  Prod(<<2 * pair + lane \div 2, lane % 2>>, at[1], at[2],
                 Nibble(wx[1][2], h, 2 * g + h), wx[2][1], wx[2][2], StepScale(act, b, g, h))]

\* The correction by the minima: Prod with the constant weight 1 in place of the weight.
MinProd(out, row, blk, sub, xrow, x, sx) == Prod(out, row, blk, Field(<<>>, sub), xrow, x, sx)

MinProducts(act, rows, xrows, nb) ==
    {MinProd(<<r, xr>>, r, b, p[2].sub, xr, QK_K * b + p[1], ScaleOf(act, QK_K * b + p[1])) :
        r \in rows, xr \in xrows, b \in 0 .. nb - 1, p \in ToF32_Q4_K}

\* The minimum of sub-block is + h times x_sums[(x_off + 32h) / 32], for all rows and both
\* activation rows.
DotQ4_KMins(act, rows, xrows, nb) ==
    [<<s, r, xr, h, i>> \in Q4Step(nb) \X rows \X xrows \X {0, 1} \X (0 .. 31) |->
        LET sum == (XOff(s[1], s[2]) + 32 * h) \div QK
            x   == CHOOSE y \in SummedBy(sum) : y % QK = i
        IN  MinProd(<<r, xr>>, r, s[1], 2 * s[2] + h, xr, x, StepScale(act, s[1], s[2], h))]

dot_q4_k_row_f32_scalar(nb)  == DotQ4_KScalar("f32", nb)
dot_q4_k_row_q8_scalar(nb)   == DotQ4_KScalar("q8", nb)
dot_q4_k_row_q8k_scalar(nb)  == DotQ4_KScalar("q8k", nb)
dot_q4_k_row_q8_neon(nb)     == DotQ4_KNeon("q8", "rows", {0}, nb)
dot_q4_k_row_q8k_neon(nb)    == DotQ4_KNeon("q8k", "rows", {0}, nb)
dot_q4_k_4rows_q8_neon(nb)   == DotQ4_KNeon("q8", "rows", 0 .. 3, nb)
dot_q4_k_4rows_q8k_neon(nb)  == DotQ4_KNeon("q8k", "rows", 0 .. 3, nb)
dot_q4_k_4rows_r4_neon(nb)   == DotQ4_KNeon("q8", "r4", 0 .. 3, nb)
dot_q4_k_4rows_r4_q8k_neon(nb)     == DotQ4_KNeon("q8k", "r4", 0 .. 3, nb)
dot_q4_k_4rows_r4_x2_smmla(nb)     == DotQ4_KSmmla("q8", nb)
dot_q4_k_4rows_r4_x2_q8k_smmla(nb) == DotQ4_KSmmla("q8k", nb)

-----------------------------------------------------------------------------
(* Q5_K: bit planes u1 = 1, 4, 16, 64 and u2 = 2, 8, 32, 128.              *)

\* Mutant, the code before its repair: byte qh[is / 8] for all 32 elements (kept as a test, quant.rs:3175).
HighByte_PerSubBlock(g, l) == 16 + (2 * g) \div 8

HighByte(g, l) == 16 + l

Field5(g, h, l) == Field(<< <<48 + 32 * g + l, 4 * h>>, <<HighByte(g, l), 2 * g + h>> >>, 2 * g + h)

DotQ5_KScalar(nb) ==
    [<<s, h, l>> \in Q4Step(nb) \X {0, 1} \X (0 .. 31) |->
        Prod(<<0, 0>>, 0, s[1], Field5(s[2], h, l), 0, XOff(s[1], s[2]) + 32 * h + l, 0)]

\* dot_q5_k_row_f32_neon: two halves of 16 lanes, each four vectors of four.
DotQ5_KNeon(nb) ==
    [<<s, hf, h, c, l>> \in Q4Step(nb) \X {0, 16} \X {0, 1} \X (0 .. 3) \X (0 .. 3) |->
        Prod(<<0, 0>>, 0, s[1], Field5(s[2], h, hf + 4 * c + l), 0,
             XOff(s[1], s[2]) + 32 * h + hf + 4 * c + l, 0)]

-----------------------------------------------------------------------------
(* Q6_K.  Half hf of block b has ql_off = 64hf, qh_off = 32hf, sc_base =   *)
(* 8hf; group s = 0..3 is q1..q4, l0 = 0 or 16 and is = l0 / 16.           *)

Q6Half(nb) == (0 .. nb - 1) \X (0 .. 1)

Field6(hf, s, l0, l) ==
    Field(<< <<64 * hf + l0 + l + 32 * (s % 2), 4 * (s \div 2)>>, <<128 + 32 * hf + l0 + l, 2 * s>> >>,
          8 * hf + l0 \div 16 + 2 * s)

X6(b, hf, s, l0) == QK_K * b + 128 * hf + 32 * s + l0

GroupScale(act, b, hf, s, l0) ==
    CASE act = "f32" -> 0 [] act = "q8" -> X6(b, hf, s, l0) \div QK [] act = "q8k" -> b

\* dot_q6_k_row_f32_scalar: l runs over 0..31, the scale splits at l / 16.
DotQ6_KF32Scalar(nb) ==
    [<<bh, s, l>> \in Q6Half(nb) \X (0 .. 3) \X (0 .. 31) |->
        Prod(<<0, 0>>, 0, bh[1], Field6(bh[2], s, 16 * (l \div 16), l % 16), 0,
             X6(bh[1], bh[2], s, 0) + l, 0)]

\* One row, or four repacked ones, sixteen lanes at a time.
DotQ6_KRows(act, layout, rows, nb) ==
    [<<bh, l0, r, s, l>> \in Q6Half(nb) \X {0, 16} \X rows \X (0 .. 3) \X Lanes |->
        LET b  == bh[1]
            at == IF layout = "r4" THEN UnpackR4(4 * b + r, nb) ELSE <<r, b>>
        IN  Prod(<<r, 0>>, at[1], at[2], Field6(bh[2], s, l0, l), 0, X6(b, bh[2], s, l0) + l,
                 GroupScale(act, b, bh[2], s, l0))]

\* One vector per group, two segments.
DotQ6_KSmmla(act, nb) ==
    [<<bh, l0, pair, g, s, lane, t>> \in
            Q6Half(nb) \X {0, 16} \X {0, 1} \X (0 .. 3) \X {0, 1} \X (0 .. 3) \X (0 .. 7) |->
        LET b      == bh[1]
            qm(r)  == [i \in Lanes |-> <<r, i>>]
            xv(xr) == [i \in Lanes |-> <<xr, X6(b, bh[2], g, l0) + i>>]
            wx     == Smmla(Segment(qm(2 * pair), qm(2 * pair + 1), s),
                            Segment(xv(0), xv(1), s), lane, t)
            at     == UnpackR4(4 * b + wx[1][1], nb)
        IN  Prod(<<2 * pair + lane \div 2, lane % 2>>, at[1], at[2],
                 Field6(bh[2], g, l0, wx[1][2]), wx[2][1], wx[2][2],
                 GroupScale(act, b, bh[2], g, l0))]

dot_q6_k_row_q8_scalar(nb)   == DotQ6_KRows("q8", "rows", {0}, nb)
dot_q6_k_row_q8_neon(nb)     == DotQ6_KRows("q8", "rows", {0}, nb)
dot_q6_k_row_q8k_scalar(nb)  == DotQ6_KRows("q8k", "rows", {0}, nb)
dot_q6_k_row_q8k_neon(nb)    == DotQ6_KRows("q8k", "rows", {0}, nb)
dot_q6_k_row_f32_neon(nb)    == DotQ6_KRows("f32", "rows", {0}, nb)
dot_q6_k_4rows_r4_q8_neon(nb)      == DotQ6_KRows("q8", "r4", 0 .. 3, nb)
dot_q6_k_4rows_r4_q8k_neon(nb)     == DotQ6_KRows("q8k", "r4", 0 .. 3, nb)
dot_q6_k_4rows_r4_neon(nb)         == DotQ6_KRows("f32", "r4", 0 .. 3, nb)
dot_q6_k_4rows_r4_x2_smmla(nb)     == DotQ6_KSmmla("q8", nb)
dot_q6_k_4rows_r4_x2_q8k_smmla(nb) == DotQ6_KSmmla("q8k", nb)

-----------------------------------------------------------------------------
(* F16 weights of the float kernels.  A float is its three bit fields.     *)

Half(bits) == [sign |-> bits \div 2^15, exp |-> (bits \div 2^10) % 2^5, mant |-> bits % 2^10]

NormalHalves == {bits \in 0 .. 2^16 - 1 : Half(bits).exp \in 1 .. 30}

\* half::f16::to_f32 of a normal number: the bias of the exponent is 127 instead of 15.
ToF32_F16(bits) ==
    [sign |-> Half(bits).sign, exp |-> Half(bits).exp + 112, mant |-> Half(bits).mant * 2^13]

\* What dot_f32_x_f16_neon makes of a weight.  exp16 is the number shifted by 10 and not masked:
\* the sign bit above the exponent comes with it.  (At most 63 + 112, so that it does not carry
\* into the sign of the result.)
NeonF16(bits) ==
    LET exp16 == bits \div 2^10
    IN  [sign |-> bits \div 2^15, exp |-> exp16 + 112, mant |-> (bits % 2^10) * 2^13]
=============================================================================
