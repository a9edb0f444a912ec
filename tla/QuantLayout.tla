---------------------------- MODULE QuantLayout ----------------------------
(***************************************************************************)
(* The quantised block formats of sapient.  A weight is never computed     *)
(* here: it is the place it is read from, a Field: the bit fields that are *)
(* put together to form it, each <<byte of the block, shift>>, and the     *)
(* number of the scale (and minimum) of its sub-block.  A reader is the    *)
(* set of pairs <<element of the block, Field>> its loops assign.          *)
(*                                                                         *)
(* Readers: Tensor::to_f32_vec (core), the dequantisers of the GGUF loader *)
(* (io), quantize_q4_0_block and the row repacking (cpu backend).          *)
(***************************************************************************)
EXTENDS Integers, FiniteSets

QK   == 32
QK_K == 256

Formats == {"Q4_0", "Q5_0", "Q8_0", "Q4_K", "Q5_K", "Q6_K"}

BlockSize(f) == IF f \in {"Q4_0", "Q5_0", "Q8_0"} THEN QK ELSE QK_K

BlockBytes(f) == CASE f = "Q4_0" -> 18 [] f = "Q5_0" -> 22 [] f = "Q8_0" -> 34
                   [] f = "Q4_K" -> 144 [] f = "Q5_K" -> 176 [] f = "Q6_K" -> 210

Field(bits, sub) == [bits |-> bits, sub |-> sub]

-----------------------------------------------------------------------------
(* core/tensor.rs: what an element of a tensor is.                         *)

ToF32_Q4_0 == {<<j + 16 * h, Field(<< <<2 + j, 4 * h>> >>, 0)>> : j \in 0 .. 15, h \in 0 .. 1}

ToF32_Q8_0 == {<<j, Field(<< <<2 + j, 0>> >>, 0)>> : j \in 0 .. 31}

\* dequant_q4_k_block: 64 elements per step g, low nibbles then high ones.
ToF32_Q4_K ==
    {<<64 * g + 32 * h + l, Field(<< <<16 + 32 * g + l, 4 * h>> >>, 2 * g + h)>> :
        g \in 0 .. 3, h \in 0 .. 1, l \in 0 .. 31}

\* The fifth bit of element l is in plane 2g + h of byte qh[l].
ToF32_Q5_K ==
    {<<64 * g + 32 * h + l,
       Field(<< <<48 + 32 * g + l, 4 * h>>, <<16 + l, 2 * g + h>> >>, 2 * g + h)>> :
        g \in 0 .. 3, h \in 0 .. 1, l \in 0 .. 31}

\* dequant_q6_k_block: halves hf of 128, four groups s of 32, scales split at l = 16.
ToF32_Q6_K ==
    {<<128 * hf + 32 * s + l,
       Field(<< <<64 * hf + 32 * (s % 2) + l, 4 * (s \div 2)>>, <<128 + 32 * hf + l, 2 * s>> >>,
             8 * hf + l \div 16 + 2 * s)>> :
        hf \in 0 .. 1, s \in 0 .. 3, l \in 0 .. 31}

ToF32(f) == CASE f = "Q4_0" -> ToF32_Q4_0 [] f = "Q8_0" -> ToF32_Q8_0 [] f = "Q4_K" -> ToF32_Q4_K
              [] f = "Q5_K" -> ToF32_Q5_K [] f = "Q6_K" -> ToF32_Q6_K

-----------------------------------------------------------------------------
(* io/gguf.rs: the loader's own dequantisers, used for a type that is not  *)
(* kept as blocks.                                                         *)

Gguf_Q4_0 == {<<j + 16 * h, Field(<< <<2 + j, 4 * h>> >>, 0)>> : j \in 0 .. 15, h \in 0 .. 1}

\* Bit j of the 32-bit qh for element j, bit j + 16 (shift j + 12, mask 0x10) for element j + 16.
Gguf_Q5_0 ==
    {<<j + 16 * h, Field(<< <<6 + j, 4 * h>>, <<2 + (j + 16 * h) \div 8, (j + 16 * h) % 8>> >>, 0)>> :
        j \in 0 .. 15, h \in 0 .. 1}

Gguf_Q8_0 == {<<i, Field(<< <<2 + i, 0>> >>, 0)>> : i \in 0 .. 31}

Gguf_Q4_K ==
    {<<64 * g + 32 * h + l, Field(<< <<16 + 32 * g + l, 4 * h>> >>, 2 * g + h)>> :
        g \in 0 .. 3, h \in 0 .. 1, l \in 0 .. 31}

\* Here the fifth bit comes from byte qh[is / 8], the same for all 32 elements.
Gguf_Q5_K ==
    {<<64 * g + 32 * h + l,
       Field(<< <<48 + 32 * g + l, 4 * h>>, <<16 + (2 * g) \div 8, 2 * g + h>> >>, 2 * g + h)>> :
        g \in 0 .. 3, h \in 0 .. 1, l \in 0 .. 31}

Gguf_Q6_K ==
    {<<128 * hf + 32 * s + l,
       Field(<< <<64 * hf + 32 * (s % 2) + l, 4 * (s \div 2)>>, <<128 + 32 * hf + l, 2 * s>> >>,
             8 * hf + l \div 16 + 2 * s)>> :
        hf \in 0 .. 1, s \in 0 .. 3, l \in 0 .. 31}

DequantizeToF32(f) ==
    CASE f = "Q4_0" -> Gguf_Q4_0 [] f = "Q5_0" -> Gguf_Q5_0 [] f = "Q8_0" -> Gguf_Q8_0
      [] f = "Q4_K" -> Gguf_Q4_K [] f = "Q5_K" -> Gguf_Q5_K [] f = "Q6_K" -> Gguf_Q6_K

\* Mutant: Q5_K is dequantised by the loader.
ToSapientDtype_NoQ5K == {"Q4_0", "Q8_0", "Q4_K", "Q6_K"}

\* GgmlType::to_sapient_dtype: the types whose blocks are kept as they are.
ToSapientDtype == {"Q4_0", "Q8_0", "Q4_K", "Q5_K", "Q6_K"}

\* make_tensor, make_tensor_mmap: the elements a tensor of type f will be read with.
MakeTensor(f) == IF f \in ToSapientDtype THEN ToF32(f) ELSE DequantizeToF32(f)

-----------------------------------------------------------------------------
(* The six-bit scales and minima of Q4_K and Q5_K: number j, as the bits   *)
(* <<byte of the scales, bit>> it is put together from, lowest first.      *)

Bits(byte, low, n) == [i \in 0 .. n - 1 |-> <<byte, low + i>>]

Concat(a, m, b, n) == [i \in 0 .. m + n - 1 |-> IF i < m THEN a[i] ELSE b[i - m]]

ScaleK4(j) == IF j < 4 THEN Bits(j, 0, 6) ELSE Concat(Bits(j + 4, 0, 4), 4, Bits(j - 4, 6, 2), 2)
MinK4(j)   == IF j < 4 THEN Bits(j + 4, 0, 6) ELSE Concat(Bits(j + 4, 4, 4), 4, Bits(j, 6, 2), 2)

-----------------------------------------------------------------------------
(* Four rows interleaved: repack_q4_k_rows4 and repack_q6_k_rows4 move     *)
(* block src of a matrix of n rows of nb blocks to place dst; to_f32_vec   *)
(* reads place p as block <<row, b>>.                                      *)

RepackRows4(n, nb) ==
    {[src |-> (4 * g + r) * nb + b, dst |-> 4 * g * nb + 4 * b + r] :
        g \in 0 .. n \div 4 - 1, b \in 0 .. nb - 1, r \in 0 .. 3}

UnpackR4(p, nb) == LET rem == p % (4 * nb) IN <<4 * (p \div (4 * nb)) + (rem % 4), rem \div 4>>

-----------------------------------------------------------------------------
(* Quantising weights and activations.                                     *)

\* quantize_q4_0_block: the nibble element e is written to.
QuantizeQ4_0 == {<<j + 16 * h, Field(<< <<2 + j, 4 * h>> >>, 0)>> : j \in 0 .. 15, h \in 0 .. 1}

\* quantize_q8_0_block and gguf.rs quantize_to_q8_0.
QuantizeQ8_0 == {<<i, Field(<< <<2 + i, 0>> >>, 0)>> : i \in 0 .. 31}

\* Elements per activation scale: none for f32, a block, a super-block; and per sum of x.
ScaleSpan(act) == IF act = "q8k" THEN QK_K ELSE QK

\* quantize_row_to_i8_blocks and quantize_row_to_q8k: element i is scaled by its scale.
ScaleOf(act, i) == IF act = "f32" THEN 0 ELSE i \div ScaleSpan(act)

\* i8_block_sums and the sums of quantize_row_to_q8k: what sums[j] adds up.
SummedBy(j) == QK * j .. QK * j + QK - 1

\* quantize_row_to_i8_blocks_into on aarch64: eight vectors of four, narrowed in pairs; pairs
\* <<place in the output block, element of the input block>>.
IntoLane(h, t) == LET v == 4 * h + t \div 4 IN <<16 * h + t, 4 * v + (t % 4)>>
QuantizeInto == {IntoLane(h, t) : h \in 0 .. 1, t \in 0 .. 15}

=============================================================================
