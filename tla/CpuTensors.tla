----------------------------- MODULE CpuTensors -----------------------------
(***************************************************************************)
(* Dense tensors and the CPU kernels that graphs are executed with, in     *)
(* exact arithmetic: a tensor is its dimensions and its elements in row-   *)
(* major order, numbered from 0.  What is not linear (a softmax, a norm)   *)
(* is left as the record of the elements it reads.                         *)
(***************************************************************************)
EXTENDS Integers, Sequences, FiniteSets
LOCAL INSTANCE SequencesExt
LOCAL INSTANCE FiniteSetsExt

\* shape.rs: the number of elements, row-major strides, and broadcasting.
Numel(dims) ==
    LET upTo[i \in 0 .. Len(dims)] == IF i = 0 THEN 1 ELSE upTo[i - 1] * dims[i] IN upTo[Len(dims)]
Strides(dims) == [i \in DOMAIN dims |-> Numel(SubSeq(dims, i + 1, Len(dims)))]
Coord(dims, flat) == LET stride == Strides(dims) IN [i \in DOMAIN dims |-> (flat \div stride[i]) % dims[i]]
FlatIndex(dims, c) ==
    LET upTo[i \in 0 .. Len(dims)] == IF i = 0 THEN 0 ELSE upTo[i - 1] * dims[i] + c[i] IN upTo[Len(dims)]

\* Where no dimensions are known, and where a broadcast fails.
Unknown == <<0>>

Aligned(dims, len, i) == IF i <= len - Len(dims) THEN 1 ELSE dims[i - (len - Len(dims))]
BroadcastWith(a, b) ==
    LET len == IF Len(a) > Len(b) THEN Len(a) ELSE Len(b)
        x(i) == Aligned(a, len, i)
        y(i) == Aligned(b, len, i)
    IN  IF \E i \in 1 .. len : x(i) # y(i) /\ x(i) # 1 /\ y(i) # 1 THEN Unknown
        ELSE [i \in 1 .. len |-> IF x(i) = 1 THEN y(i) ELSE x(i)]

\* A tensor whose element number o is at(o).
Make(dims, at(_)) == [dims |-> dims, at |-> [o \in 0 .. Numel(dims) - 1 |-> at(o)]]

\* What a kernel that returns an error leaves, and one that reads past the end of a buffer.
Failed == [dims |-> Unknown, at |-> <<"error">>]
Garbage == [dims |-> Unknown, at |-> <<"garbage">>]
IsTensor(t) == t.dims # Unknown

-----------------------------------------------------------------------------
(* Elementwise.                                                            *)

UnaryF32(f(_), x) == Make(x.dims, LAMBDA o : f(x.at[o]))

\* The same number of elements, whatever the shapes, or one element.
BinaryF32(f(_, _), a, b) ==
    LET one == [t \in {a, b} |-> Numel(t.dims) = 1]
    IN  IF Numel(a.dims) = Numel(b.dims) THEN Make(a.dims, LAMBDA o : f(a.at[o], b.at[o]))
        ELSE IF one[b] THEN Make(a.dims, LAMBDA o : f(a.at[o], b.at[0]))
        ELSE IF one[a] THEN Make(b.dims, LAMBDA o : f(a.at[0], b.at[o]))
        ELSE Failed

PlusF32(x, y) == x + y
MinusF32(x, y) == x - y
TimesF32(x, y) == x * y
ReluF32(v) == IF v < 0 THEN 0 ELSE v

-----------------------------------------------------------------------------
(* Matrix products.                                                        *)

SumOver(n, term(_)) == LET upTo[i \in 0 .. n] == IF i = 0 THEN 0 ELSE upTo[i - 1] + term(i - 1) IN upTo[n]

\* The batch is the leading dimensions of a; b is stepped through it as well, also when it is
\* one matrix: then the entries after the first are read past its end.
matmul(a, b) ==
    LET Ra == Len(a.dims)
        Rb == Len(b.dims)
    IN  IF Ra < 2 \/ Rb < 2 \/ a.dims[Ra] # b.dims[Rb - 1] THEN Failed
        ELSE LET m == a.dims[Ra - 1]
                 k == a.dims[Ra]
                 n == b.dims[Rb]
                 lead == SubSeq(a.dims, 1, Ra - 2)
             IN  IF Numel(lead) * k * n > Numel(b.dims) THEN Garbage
                 ELSE Make(lead \o <<m, n>>, LAMBDA o :
                        LET bi == o \div (m * n)
                            i == (o % (m * n)) \div n
                        IN  SumOver(k, LAMBDA t : a.at[bi * m * k + i * k + t] * b.at[bi * k * n + t * n + (o % n)]))

Turned(x) == Make(<<x.dims[2], x.dims[1]>>,
                  LAMBDA o : x.at[(o % x.dims[1]) * x.dims[2] + (o \div x.dims[1])])

\* alpha = beta = 1; only the first two dimensions of the operands are looked at, and the third
\* operand, if there is one, is a row or one element.
gemm(a1, b1, bias, transA, transB) ==
    LET a == IF transA THEN Turned(a1) ELSE a1
        b == IF transB THEN Turned(b1) ELSE b1
        m == a.dims[1]
        k == a.dims[2]
        n == b.dims[2]
        of(o) == SumOver(k, LAMBDA t : a.at[(o \div n) * Strides(a.dims)[1] + t * Strides(a.dims)[2]]
                                         * b.at[t * Strides(b.dims)[1] + (o % n) * Strides(b.dims)[2]])
    IN  IF Len(a.dims) < 2 \/ Len(b.dims) < 2 \/ k # b.dims[1] THEN Failed
        ELSE IF bias = <<>> THEN Make(<<m, n>>, of)
        ELSE IF Numel(bias[1].dims) \notin {1, n} THEN Failed
        ELSE Make(<<m, n>>, LAMBDA o : of(o) + bias[1].at[IF Numel(bias[1].dims) = 1 THEN 0 ELSE o % n])

-----------------------------------------------------------------------------
(* Reductions, softmax and norms: which elements an element is made of.    *)

NormaliseAxis(axis, rank) == IF axis < 0 THEN rank + axis + 1 ELSE axis + 1
NormaliseAxes(axes, rank) ==
    IF axes = <<>> THEN 1 .. rank ELSE {NormaliseAxis(axes[i], rank) : i \in DOMAIN axes}

\* The dimensions left of a reduction.
ReducedDims(dims, gone, keep) ==
    LET kept == [i \in DOMAIN dims |-> IF i \in gone THEN 1 ELSE dims[i]]
    IN  IF keep THEN kept
        ELSE [j \in 1 .. Len(dims) - Cardinality(gone) |->
                 dims[CHOOSE i \in DOMAIN dims \ gone : Cardinality((1 .. i) \ gone) = j]]

\* Where reduce() accumulates element number o: the strides of the output, one dimension of it
\* for each that stays, and one to skip for each that is kept as 1.
ReduceTarget(dims, gone, keep, o) ==
    LET out == Strides(ReducedDims(dims, gone, keep))
        slot(i) == IF keep THEN i ELSE Cardinality((1 .. i) \ gone)
    IN  FoldLeft(LAMBDA n, i : IF i \in gone THEN n ELSE n + Coord(dims, o)[i] * out[slot(i)], 0,
                 [i \in DOMAIN dims |-> i])

Reduce(x, axes, keep) ==
    LET gone == NormaliseAxes(axes, Len(x.dims))
    IN  Make(ReducedDims(x.dims, gone, keep),
             LAMBDA o : {i \in DOMAIN x.at : ReduceTarget(x.dims, gone, keep, i) = o})

\* The slice of softmax and log_softmax along an axis, and the place of the element in it.
SoftmaxSlice(dims, axis, o) ==
    LET ax == NormaliseAxis(axis, Len(dims))
        size == dims[ax]
        inner == Strides(dims)[ax]
        outer == o \div (size * inner)
    IN  [d \in 0 .. size - 1 |-> (outer * size + d) * inner + (o % inner)]

\* layer_norm from an axis on, and rms_norm over the last one.
NormSlice(dims, axis, o) ==
    LET size == Numel(SubSeq(dims, NormaliseAxis(axis, Len(dims)), Len(dims)))
    IN  [i \in 0 .. size - 1 |-> (o \div size) * size + i]

-----------------------------------------------------------------------------
(* Convolution: an image row per (channel, kernel position), multiplied    *)
(* with the kernels of the group.                                          *)

ConvDims(xs, ws, pads, strides, dilations) ==
    <<xs[1], ws[1],
      (xs[3] + pads[1] + pads[3] - dilations[1] * (ws[3] - 1) - 1) \div strides[1] + 1,
      (xs[4] + pads[2] + pads[4] - dilations[2] * (ws[4] - 1) - 1) \div strides[2] + 1>>

\* Element (row, column) of the im2col matrix of a batch entry and a group; -1 is padding.
Im2Col(xs, ws, pads, strides, dilations, outW, batch, group, row, col) ==
    LET kj == row % ws[4]
        ki == (row \div ws[4]) % ws[3]
        c == group * ws[2] + (row \div (ws[3] * ws[4]))
        ih == (col \div outW) * strides[1] + ki * dilations[1] - pads[1]
        iw == (col % outW) * strides[2] + kj * dilations[2] - pads[2]
    IN  IF ih \in 0 .. xs[3] - 1 /\ iw \in 0 .. xs[4] - 1
        THEN batch * xs[2] * xs[3] * xs[4] + c * xs[3] * xs[4] + ih * xs[4] + iw
        ELSE -1

\* The products (kernel element, image element) that output element o adds up.
Conv2d(xs, ws, pads, strides, dilations, groups, o) ==
    LET out == ConvDims(xs, ws, pads, strides, dilations)
        rows == ws[2] * ws[3] * ws[4]
        hw == out[3] * out[4]
        perGroup == ws[1] \div groups
        co == (o \div hw) % ws[1]
        at(row) == Im2Col(xs, ws, pads, strides, dilations, out[4], o \div (ws[1] * hw), co \div perGroup, row, o % hw)
    IN  {<<(co \div perGroup) * perGroup * rows + (co % perGroup) * rows + row, at(row)>> :
            row \in {r \in 0 .. rows - 1 : at(r) # -1}}
=============================================================================
