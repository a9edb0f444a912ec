---------------------------- MODULE MatmulPlan ----------------------------
(***************************************************************************)
(* How the CPU matmuls (kernels/matmul.rs) divide an m x n output among    *)
(* tasks and tiles.  A plan is the set of writes of one call: who writes   *)
(* (task and place in its loops), which cell of the row-major output, and  *)
(* from which weight row and activation row the value is computed.  Tasks  *)
(* run on different threads and write through shared pointers, so that a   *)
(* plan must give every cell one writer.                                   *)
(***************************************************************************)
EXTENDS Integers, Sequences, FiniteSets

\* The calls, each with its shape (m x k times n x k), what gemv_chunk sees of the machine (eff,
\* rayon, ncpus, tpc), the tasks that split the weight rows, the bytes of a panel of activations,
\* and whether the float matmul is large enough for its threads.
CONSTANT MatmulCalls

ASSUME CallAssumption ==
    MatmulCalls \subseteq [m : Nat \ {0}, n : Nat \ {0}, k : Nat \ {0}, eff : Nat, rayon : Nat, ncpus : Nat \ {0},
                          tpc : Nat, tasks : Nat \ {0}, bytes : Nat, threads : Nat \ {0}, large : BOOLEAN]

MinOf(a, b) == IF a < b THEN a ELSE b
MaxOf(a, b) == IF a > b THEN a ELSE b

DivCeil(a, b) == (a + b - 1) \div b

\* The largest multiple of 4 up to a.
Floor4(a) == 4 * (a \div 4)

\* lo, lo + step, ... below hi.
StepBy(lo, hi, step) == {lo + step * q : q \in 0 .. DivCeil(MaxOf(hi - lo, 0), step) - 1}

Write(by, out, w, x) == [by |-> by, out |-> out, w |-> w, x |-> x]

\* What a plan for w[n, k] and x[m, k] must be: every cell has one writer, and gets its product.
WritesEachOnce(plan, m, n) ==
    /\ {p.out : p \in plan} = 0 .. m * n - 1
    /\ \A p, q \in plan : p.out = q.out => p = q
    /\ \A p \in plan : p.out = p.x * n + p.w

-----------------------------------------------------------------------------
(* Chunks.                                                                 *)

\* gemv_chunk: rows per task.  Governed (eff < rayon): one task per allowed thread.  tpc = 0
\* is an unset SAPIENT_GEMV_TPC; ncpus the parallelism of the pool that will run the chunks.
GemvChunk(n, eff, rayon, ncpus, tpc) ==
    IF eff < rayon THEN MaxOf(n \div MaxOf(eff, 1), 16)
    ELSE IF tpc >= 1 THEN MaxOf(n \div (ncpus * tpc), 16)
    ELSE MinOf(MaxOf(n \div (ncpus * 4), 16), 512)

\* for_each_out_chunk: the slice of an output of len cells that chunk ci gets.
Slice(len, chunk, ci) == ci * chunk .. MinOf(ci * chunk + chunk, len) - 1

Chunks(len, chunk) == 0 .. DivCeil(len, chunk) - 1

\* The slices of one call are disjoint and are all of the output.
SlicesPartition(len, chunk) ==
    /\ UNION {Slice(len, chunk, ci) : ci \in Chunks(len, chunk)} = 0 .. len - 1
    /\ \A c1, c2 \in Chunks(len, chunk) : c1 # c2 => Slice(len, chunk, c1) \cap Slice(len, chunk, c2) = {}

\* gemv_parallel, one call per activation row.
GemvParallel(m, n, chunk) ==
    {Write(<<i, t>>, i * n + t[2], t[2], i) :
        i \in 0 .. m - 1, t \in UNION {{ci} \X Slice(n, chunk, ci) : ci \in Chunks(n, chunk)}}

\* matmul_nt_float with m > 1: one sgemm per block of rows; small products are one block.
MBlock(m, threads, large) == IF m >= 2 /\ large THEN MaxOf(DivCeil(m, threads), 4) ELSE m

MatmulFloatBlocks(m, n, mblock) ==
    UNION {LET mc == Cardinality(Slice(m * n, mblock * n, bi)) \div n
           IN  {Write(<<bi, r>>, bi * mblock * n + r * n + j, j, bi * mblock + r) : r \in 0 .. mc - 1, j \in 0 .. n - 1} :
              bi \in Chunks(m * n, mblock * n)}

\* matmul_nt_q4_k with dotprod: four rows while they fit, then single ones.
FourThenOne(len) ==
    {<<q, o>> : q \in StepBy(0, Floor4(len), 4), o \in 0 .. 3} \cup {<<q, 0>> : q \in Floor4(len) .. len - 1}

MatmulQ4K(m, n, chunk) ==
    UNION {{Write(<<i, ci, t>>, i * n + ci * chunk + t[1] + t[2], ci * chunk + t[1] + t[2], i) :
               t \in FourThenOne(Cardinality(Slice(n, chunk, ci)))} :
              i \in 0 .. m - 1, ci \in Chunks(n, chunk)}

-----------------------------------------------------------------------------
(* Rows repacked in groups of four (matmul_nt_q4_k_r4, matmul_nt_q6_k_r4); *)
(* n is a multiple of 4.                                                   *)

\* One activation row at a time: a task has gchunk groups, group gl of it writes four cells.
MatmulR4Rows(m, n, chunk) ==
    LET gchunk == MaxOf(chunk \div 4, 1)
    IN  UNION {{Write(<<i, ci, gl, r>>, i * n + ci * gchunk * 4 + 4 * gl + r, 4 * (ci * gchunk + gl) + r, i) :
                   gl \in 0 .. Cardinality(Slice(n, 4 * gchunk, ci)) \div 4 - 1, r \in 0 .. 3} :
                  i \in 0 .. m - 1, ci \in Chunks(n, 4 * gchunk)}

\* With i8mm: a task per group fills its 4m cells of out_t, two activation rows at a time and
\* an odd last one alone; then out_t is transposed into the output.
Paired(m) ==
    {<<xi, o>> : xi \in StepBy(0, 2 * (m \div 2), 2), o \in {0, 1}}
    \cup {<<xi, 0>> : xi \in 2 * (m \div 2) .. m - 1}

OutT(m, n) ==
    {Write(<<g, xo>>, 4 * m * g + r * m + xo[1] + xo[2], 4 * g + r, xo[1] + xo[2]) :
        g \in 0 .. n \div 4 - 1, r \in 0 .. 3, xo \in Paired(m)}

MatmulR4Smmla(m, n) ==
    UNION {{Write(p.by, i * n + 4 * g + r, p.w, p.x) : p \in {q \in OutT(m, n) : q.out = (4 * g + r) * m + i}} :
              g \in 0 .. n \div 4 - 1, r \in 0 .. 3, i \in 0 .. m - 1}

\* Without int8 activations: one scratch row de-interleaved at a time.
MatmulR4Fallback(m, n) ==
    {Write(<<i, g, r>>, i * n + g * 4 + r, 4 * g + r, i) : i \in 0 .. m - 1, g \in 0 .. n \div 4 - 1, r \in 0 .. 3}

-----------------------------------------------------------------------------
(* The blocked W8A8 matmul (matmul_nt_q8_0 with m >= 8): a task owns wchunk *)
(* columns and passes its weight rows over panels of activation rows.      *)

\* q8_gemm_wchunk, for a number of tasks to split n rows into.
WChunk(n, tasks) == MaxOf(4 * DivCeil(DivCeil(n, tasks), 4), 4)

\* Activation rows of a panel: bytes / k, a multiple of 4.
Panel(bytes, k) == Floor4(MaxOf(bytes \div k, 4))

\* put(jl + l, i + ri): column jl + l of the task's columns, row i + ri.
Put(n, by, j0, jl, l, i, ri) == Write(<<by, jl, i>>, (i + ri) * n + j0 + jl + l, j0 + jl + l, i + ri)

\* Mutant: leftover activation rows skip the leftover weight rows.
Q8Tiles_RowsToM(n, ci, j0, rows, p0, p1) ==
    LET rows4 == Floor4(rows)
        q1    == p0 + Floor4(p1 - p0)
    IN  {Put(n, <<ci, p0, 1>>, j0, jl, l, i, ri) : jl \in StepBy(0, rows4, 4), l \in 0 .. 3, i \in StepBy(p0, q1, 4), ri \in 0 .. 3}
        \cup {Put(n, <<ci, p0, 2>>, j0, jl, 0, i, ri) : jl \in rows4 .. rows - 1, i \in StepBy(p0, q1, 4), ri \in 0 .. 3}
        \cup {Put(n, <<ci, p0, 3>>, j0, jl, 0, i, 0) : jl \in 0 .. rows4 - 1, i \in q1 .. p1 - 1}

\* The tiles of task ci for panel p0 .. p1 - 1: 4 x 4, leftover weight rows against four
\* activation rows, every weight row against the leftover activation rows.
Q8Tiles(n, ci, j0, rows, p0, p1) ==
    LET rows4 == Floor4(rows)
        q1    == p0 + Floor4(p1 - p0)
    IN  {Put(n, <<ci, p0, 1>>, j0, jl, l, i, ri) : jl \in StepBy(0, rows4, 4), l \in 0 .. 3, i \in StepBy(p0, q1, 4), ri \in 0 .. 3}
        \cup {Put(n, <<ci, p0, 2>>, j0, jl, 0, i, ri) : jl \in rows4 .. rows - 1, i \in StepBy(p0, q1, 4), ri \in 0 .. 3}
        \cup {Put(n, <<ci, p0, 3>>, j0, jl, 0, i, 0) : jl \in 0 .. rows - 1, i \in q1 .. p1 - 1}

MatmulQ8Blocked(m, n, wchunk, panel) ==
    UNION {Q8Tiles(n, ci, ci * wchunk, MinOf(wchunk, n - ci * wchunk), p0, MinOf(p0 + panel, m)) :
              ci \in Chunks(n, wchunk), p0 \in StepBy(0, m, panel)}

\* q8_0_gemm_nt_serial, called by a task that is already parallel: its loops are those of one
\* task with all n columns and one panel.
Q8GemmSerial(m, n) ==
    LET m4 == Floor4(m)
        n4 == Floor4(n)
    IN  {Write(<<1, j, i>>, (i + ri) * n + j + l, j + l, i + ri) :
            j \in StepBy(0, n4, 4), l \in 0 .. 3, i \in StepBy(0, m4, 4), ri \in 0 .. 3}
        \cup {Write(<<2, j, i>>, i * n + j, j, i) : i \in m4 .. m - 1, j \in 0 .. n - 1}
        \cup {Write(<<3, j, i>>, i * n + j, j, i) : i \in 0 .. m4 - 1, j \in n4 .. n - 1}

-----------------------------------------------------------------------------
(* matmul_nt: the plans each function may choose, by CPU features, m and   *)
(* weight type; wchunk, panel and mblock belong to the blocked ones.       *)

matmul_nt_q4_0(m, n, chunk) == <<GemvParallel(m, n, chunk)>>
matmul_nt_q5_k(m, n, chunk) == <<GemvParallel(m, n, chunk)>>
matmul_nt_q6_k(m, n, chunk) == <<GemvParallel(m, n, chunk)>>
matmul_nt_q4_k(m, n, chunk) == <<MatmulQ4K(m, n, chunk), GemvParallel(m, n, chunk)>>

matmul_nt_q8_0(m, n, chunk, wchunk, panel) ==
    <<GemvParallel(m, n, chunk)>> \o (IF m >= 8 THEN <<MatmulQ8Blocked(m, n, wchunk, panel)>> ELSE <<>>)

matmul_nt_q4_k_r4(m, n, chunk) ==
    <<MatmulR4Rows(m, n, chunk), MatmulR4Fallback(m, n)>> \o (IF m >= 2 THEN <<MatmulR4Smmla(m, n)>> ELSE <<>>)

matmul_nt_q6_k_r4(m, n, chunk) ==
    <<MatmulR4Rows(m, n, chunk), MatmulR4Fallback(m, n)>> \o (IF m >= 2 THEN <<MatmulR4Smmla(m, n)>> ELSE <<>>)

matmul_nt_float(m, n, chunk, mblock) ==
    <<MatmulFloatBlocks(m, n, mblock)>> \o (IF m = 1 THEN <<GemvParallel(m, n, chunk)>> ELSE <<>>)

AllWriteEachOnce(plans, m, n) == \A i \in DOMAIN plans : WritesEachOnce(plans[i], m, n)

-----------------------------------------------------------------------------
(* The float dot products: the elements <<start of a step, lane>> a loop   *)
(* visits, in steps of w from lo while a whole one fits below n.           *)

Steps(lo, n, w) == StepBy(lo, lo + w * ((n - lo) \div w), w) \X (0 .. w - 1)

Reached(lo, n, w) == lo + w * ((n - lo) \div w)

dot_f32_neon_fast(n) ==
    LET i16 == Reached(0, n, 16)
    IN  Steps(0, n, 16) \cup Steps(i16, n, 4) \cup Steps(Reached(i16, n, 4), n, 1)

dot_f32_avx2(n) == Steps(0, n, 8) \cup Steps(Reached(0, n, 8), n, 1)

\* The value it gives an F16 weight is NeonF16 of QuantKernels.
dot_f32_x_f16_neon(n) == Steps(0, n, 4) \cup Steps(Reached(0, n, 4), n, 1)

\* Every element once.
VisitsEachOnce(visits, n) ==
    /\ {v[1] + v[2] : v \in visits} = 0 .. n - 1
    /\ \A u, v \in visits : u[1] + u[2] = v[1] + v[2] => u = v

-----------------------------------------------------------------------------
(* One call, with everything its plans depend on.                          *)

CallWritesOnce(c) ==
    LET chunk  == GemvChunk(c.n, c.eff, c.rayon, c.ncpus, c.tpc)
        wchunk == WChunk(c.n, c.tasks)
        panel  == Panel(c.bytes, c.k)
        mblock == MBlock(c.m, c.threads, c.large)
    IN  /\ SlicesPartition(c.n, chunk)
        /\ AllWriteEachOnce(matmul_nt_q4_0(c.m, c.n, chunk), c.m, c.n)
        /\ AllWriteEachOnce(matmul_nt_q5_k(c.m, c.n, chunk), c.m, c.n)
        /\ AllWriteEachOnce(matmul_nt_q6_k(c.m, c.n, chunk), c.m, c.n)
        /\ AllWriteEachOnce(matmul_nt_q4_k(c.m, c.n, chunk), c.m, c.n)
        /\ AllWriteEachOnce(matmul_nt_q8_0(c.m, c.n, chunk, wchunk, panel), c.m, c.n)
        /\ AllWriteEachOnce(matmul_nt_float(c.m, c.n, chunk, mblock), c.m, c.n)
        /\ WritesEachOnce(Q8GemmSerial(c.m, c.n), c.m, c.n)
        /\ c.n % 4 = 0 => /\ AllWriteEachOnce(matmul_nt_q4_k_r4(c.m, c.n, chunk), c.m, c.n)
                          /\ AllWriteEachOnce(matmul_nt_q6_k_r4(c.m, c.n, chunk), c.m, c.n)
        /\ \A visits \in {dot_f32_neon_fast(c.k), dot_f32_avx2(c.k), dot_f32_x_f16_neon(c.k)} : VisitsEachOnce(visits, c.k)
=============================================================================
