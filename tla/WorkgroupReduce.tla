-------------------------- MODULE WorkgroupReduce --------------------------
(***************************************************************************)
(* The lanes of one workgroup of the wgpu reductions: rms_norm.wgsl (and   *)
(* the matmul shaders, which reduce in the same way), layer_norm.wgsl and  *)
(* attention.wgsl.  Lanes run at their own pace between workgroupBarriers  *)
(* and meet in the shared array `partial`.  A lane's own sum over its      *)
(* strided elements in pass p is the atom <<p, lane>>; a partial sum is a  *)
(* bag of atoms, so that an addend lost, stale or added twice shows.       *)
(*                                                                         *)
(* In attention a pass is a key.  The running softmax is kept as the keys  *)
(* it has seen: sh_m (their maximum), sh_l, the weight sh_p of the newest  *)
(* and the factor sh_corr that rescales from one maximum to the next.      *)
(***************************************************************************)
EXTENDS Naturals, Sequences, Bags

CONSTANTS
    WGSIZE,   \* lanes, a power of two
    PASSES    \* passes over the row (layer_norm 2, rms_norm 1), or keys attended

\* WGSIZE is a power of two: in a set of numbers each 1 or the double of another.
ASSUME ReduceAssumption ==
    /\ WGSIZE \in Nat /\ PASSES \in Nat \ {0}
    /\ \E P \in SUBSET (1 .. WGSIZE) : WGSIZE \in P /\ \A n \in P : n = 1 \/ \E h \in P : n = 2 * h

VARIABLES
    kernel,   \* which shader this workgroup runs
    partial,  \* var<workgroup> partial: lane -> bag of atoms
    sh,       \* var<workgroup> sh_m, sh_l, sh_p, sh_corr
    lanes     \* lane -> pc, the pass, the stride, the value loaded, what it read, barriers reached

redVars == <<kernel, partial, sh, lanes>>

Kernels == {"rms_norm", "layer_norm", "attention"}

Lane == 0 .. WGSIZE - 1

Passes == IF kernel = "rms_norm" THEN 1 ELSE PASSES

Own(pass, l) == SetToBag({<<pass, l>>})

FullSum(pass) == SetToBag({<<pass, l>> : l \in Lane})

\* What softmax state sh_* holds before the first key.
NoKeys == [m |-> {}, l |-> {}, p |-> <<EmptyBag, {}>>, corr |-> <<{}, {}>>]

RedInit ==
    /\ kernel \in Kernels
    /\ partial = [l \in Lane |-> EmptyBag]
    /\ sh = NoKeys
    /\ lanes = [l \in Lane |-> [pc |-> IF kernel = "attention" THEN "start" ELSE "put",
                                next |-> "put", pass |-> 1, s |-> 0, reg |-> EmptyBag,
                                read |-> <<>>, out |-> [keys |-> {}, rel |-> {}], bar |-> 0]]

\* Lane l, after changes `ch`, reaches a barrier and will go on at pc `next`.
AtBarrier(lane, next) == [lane EXCEPT !.pc = "barrier", !.next = next, !.bar = @ + 1]

SetLane(l, rec) == lanes' = [lanes EXCEPT ![l] = rec]

AtPc(l, pc) == lanes[l].pc = pc

-----------------------------------------------------------------------------

\* All lanes have arrived.
PassBarrier(l) ==
    /\ AtPc(l, "barrier")
    /\ \A o \in Lane : lanes[o].bar >= lanes[l].bar
    /\ SetLane(l, [lanes[l] EXCEPT !.pc = lanes[l].next])
    /\ UNCHANGED <<kernel, partial, sh>>

\* partial[tid] = s; workgroupBarrier(); stride = WGSIZE / 2.
StorePartial(l) ==
    /\ AtPc(l, "put")
    /\ partial' = [partial EXCEPT ![l] = Own(lanes[l].pass, l)]
    /\ SetLane(l, AtBarrier([lanes[l] EXCEPT !.s = WGSIZE \div 2], "reduce"))
    /\ UNCHANGED <<kernel, sh>>

\* One round of the tree: lanes below the stride load partial[tid + stride] ...
LoadAddend(l) ==
    /\ AtPc(l, "reduce")
    /\ l < lanes[l].s
    /\ SetLane(l, [lanes[l] EXCEPT !.pc = "add", !.reg = partial[l + lanes[l].s]])
    /\ UNCHANGED <<kernel, partial, sh>>

\* ... and add it to their own.
Add(l) ==
    /\ AtPc(l, "add")
    /\ partial' = [partial EXCEPT ![l] = @ (+) lanes[l].reg]
    /\ SetLane(l, AtBarrier([lanes[l] EXCEPT !.s = @ \div 2], "reduce"))
    /\ UNCHANGED <<kernel, sh>>

SkipAdd(l) ==
    /\ AtPc(l, "reduce")
    /\ 0 < lanes[l].s
    /\ lanes[l].s <= l
    /\ SetLane(l, AtBarrier([lanes[l] EXCEPT !.s = @ \div 2], "reduce"))
    /\ UNCHANGED <<kernel, partial, sh>>

\* Mutant: no barrier before the next pass.
ReadSum_NoBarrier(l) ==
    /\ kernel # "attention"
    /\ AtPc(l, "reduce")
    /\ lanes[l].s = 0
    /\ LET got == [lanes[l] EXCEPT !.read = Append(@, partial[0])]
       IN  SetLane(l, IF got.pass < Passes THEN [got EXCEPT !.pass = @ + 1, !.pc = "put"]
                      ELSE [got EXCEPT !.pc = "done"])
    /\ UNCHANGED <<kernel, partial, sh>>

\* The norms: every lane reads the sum from partial[0]; layer_norm has a barrier before the
\* next pass overwrites it.
ReadSum(l) ==
    /\ kernel # "attention"
    /\ AtPc(l, "reduce")
    /\ lanes[l].s = 0
    /\ LET got == [lanes[l] EXCEPT !.read = Append(@, partial[0])]
       IN  SetLane(l, IF got.pass < Passes THEN AtBarrier([got EXCEPT !.pass = @ + 1], "put")
                      ELSE [got EXCEPT !.pc = "done"])
    /\ UNCHANGED <<kernel, partial, sh>>

-----------------------------------------------------------------------------
(* attention.wgsl.                                                         *)

\* Lane 0 sets sh_m and sh_l; everyone waits.
StartAttention(l) ==
    /\ AtPc(l, "start")
    /\ sh' = IF l = 0 THEN NoKeys ELSE sh
    /\ SetLane(l, AtBarrier(lanes[l], "put"))
    /\ UNCHANGED <<kernel, partial>>

\* Lane 0 turns the score partial[0] into the key's weight and the correction of the others.
Softmax(l) ==
    /\ kernel = "attention"
    /\ AtPc(l, "reduce")
    /\ lanes[l].s = 0
    /\ sh' = IF l = 0
             THEN LET m == sh.m \cup {lanes[l].pass}
                  IN  [m |-> m, l |-> sh.l \cup {lanes[l].pass},
                       p |-> <<partial[0], m>>, corr |-> <<sh.m, m>>]
             ELSE sh
    /\ SetLane(l, AtBarrier(lanes[l], "accumulate"))
    /\ UNCHANGED <<kernel, partial>>

\* o = corr * o + p * v[ki]: exact only if o was relative to the maximum corr starts from.
Accumulate(l) ==
    /\ AtPc(l, "accumulate")
    /\ LET ln == lanes[l]
           o  == ln.out
           ok == o.rel = sh.corr[1] /\ sh.p = <<FullSum(ln.pass), sh.corr[2]>>
           up == [ln EXCEPT !.out = [keys |-> IF ok THEN o.keys \cup {ln.pass} ELSE {0}, rel |-> sh.corr[2]]]
       IN  SetLane(l, IF ln.pass < Passes THEN AtBarrier([up EXCEPT !.pass = @ + 1], "put")
                      ELSE AtBarrier(up, "divide"))
    /\ UNCHANGED <<kernel, partial, sh>>

\* out = o / sh_l.
Divide(l) ==
    /\ AtPc(l, "divide")
    /\ SetLane(l, [lanes[l] EXCEPT !.pc = "done", !.read = <<sh.l>>])
    /\ UNCHANGED <<kernel, partial, sh>>

RedNext ==
    \E l \in Lane : PassBarrier(l) \/ StorePartial(l) \/ LoadAddend(l) \/ Add(l) \/ SkipAdd(l) \/ ReadSum(l)
                    \/ StartAttention(l) \/ Softmax(l) \/ Accumulate(l) \/ Divide(l)

RedSpec == RedInit /\ [][RedNext]_redVars

RedDone == \A l \in Lane : AtPc(l, "done")

-----------------------------------------------------------------------------

\* What every lane reads as the sum of a pass is the sum of that pass: every lane's addend once,
\* none of another pass, although lanes reuse the same cells at their own pace.  A lane of the
\* attention that has finished holds the softmax over all keys: each key's full score went in
\* once, and its accumulator and the divisor are relative to the same maximum.
ReductionsExact ==
    \A l \in Lane :
        IF kernel # "attention" THEN \A p \in DOMAIN lanes[l].read : lanes[l].read[p] = FullSum(p)
        ELSE AtPc(l, "done") => /\ lanes[l].out = [keys |-> 1 .. PASSES, rel |-> 1 .. PASSES]
                                /\ lanes[l].read = <<1 .. PASSES>>
=============================================================================
