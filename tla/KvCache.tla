------------------------------ MODULE KvCache ------------------------------
(***************************************************************************)
(* What a forward engine promises its callers (PrefixCache, Speculative):  *)
(* it holds tokens, and what it answers to a chunk is what a forward pass  *)
(* over the held tokens followed by the chunk would answer in one go.      *)
(*                                                                         *)
(* A hidden row is a term: what a layer adds to a row is determined by the *)
(* row and by what its query saw, the rows of the same layer with their    *)
(* distances (rotary embeddings enter scores as differences of positions). *)
(***************************************************************************)
EXTENDS Integers, Sequences

CONSTANTS
    LAYERS,    \* transformer layers
    WINDOW     \* positions a sliding layer looks back on, itself included

VARIABLES
    sliding,   \* the layers whose attention is limited to WINDOW positions
    most,      \* positions the cache has
    held,      \* the tokens whose keys and values are held
    exact,     \* are their keys turned to their own positions?
    answer      \* the last call and its answer

kvSpecVars == <<sliding, most, held, exact, answer>>

-----------------------------------------------------------------------------
\* The row of position i after a layer over the rows x.
Attended(x, layer, i) ==
    LET lo == IF layer \in sliding /\ i > WINDOW THEN i - WINDOW + 1 ELSE 1
    IN  [res |-> x[i], saw |-> [k \in 1 .. i - lo + 1 |-> <<i - (lo + k - 1), x[lo + k - 1]>>]]

\* The rows of a forward pass over a whole sequence of tokens.
OneShot(toks) ==
    LET row[l \in 0 .. LAYERS] == IF l = 0 THEN toks
                                  ELSE [i \in DOMAIN toks |-> Attended(row[l - 1], l, i)]
    IN  row[LAYERS]

\* The token a row stands for.
Base(r) == LET b[l \in 0 .. LAYERS] == IF l = 0 THEN r ELSE b[l - 1].res IN b[LAYERS]
BaseBelow(r) == LET b[l \in 0 .. LAYERS - 1] == IF l = 0 THEN r ELSE b[l - 1].res IN b[LAYERS - 1]

LastOf(s, n) == SubSeq(s, Len(s) - n + 1, Len(s))

\* What a call answers of the rows it computed: the last one, all, or all to be pooled.
Answer(op, rows) == IF op = "last" THEN <<rows[Len(rows)]>> ELSE rows

-----------------------------------------------------------------------------
\* The chunk is appended and answered in the context of what is held.
Extend ==
    LET c == answer'.chunk
    IN  /\ answer'.op \in {"last", "all"} /\ answer'.cached
        /\ exact /\ exact' /\ Len(held) + Len(c) <= most
        /\ held' = held \o c
        /\ answer'.rows = Answer(answer'.op, LastOf(OneShot(held \o c), Len(c)))

\* The cache is full, or has been: the oldest tokens leave, and the last row still sees all that
\* are held, but no longer at their true distances.
Slide ==
    LET c == answer'.chunk
        last == answer'.rows[Len(answer'.rows)]
    IN  /\ answer'.op \in {"last", "all"} /\ answer'.cached
        /\ (Len(held) + Len(c) > most \/ ~exact) /\ Len(c) <= most
        /\ held' = (IF Len(held) + Len(c) > most THEN LastOf(held \o c, most) ELSE held \o c)
        /\ [k \in DOMAIN last.saw |-> BaseBelow(last.saw[k][2])] = held'

\* The chunk is answered on its own; it may stay in the cache.
Fresh ==
    LET c == answer'.chunk
    IN  /\ answer'.op \in {"last", "all", "mean"}
        /\ held' \in {<<>>, c} /\ exact'
        /\ answer'.rows = Answer(answer'.op, OneShot(c))

\* Only the first tokens are kept, and the caller learns how many.
Truncate ==
    /\ answer'.op = "kept"
    /\ answer'.rows <= answer'.chunk
    /\ held' = SubSeq(held, 1, answer'.rows)
    /\ (exact \/ held' = <<>>) => exact'

\* The chunk does not fit, or the engine has no such call; a part of the chunk may be held.
Refuse ==
    /\ answer'.op = "err"
    /\ \E n \in 0 .. Len(answer'.chunk) : held' \in {held \o SubSeq(answer'.chunk, 1, n), SubSeq(answer'.chunk, 1, n)}
    /\ exact => exact'

KvInit == held = <<>> /\ exact = TRUE
KvNext == (Extend \/ Slide \/ Fresh \/ Truncate \/ Refuse) /\ UNCHANGED <<sliding, most>>

KvSpec == KvInit /\ [][KvNext]_kvSpecVars
=============================================================================
