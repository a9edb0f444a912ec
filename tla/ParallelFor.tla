---------------------------- MODULE ParallelFor ----------------------------
(***************************************************************************)
(* What SpinPool::run promises its caller: a run of n chunks calls f(c)    *)
(* exactly once for each c in 0..n-1, in any order and by any thread, and  *)
(* returns only when all of them have been called.                         *)
(***************************************************************************)
EXTENDS Integers

CONSTANTS Publishers, MaxChunks

VARIABLES
    running,   \* the callers that are inside run()
    todo       \* for each caller, the chunks still to be called

vars == <<running, todo>>

Init ==
    /\ running = {}
    /\ todo = [p \in Publishers |-> {}]

Start(p, n) ==
    /\ p \notin running
    /\ running' = IF n = 0 THEN running ELSE running \cup {p}
    /\ todo' = [todo EXCEPT ![p] = 0 .. n - 1]

Call(p, c) ==
    /\ p \in running
    /\ c \in todo[p]
    /\ todo' = [todo EXCEPT ![p] = @ \ {c}]
    /\ UNCHANGED running

Return(p) ==
    /\ p \in running
    /\ todo[p] = {}
    /\ running' = running \ {p}
    /\ UNCHANGED todo

Next ==
    \E p \in Publishers :
        \/ \E n \in 0 .. MaxChunks : Start(p, n)
        \/ \E c \in 0 .. MaxChunks - 1 : Call(p, c)
        \/ Return(p)

Spec == Init /\ [][Next]_vars
=============================================================================
