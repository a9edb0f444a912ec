-------------------------- MODULE MixtureOfExperts --------------------------
(***************************************************************************)
(* The sparse feed-forward layer of the CPU engine (sapient-models,        *)
(* forward/llama.rs): every token is routed to its best experts, and each  *)
(* expert runs once over the tokens routed to it.                          *)
(*                                                                         *)
(* Scores are integers in the order of the gate's probabilities; a weight  *)
(* is the score it came from, what it was normalised over and the scale.   *)
(***************************************************************************)
EXTENDS Integers, Sequences, SequencesExt

Experts(score) == DOMAIN score

\* route_topk: the k best by choice score (a bias shifts the choice only), ties to the lower
\* index; the weights are the scores without the bias, divided by their sum if asked.
RouteTopk(score, bias, k, norm) ==
    LET choice(e) == score[e] + bias[e]
        Before(a, b) == choice(a) > choice(b) \/ (choice(a) = choice(b) /\ a < b)
        idx == SetToSortSeq(Experts(score), Before)
        top == SubSeq(idx, 1, IF k < Len(idx) THEN k ELSE Len(idx))
        over == IF norm THEN {<<e, score[e]>> : e \in ToSet(top)} ELSE {}
    IN  [i \in DOMAIN top |-> <<top[i], [of |-> score[top[i]], over |-> over]>>]

\* The tokens of an expert, in order, with their weights.
ExpertTokens(scores, bias, k, norm, e) ==
    LET route == [t \in DOMAIN scores |-> RouteTopk(scores[t], bias, k, norm)]
        hits(t) == SelectSeq(route[t], LAMBDA p : p[1] = e)
    IN  FlattenSeq([t \in DOMAIN scores |-> [i \in DOMAIN hits(t) |-> <<t, hits(t)[i][2]>>]])

\* moe_ffn: gather an expert's rows, run it on the batch, scatter the weighted rows back; a
\* shared expert runs over all rows, without a weight.
MoeFfn(h, scores, bias, k, norm, shared) ==
    LET Batch(e) == ExpertTokens(scores, bias, k, norm, e)
        gathered(e) == [i \in DOMAIN Batch(e) |-> h[Batch(e)[i][1]]]
        down(e) == [i \in DOMAIN gathered(e) |-> <<e, gathered(e)[i]>>]
        scattered(t) == {<<Batch(e)[i][2], down(e)[i]>> : <<e, i>> \in
                            {p \in Experts(scores[t]) \X DOMAIN h : p[2] \in DOMAIN Batch(p[1]) /\ Batch(p[1])[p[2]][1] = t}}
    IN  [t \in DOMAIN h |-> [routed |-> scattered(t), shared |-> IF shared THEN {h[t]} ELSE {}]]

\* What a token gets: the top k by choice, weighted by their own scores.
Reference(h, scores, bias, k, norm, shared) ==
    [t \in DOMAIN h |->
        LET best == CHOOSE S \in SUBSET Experts(scores[t]) :
                        /\ Cardinality(S) = (IF k < Len(scores[t]) THEN k ELSE Len(scores[t]))
                        /\ \A a \in S, b \in Experts(scores[t]) \ S :
                              \/ scores[t][a] + bias[a] > scores[t][b] + bias[b]
                              \/ scores[t][a] + bias[a] = scores[t][b] + bias[b] /\ a < b
            over == IF norm THEN {<<e, scores[t][e]>> : e \in best} ELSE {}
        IN  [routed |-> {<<[of |-> scores[t][e], over |-> over], <<e, h[t]>> >> : e \in best},
             shared |-> IF shared THEN {h[t]} ELSE {}]]
=============================================================================
